----------------------------- MODULE Dash_proofs -----------------------------
(***************************************************************************)
(* Proofs about DashHandler, for any MPDs and any number of players, with   *)
(* the lemmas about sequences and sets of numbers they rest on.             *)
(***************************************************************************)
EXTENDS DashStandard, TLAPS, WellFoundedInduction, SequenceTheorems,
        FiniteSetTheorems

-----------------------------------------------------------------------------
(* How old a playlist is *)

(* An MPD published at this time had its answer complete at that one. *)
OnItsWay(at, upto) == at \in Nat /\ upto - at <= MaxFetch

(* How old what the cache, a request and a playlist hold can be. *)
AgeInv ==
  /\ dashNow \in Nat
  /\ mpdCache # None => mpdCache.set \in Nat /\ OnItsWay(mpdCache.at, mpdCache.set)
  /\ job = [p \in Player |-> job[p]]
  /\ \A p \in Player : job[p] # None =>
       /\ job[p] = [query |-> job[p].query, at |-> job[p].at]
       /\ job[p].at # None => OnItsWay(job[p].at, dashNow)
  /\ MpdFreshEnough

-----------------------------------------------------------------------------
LEMMA DashInitially == ASSUME DashInit PROVE AgeInv
BY DEF DashInit, AgeInv, MpdFreshEnough

(* A playlist is as old as the MPD it is made from. *)
LEMMA ServedAge ==
  ASSUME NEW query, NEW at, Serve(query, at), MpdFreshEnough,
         dashNow - at < MpdTtl + MaxFetch
  PROVE  MpdFreshEnough'
<1>1. \/ UNCHANGED shown
      \/ shown'.at = at /\ shown'.now = dashNow
  BY DEF Serve
<1> QED BY <1>1 DEF MpdFreshEnough

(* A hit is younger than the time to live, on top of its way to the cache. *)
LEMMA AskKeeps ==
  ASSUME AgeInv, NEW p \in Player, NEW query, Ask(p, query)
  PROVE  AgeInv'
<1>1. UNCHANGED <<dashNow, mpdCache>>
  BY DEF Ask
<1>2. CASE Cached
  <2>1. Serve(query, mpdCache.at) /\ UNCHANGED job
    BY <1>2 DEF Ask
  <2>2. dashNow - mpdCache.at < MpdTtl + MaxFetch
    BY <1>2, DashAssumption DEF Cached, AgeInv, OnItsWay
  <2>3. MpdFreshEnough'
    BY <2>1, <2>2, ServedAge DEF AgeInv
  <2> QED BY <1>1, <2>1, <2>3 DEF AgeInv
<1>3. CASE ~Cached
  <2>1. job' = [job EXCEPT ![p] = [query |-> query, at |-> None]] /\ UNCHANGED shown
    BY <1>3 DEF Ask
  <2> QED BY <1>1, <2>1 DEF AgeInv, MpdFreshEnough
<1> QED BY <1>2, <1>3

LEMMA UpstreamAnswersKeeps ==
  ASSUME AgeInv, NEW p \in Player, UpstreamAnswers(p)
  PROVE  AgeInv'
<1>1. /\ job[p] # None /\ job' = [job EXCEPT ![p].at = dashNow]
      /\ UNCHANGED <<dashNow, mpdCache, shown>>
  BY DEF UpstreamAnswers
<1> DEFINE answered == [query |-> job[p].query, at |-> dashNow]
<1>2. /\ job = [q \in Player |-> job[q]]
      /\ job[p] = [query |-> job[p].query, at |-> job[p].at]
  BY <1>1 DEF AgeInv
<1>3. [job[p] EXCEPT !.at = dashNow] = answered
  BY <1>2
<1>4. job' = [job EXCEPT ![p] = answered]
  BY <1>1, <1>3
<1>5. /\ answered = [query |-> answered.query, at |-> answered.at]
      /\ OnItsWay(answered.at, dashNow)
  BY DashAssumption DEF AgeInv, OnItsWay
<1> HIDE DEF answered
<1>6. \A q \in Player : job'[q] = IF q = p THEN answered ELSE job[q]
  BY <1>2, <1>4
<1>7. (job = [q \in Player |-> job[q]])'
  BY <1>2, <1>4
<1> QED BY <1>1, <1>5, <1>6, <1>7 DEF AgeInv, MpdFreshEnough

LEMMA UpstreamDownKeeps ==
  ASSUME AgeInv, NEW p \in Player, UpstreamDown(p)
  PROVE  AgeInv'
BY DEF AgeInv, UpstreamDown, MpdFreshEnough

(* What enters the cache, over an older or a newer entry, has been on its   *)
(* way for no longer than an answer may take.                               *)
LEMMA FetchEndsKeeps ==
  ASSUME AgeInv, NEW p \in Player, FetchEnds(p)
  PROVE  AgeInv'
<1>1. /\ OnItsWay(job[p].at, dashNow) /\ Serve(job[p].query, job[p].at)
      /\ mpdCache' = [at |-> job[p].at, set |-> dashNow]
      /\ job' = [job EXCEPT ![p] = None] /\ UNCHANGED dashNow
  BY DEF AgeInv, FetchEnds
<1>2. dashNow - job[p].at < MpdTtl + MaxFetch
  BY <1>1, DashAssumption DEF OnItsWay, AgeInv
<1>3. MpdFreshEnough'
  BY <1>1, <1>2, ServedAge DEF AgeInv
<1> QED BY <1>1, <1>3 DEF AgeInv

LEMMA TickKeeps ==
  ASSUME AgeInv, Tick
  PROVE  AgeInv'
<1>1. dashNow' = dashNow + 1 /\ UNCHANGED <<mpdCache, job, shown>>
  BY DEF Tick
<1>2. \A p \in Player : job[p] # None /\ job[p].at # None => OnItsWay(job[p].at, dashNow')
  BY <1>1, DashAssumption DEF Tick, AgeInv, OnItsWay
<1> QED BY <1>1, <1>2 DEF AgeInv, MpdFreshEnough

LEMMA OthersKeep ==
  ASSUME AgeInv, UNCHANGED <<dashNow, mpdCache, job, shown>>
  PROVE  AgeInv'
BY DEF AgeInv, MpdFreshEnough

(* AgeInv is inductive. *)
THEOREM AgeInvariant == DashSpec => []AgeInv
<1>1. DashInit => AgeInv
  BY DashInitially
<1>2. AgeInv /\ [DashNext]_dashVars => AgeInv'
  <2> SUFFICES ASSUME AgeInv, [DashNext]_dashVars PROVE AgeInv'
    OBVIOUS
  <2>1. ASSUME NEW p \in Player, AskFirst(p) PROVE AgeInv'
    BY <2>1, AskKeeps DEF AskFirst
  <2>2. ASSUME NEW p \in Player, AskLinked(p) PROVE AgeInv'
    BY <2>2, AskKeeps DEF AskLinked
  <2>3. ASSUME NEW p \in Player, Refresh(p) PROVE AgeInv'
    BY <2>3, AskKeeps DEF Refresh
  <2>4. ASSUME NEW p \in Player, UpstreamAnswers(p) PROVE AgeInv'
    BY <2>4, UpstreamAnswersKeeps
  <2>5. ASSUME NEW p \in Player, UpstreamDown(p) PROVE AgeInv'
    BY <2>5, UpstreamDownKeeps
  <2>6. ASSUME NEW p \in Player, FetchEnds(p) PROVE AgeInv'
    BY <2>6, FetchEndsKeeps
  <2>7. ASSUME NEW i \in 1 .. MaxLines, Play(i) PROVE AgeInv'
    BY <2>7, OthersKeep DEF Play
  <2>8. CASE Tick
    BY <2>8, TickKeeps
  <2>9. CASE UNCHANGED dashVars
    BY <2>9, OthersKeep DEF dashVars
  <2> QED BY <2>1, <2>2, <2>3, <2>4, <2>5, <2>6, <2>7, <2>8, <2>9 DEF DashNext
<1> QED BY <1>1, <1>2, PTL DEF DashSpec

(* However requests overtake each other on their way to the cache, a        *)
(* playlist is made of an MPD younger than the time to live and the longest *)
(* answer together.                                                         *)
THEOREM MpdStaysFreshEnough == DashSpec => []MpdFreshEnough
<1>1. AgeInv => MpdFreshEnough
  BY DEF AgeInv
<1> QED BY <1>1, AgeInvariant, PTL

-----------------------------------------------------------------------------
(* Sequences of sequences *)

(* A set of numbers with 0 that goes on from each of its members holds all  *)
(* numbers: the data induction of this module, from the fact that < is      *)
(* well-founded.                                                            *)
LEMMA SetInduction ==
  ASSUME NEW S \in SUBSET Nat, 0 \in S, \A n \in S : n + 1 \in S
  PROVE  S = Nat
<1> DEFINE R == OpToRel(<, Nat)
<1>1. IsWellFoundedOn(R, Nat)
  BY NatLessThanWellFounded
<1>2. \A x, y \in Nat : <<x, y>> \in R <=> x < y
  BY DEF OpToRel
<1> HIDE DEF R
<1>3. SUFFICES ASSUME Nat \ S # {} PROVE FALSE
  OBVIOUS
<1>4. PICK x \in Nat \ S : \A y \in Nat \ S : <<y, x>> \notin R
  BY <1>1, <1>3, WFMin
<1>5. x - 1 \in Nat
  BY <1>4
<1>6. x - 1 \in S
  <2>1. x \in Nat /\ x - 1 < x
    OBVIOUS
  <2>2. <<x - 1, x>> \in R
    BY <1>2, <1>5, <2>1
  <2> QED BY <1>4, <1>5, <2>2
<1> QED BY <1>4, <1>5, <1>6

(* g joins the first n of the sequences, one after the other, the way       *)
(* FlattenSeq does.                                                         *)
Joins(g, seqs, n) == g = [i \in 1 .. n |-> IF i = 1 THEN seqs[i] ELSE g[i-1] \o seqs[i]]

(* Any number of sequences can be joined. *)
LEMMA JoinsExist ==
  ASSUME NEW seqs, NEW n \in Nat
  PROVE  \E g : Joins(g, seqs, n)
<1> DEFINE S == {m \in Nat : \E g : Joins(g, seqs, m)}
<1>1. 0 \in S
  <2>1. Joins([i \in 1 .. 0 |-> 0], seqs, 0)
    BY DEF Joins
  <2> QED BY <2>1
<1>2. ASSUME NEW m \in S PROVE m + 1 \in S
  <2>1. PICK g : Joins(g, seqs, m)
    OBVIOUS
  <2> DEFINE h == [i \in 1 .. m + 1 |-> IF i = m + 1
                                        THEN IF i = 1 THEN seqs[i] ELSE g[m] \o seqs[i] ELSE g[i]]
  <2>2. m \in Nat
    OBVIOUS
  <2>3. \A i \in 1 .. m : h[i] = g[i]
    BY <2>2
  <2>4. \A i \in 1 .. m : g[i] = IF i = 1 THEN seqs[i] ELSE g[i-1] \o seqs[i]
    BY <2>1 DEF Joins
  <2>5. \A i \in 1 .. m + 1 : h[i] = IF i = 1 THEN seqs[i] ELSE h[i-1] \o seqs[i]
    <3> TAKE i \in 1 .. m + 1
    <3>1. CASE i = m + 1
      <4>1. i # 1 => h[i - 1] = g[m]
        BY <2>2, <2>3, <3>1
      <4> QED BY <3>1, <4>1
    <3>2. CASE i # m + 1
      <4>1. i \in 1 .. m /\ (i # 1 => i - 1 \in 1 .. m)
        BY <2>2, <3>2
      <4> QED BY <2>3, <2>4, <4>1
    <3> QED BY <3>1, <3>2
  <2> HIDE DEF h
  <2>6. h = [i \in 1 .. m + 1 |-> h[i]]
    BY DEF h
  <2>7. Joins(h, seqs, m + 1)
    BY <2>5, <2>6 DEF Joins
  <2> QED BY <2>2, <2>7
<1> HIDE DEF S
<1>3. S = Nat
  BY <1>1, <1>2, SetInduction DEF S
<1> QED BY <1>3 DEF S

(* What a join holds at one place. *)
LEMMA JoinsAt ==
  ASSUME NEW seqs, NEW n \in Nat, NEW g, Joins(g, seqs, n), NEW i \in 1 .. n
  PROVE  g[i] = IF i = 1 THEN seqs[i] ELSE g[i-1] \o seqs[i]
BY DEF Joins

(* Two joins of the same sequences agree as far as the shorter one goes. *)
LEMMA JoinsUnique ==
  ASSUME NEW seqs, NEW n \in Nat, NEW m \in Nat, m <= n,
         NEW g, NEW h, Joins(g, seqs, n), Joins(h, seqs, m)
  PROVE  \A i \in 1 .. m : g[i] = h[i]
<1> DEFINE S == {i \in Nat : i \in 1 .. m => g[i] = h[i]}
<1>1. 0 \in S
  OBVIOUS
<1>2. ASSUME NEW i \in S PROVE i + 1 \in S
  <2> SUFFICES ASSUME i + 1 \in 1 .. m PROVE g[i + 1] = h[i + 1]
    OBVIOUS
  <2>1. /\ g[i + 1] = IF i + 1 = 1 THEN seqs[i + 1] ELSE g[i] \o seqs[i + 1]
        /\ h[i + 1] = IF i + 1 = 1 THEN seqs[i + 1] ELSE h[i] \o seqs[i + 1]
    <3>1. i + 1 \in 1 .. n /\ (i + 1) - 1 = i
      OBVIOUS
    <3> QED BY <3>1, JoinsAt
  <2>2. i + 1 # 1 => g[i] = h[i]
    OBVIOUS
  <2> QED BY <2>1, <2>2
<1> HIDE DEF S
<1>3. S = Nat
  BY <1>1, <1>2, SetInduction DEF S
<1> QED BY <1>3 DEF S

(* FlattenSeq, which chooses a function by its recursive equation, is the   *)
(* last of the joins.                                                       *)
LEMMA FlattenIs ==
  ASSUME NEW seqs, NEW g, Len(seqs) \in Nat \ {0}, Joins(g, seqs, Len(seqs))
  PROVE  FlattenSeq(seqs) = g[Len(seqs)]
<1> DEFINE f == CHOOSE f : Joins(f, seqs, Len(seqs))
<1>1. Joins(f, seqs, Len(seqs))
  OBVIOUS
<1>2. FlattenSeq(seqs) = f[Len(seqs)]
  BY DEF FlattenSeq, Joins
<1> HIDE DEF f
<1> QED BY <1>1, <1>2, JoinsUnique

(* FlattenSeq puts what is appended to its argument at the end. *)
LEMMA FlattenAppend ==
  ASSUME NEW U, NEW s \in Seq(Seq(U)), NEW e \in Seq(U), FlattenSeq(s) \in Seq(U)
  PROVE  /\ FlattenSeq(Append(s, e)) = FlattenSeq(s) \o e
         /\ FlattenSeq(Append(s, e)) \in Seq(U)
<1> DEFINE n == Len(s)
           t == Append(s, e)
<1>1. /\ n \in Nat /\ t \in Seq(Seq(U)) /\ Len(t) = n + 1
      /\ t[n + 1] = e /\ \A i \in 1 .. n : t[i] = s[i]
  BY AppendProperties
<1> HIDE DEF t
<1>2. PICK g : Joins(g, t, n + 1)
  <2>1. n + 1 \in Nat
    BY <1>1
  <2> QED BY <2>1, JoinsExist
<1>3. FlattenSeq(t) = g[n + 1]
  BY <1>1, <1>2, FlattenIs
<1>4. g[n + 1] = IF n = 0 THEN e ELSE g[n] \o e
  BY <1>1, <1>2, JoinsAt
<1>5. CASE n = 0
  <2>1. s = <<>> /\ FlattenSeq(s) = <<>>
    BY <1>5 DEF FlattenSeq
  <2> QED BY <1>3, <1>4, <1>5, <2>1 DEF t
<1>6. CASE n # 0
  <2> DEFINE h == [i \in 1 .. n |-> g[i]]
  <2>1. \A i \in 1 .. n : h[i] = IF i = 1 THEN s[i] ELSE h[i-1] \o s[i]
    <3> TAKE i \in 1 .. n
    <3>1. g[i] = IF i = 1 THEN s[i] ELSE g[i-1] \o s[i]
      <4>1. n + 1 \in Nat /\ i \in 1 .. n + 1 /\ t[i] = s[i]
        BY <1>1
      <4> QED BY <1>2, <4>1, JoinsAt
    <3>2. i # 1 => h[i - 1] = g[i - 1]
      BY <1>1
    <3> QED BY <3>1, <3>2
  <2>2. h[n] = g[n]
    BY <1>1, <1>6
  <2>3. h = [i \in 1 .. n |-> h[i]]
    OBVIOUS
  <2> HIDE DEF h
  <2>4. Joins(h, s, n)
    BY <2>1, <2>3 DEF Joins
  <2>5. FlattenSeq(s) = g[n]
    BY <1>1, <1>6, <2>2, <2>4, FlattenIs
  <2> QED BY <1>3, <1>4, <1>6, <2>5 DEF t
<1> QED BY <1>5, <1>6

(* The members of joined sequences are those of the sequences. *)
LEMMA FlattenIn ==
  ASSUME NEW U, NEW s \in Seq(Seq(U))
  PROVE  FlattenSeq(s) \in Seq(U)
<1> DEFINE n == Len(s)
<1>1. n \in Nat /\ \A i \in 1 .. n : s[i] \in Seq(U)
  OBVIOUS
<1>2. CASE n = 0
  <2>1. s = <<>> /\ FlattenSeq(s) = <<>>
    BY <1>2, EmptySeq DEF FlattenSeq
  <2>2. <<>> \in Seq(U)
    BY EmptySeq
  <2> QED BY <2>1, <2>2
<1>3. CASE n # 0
  <2>1. PICK g : Joins(g, s, n)
    BY <1>1, JoinsExist
  <2> DEFINE W == {i \in Nat : i \in 1 .. n => g[i] \in Seq(U)}
  <2>2. 0 \in W
    OBVIOUS
  <2>3. ASSUME NEW i \in W PROVE i + 1 \in W
    <3> SUFFICES ASSUME i + 1 \in 1 .. n PROVE g[i + 1] \in Seq(U)
      OBVIOUS
    <3>1. g[i + 1] = IF i + 1 = 1 THEN s[i + 1] ELSE g[(i + 1) - 1] \o s[i + 1]
      BY <1>1, <2>1, JoinsAt
    <3>2. (i + 1) - 1 = i /\ s[i + 1] \in Seq(U)
      BY <1>1
    <3>3. i + 1 # 1 => g[i] \in Seq(U)
      BY <1>1
    <3> QED BY <3>1, <3>2, <3>3
  <2> HIDE DEF W
  <2>4. W = Nat
    BY <2>2, <2>3, SetInduction DEF W
  <2>5. g[n] \in Seq(U)
    BY <1>1, <1>3, <2>4 DEF W
  <2>6. FlattenSeq(s) = g[n]
    BY <1>1, <1>3, <2>1, FlattenIs
  <2> QED BY <2>5, <2>6
<1> QED BY <1>2, <1>3

-----------------------------------------------------------------------------
(* The places of a sequence and their order *)

(* R is a strict total order of the set. *)
Orders(R, S) ==
  /\ \A i \in S : <<i, i>> \notin R
  /\ \A i, j \in S : i # j => <<i, j>> \in R \/ <<j, i>> \in R
  /\ \A i, j, k \in S : <<i, j>> \in R /\ <<j, k>> \in R => <<i, k>> \in R

(* How many of the set come before a member. *)
Rank(R, S, i) == Cardinality({j \in S : <<j, i>> \in R})

(* Who comes later has more before him, and no one has all. *)
LEMMA RankGrows ==
  ASSUME NEW S, IsFiniteSet(S), NEW R, Orders(R, S)
  PROVE  /\ \A i \in S : Rank(R, S, i) \in 0 .. Cardinality(S) - 1
         /\ \A i, j \in S : <<i, j>> \in R => Rank(R, S, i) < Rank(R, S, j)
<1> DEFINE B(i) == {j \in S : <<j, i>> \in R}
<1>1. ASSUME NEW i \in S PROVE i \notin B(i) /\ B(i) \in SUBSET S
  BY DEF Orders
<1>2. ASSUME NEW i \in S PROVE Rank(R, S, i) \in 0 .. Cardinality(S) - 1
  <2>1. IsFiniteSet(B(i)) /\ Cardinality(B(i)) <= Cardinality(S) /\ Cardinality(S) # Cardinality(B(i))
    BY <1>1, FS_Subset
  <2>2. Cardinality(B(i)) \in Nat /\ Cardinality(S) \in Nat
    BY <2>1, FS_CardinalityType
  <2>3. Rank(R, S, i) = Cardinality(B(i))
    BY DEF Rank
  <2> QED BY <2>1, <2>2, <2>3
<1>3. ASSUME NEW i \in S, NEW j \in S, <<i, j>> \in R PROVE Rank(R, S, i) < Rank(R, S, j)
  <2>1. B(i) \in SUBSET B(j) /\ i \in B(j) /\ i \notin B(i)
    BY <1>1, <1>3 DEF Orders
  <2>2. IsFiniteSet(B(j))
    BY <1>1, FS_Subset
  <2>3. IsFiniteSet(B(i)) /\ Cardinality(B(i)) <= Cardinality(B(j)) /\ Cardinality(B(j)) # Cardinality(B(i))
    BY <2>1, <2>2, FS_Subset
  <2>4. Cardinality(B(i)) \in Nat /\ Cardinality(B(j)) \in Nat
    BY <2>2, <2>3, FS_CardinalityType
  <2>5. Rank(R, S, i) = Cardinality(B(i)) /\ Rank(R, S, j) = Cardinality(B(j))
    BY DEF Rank
  <2> QED BY <2>3, <2>4, <2>5
<1> QED BY <1>2, <1>3

(* For each number below the size there is a member with as many before it. *)
LEMMA RankReached ==
  ASSUME NEW S, IsFiniteSet(S), NEW R, Orders(R, S), NEW k \in 1 .. Cardinality(S)
  PROVE  \E i \in S : Rank(R, S, i) = k - 1
<1> DEFINE n == Cardinality(S)
           f == [i \in S |-> Rank(R, S, i)]
<1>1. n \in Nat
  BY FS_CardinalityType
<1>2. IsFiniteSet(0 .. n - 1) /\ Cardinality(0 .. n - 1) = n
  <2>1. 0 \in Int /\ n - 1 \in Int /\ (0 > n - 1 => n = 0)
    BY <1>1
  <2>2. IsFiniteSet(0 .. n - 1) /\ Cardinality(0 .. n - 1) = IF 0 > n - 1 THEN 0 ELSE (n - 1) - 0 + 1
    BY <2>1, FS_Interval
  <2> QED BY <1>1, <2>1, <2>2
<1>3. f \in [S -> 0 .. n - 1]
  BY RankGrows
<1>4. \A i, j \in S : f[i] = f[j] => i = j
  <2> SUFFICES ASSUME NEW i \in S, NEW j \in S, i # j PROVE f[i] # f[j]
    OBVIOUS
  <2>1. <<i, j>> \in R \/ <<j, i>> \in R
    BY DEF Orders
  <2>2. Rank(R, S, i) < Rank(R, S, j) \/ Rank(R, S, j) < Rank(R, S, i)
    BY <2>1, RankGrows
  <2>3. Rank(R, S, i) \in 0 .. n - 1 /\ Rank(R, S, j) \in 0 .. n - 1
    BY RankGrows
  <2> QED BY <1>1, <2>2, <2>3
<1> HIDE DEF n
<1>5. f \in Injection(S, 0 .. n - 1)
  BY <1>3, <1>4 DEF Injection, IsInjective
<1> HIDE DEF f
<1>6. f \in Surjection(S, 0 .. n - 1)
  BY <1>2, <1>5, FS_Injection DEF n
<1>7. k - 1 \in 0 .. n - 1
  BY <1>1 DEF n
<1>8. PICK i \in S : f[i] = k - 1
  BY <1>6, <1>7 DEF Surjection
<1> QED BY <1>8 DEF f

(* What it means that s is an arrangement of seq's places by R, the k-th being o[k]. *)
Arranges(o, s, seq, S, R) ==
  /\ o \in [1 .. Cardinality(S) -> S]
  /\ s = [k \in 1 .. Cardinality(S) |-> seq[o[k]]]
  /\ \A i \in S : \E k \in 1 .. Cardinality(S) : o[k] = i
  /\ \A k, l \in 1 .. Cardinality(S) : k < l => <<o[k], o[l]>> \in R

(* Arranged puts each place of a finite set once, in the order of the places. *)
LEMMA ArrangedIs ==
  ASSUME NEW seq, NEW S, IsFiniteSet(S), NEW R, Orders(R, S)
  PROVE  \E o : Arranges(o, Arranged(seq, S, R), seq, S, R)
<1> DEFINE n == Cardinality(S)
           o == [k \in 1 .. n |-> CHOOSE i \in S : Rank(R, S, i) = k - 1]
           s == Arranged(seq, S, R)
<1>1. n \in Nat
  BY FS_CardinalityType
<1>2. ASSUME NEW k \in 1 .. n PROVE o[k] \in S /\ Rank(R, S, o[k]) = k - 1
  BY RankReached
<1>3. s = [k \in 1 .. n |-> seq[o[k]]]
  BY DEF Arranged, Rank
<1>4. o = [k \in 1 .. n |-> o[k]]
  OBVIOUS
<1> HIDE DEF o, s
<1>5. o \in [1 .. n -> S]
  BY <1>2, <1>4
<1>6. ASSUME NEW i \in S PROVE \E k \in 1 .. n : o[k] = i
  <2>1. Rank(R, S, i) \in 0 .. n - 1
    BY RankGrows
  <2> DEFINE k == Rank(R, S, i) + 1
  <2>2. k \in 1 .. n /\ k - 1 = Rank(R, S, i)
    BY <1>1, <2>1
  <2>3. o[k] \in S /\ Rank(R, S, o[k]) = Rank(R, S, i)
    BY <1>2, <2>2
  <2> HIDE DEF k
  <2>4. ASSUME o[k] # i PROVE FALSE
    <3>1. <<o[k], i>> \in R \/ <<i, o[k]>> \in R
      BY <2>3, <2>4 DEF Orders
    <3>2. Rank(R, S, o[k]) < Rank(R, S, i) \/ Rank(R, S, i) < Rank(R, S, o[k])
      BY <2>3, <3>1, RankGrows
    <3> QED BY <2>1, <2>3, <3>2
  <2> QED BY <2>2, <2>4
<1>7. ASSUME NEW k \in 1 .. n, NEW l \in 1 .. n, k < l PROVE <<o[k], o[l]>> \in R
  <2>1. o[k] \in S /\ o[l] \in S /\ Rank(R, S, o[k]) = k - 1 /\ Rank(R, S, o[l]) = l - 1
    BY <1>2
  <2>2. Rank(R, S, o[k]) < Rank(R, S, o[l])
    BY <1>1, <1>7, <2>1
  <2>3. o[k] # o[l] /\ ~(Rank(R, S, o[l]) < Rank(R, S, o[k]))
    BY <1>1, <1>7, <2>1, <2>2
  <2> QED BY <2>1, <2>3, RankGrows DEF Orders
<1> QED BY <1>3, <1>5, <1>6, <1>7 DEF Arranges, s

(* The k-th element of Filtered(seq, S) is the element at the k-th place. *)
Picks(o, s, seq, S) ==
  /\ o \in [1 .. Len(s) -> S]
  /\ \A k \in 1 .. Len(s) : s[k] = seq[o[k]]
  /\ \A i \in S : \E k \in 1 .. Len(s) : o[k] = i
  /\ \A k, l \in 1 .. Len(s) : k < l => o[k] < o[l]

(* Filtered keeps the order of a sequence. *)
LEMMA FilteredIs ==
  ASSUME NEW T, NEW seq \in Seq(T), NEW S \in SUBSET (DOMAIN seq)
  PROVE  /\ Filtered(seq, S) \in Seq(T)
         /\ \E o : Picks(o, Filtered(seq, S), seq, S)
<1> DEFINE R == {e \in S \X S : e[1] < e[2]}
           n == Cardinality(S)
           s == Filtered(seq, S)
<1>1. IsFiniteSet(S) /\ n \in Nat /\ S \in SUBSET Nat
  <2>1. DOMAIN seq = 1 .. Len(seq) /\ Len(seq) \in Nat
    OBVIOUS
  <2>2. IsFiniteSet(1 .. Len(seq))
    BY <2>1, FS_Interval
  <2> QED BY <2>1, <2>2, FS_Subset, FS_CardinalityType
<1>2. \A i, j \in S : <<i, j>> \in R <=> i < j
  OBVIOUS
<1>3. Orders(R, S)
  BY <1>1, <1>2 DEF Orders
<1>4. s = Arranged(seq, S, R)
  BY DEF Filtered
<1> HIDE DEF R, s
<1>5. PICK o : Arranges(o, s, seq, S, R)
  BY <1>1, <1>3, <1>4, ArrangedIs
<1> HIDE DEF n
<1>6. /\ o \in [1 .. n -> S] /\ s = [k \in 1 .. n |-> seq[o[k]]]
      /\ \A i \in S : \E k \in 1 .. n : o[k] = i
      /\ \A k, l \in 1 .. n : k < l => <<o[k], o[l]>> \in R
  BY <1>5 DEF Arranges, n
<1>7. \A k \in 1 .. n : seq[o[k]] \in T
  BY <1>6
<1>8. s \in Seq(T) /\ Len(s) = n
  BY <1>1, <1>6, <1>7
<1>9. Picks(o, s, seq, S)
  BY <1>2, <1>6, <1>8 DEF Picks
<1> QED BY <1>8, <1>9 DEF s

(* What a filter keeps. *)
LEMMA FilteredHolds ==
  ASSUME NEW T, NEW seq \in Seq(T), NEW S \in SUBSET (DOMAIN seq)
  PROVE  /\ Filtered(seq, S) \in Seq(T)
         /\ ToSet(Filtered(seq, S)) = {seq[i] : i \in S}
         /\ \A k \in DOMAIN Filtered(seq, S) : \E i \in S : Filtered(seq, S)[k] = seq[i]
<1> DEFINE s == Filtered(seq, S)
<1>1. s \in Seq(T) /\ \E o : Picks(o, s, seq, S)
  BY FilteredIs
<1>2. PICK o : Picks(o, s, seq, S)
  BY <1>1
<1> HIDE DEF s
<1>3. DOMAIN s = 1 .. Len(s) /\ ToSet(s) = {s[k] : k \in 1 .. Len(s)}
  BY <1>1 DEF ToSet
<1>4. /\ \A k \in 1 .. Len(s) : o[k] \in S /\ s[k] = seq[o[k]]
      /\ \A i \in S : \E k \in 1 .. Len(s) : o[k] = i
  BY <1>2 DEF Picks
<1>5. ToSet(s) = {seq[i] : i \in S}
  BY <1>3, <1>4
<1>6. \A k \in DOMAIN s : \E i \in S : s[k] = seq[i]
  BY <1>3, <1>4
<1> QED BY <1>1, <1>5, <1>6 DEF s

(* No later element has a greater field. *)
Descends(s, by) == \A i, j \in DOMAIN s : i < j => s[i][by] >= s[j][by]

(* A sort keeps all elements and puts greater ones first. *)
LEMMA SortDownIs ==
  ASSUME NEW T, NEW seq \in Seq(T), NEW field, \A x \in T : x[field] \in Nat
  PROVE  /\ SortDown(seq, field) \in Seq(T)
         /\ Len(SortDown(seq, field)) = Len(seq)
         /\ ToSet(SortDown(seq, field)) = ToSet(seq)
         /\ Descends(SortDown(seq, field), field)
<1> DEFINE S == DOMAIN seq
           Before(i, j) == \/ seq[i][field] > seq[j][field]
                           \/ seq[i][field] = seq[j][field] /\ i < j
           R == {e \in S \X S : Before(e[1], e[2])}
           s == SortDown(seq, field)
           n == Len(seq)
<1>1. S = 1 .. n /\ n \in Nat /\ IsFiniteSet(S) /\ Cardinality(S) = n
  <2>1. S = 1 .. n /\ n \in Nat
    OBVIOUS
  <2> HIDE DEF n, S
  <2>2. 1 \in Int /\ n \in Int /\ (1 > n => n = 0)
    BY <2>1
  <2>3. IsFiniteSet(1 .. n) /\ Cardinality(1 .. n) = IF 1 > n THEN 0 ELSE n - 1 + 1
    BY <2>2, FS_Interval
  <2> QED BY <2>1, <2>2, <2>3
<1>2. s = Arranged(seq, S, R)
  BY DEF SortDown
<1>3. ASSUME NEW i \in S, NEW j \in S PROVE <<i, j>> \in R <=> Before(i, j)
  OBVIOUS
<1>4. \A i \in S : seq[i] \in T /\ seq[i][field] \in Nat /\ i \in Nat
  OBVIOUS
<1> HIDE DEF R, s, S
<1>5. Orders(R, S)
  <2> HIDE DEF n
  <2>1. \A i \in S : <<i, i>> \notin R
    BY <1>3, <1>4
  <2>2. \A i, j \in S : i # j => <<i, j>> \in R \/ <<j, i>> \in R
    BY <1>3, <1>4
  <2>3. ASSUME NEW i \in S, NEW j \in S, NEW k \in S, <<i, j>> \in R, <<j, k>> \in R
        PROVE  <<i, k>> \in R
    <3> DEFINE a == seq[i][field]
               b == seq[j][field]
               c == seq[k][field]
    <3>1. a \in Nat /\ b \in Nat /\ c \in Nat /\ i \in Nat /\ j \in Nat /\ k \in Nat
      BY <1>4
    <3>2. (a > b \/ (a = b /\ i < j)) /\ (b > c \/ (b = c /\ j < k))
      BY <1>3, <2>3
    <3>3. <<i, k>> \in R <=> a > c \/ (a = c /\ i < k)
      BY <1>3
    <3> HIDE DEF a, b, c
    <3> QED BY <3>1, <3>2, <3>3
  <2> QED BY <2>1, <2>2, <2>3 DEF Orders
<1>6. PICK o : Arranges(o, s, seq, S, R)
  BY <1>1, <1>2, <1>5, ArrangedIs
<1> HIDE DEF n
<1>7. /\ o \in [1 .. n -> S] /\ s = [k \in 1 .. n |-> seq[o[k]]]
      /\ \A i \in S : \E k \in 1 .. n : o[k] = i
      /\ \A k, l \in 1 .. n : k < l => <<o[k], o[l]>> \in R
  BY <1>1, <1>6 DEF Arranges
<1>8. s \in Seq(T) /\ Len(s) = n /\ DOMAIN s = 1 .. n
  <2>1. \A k \in 1 .. n : o[k] \in S /\ seq[o[k]] \in T
    BY <1>4, <1>7
  <2>2. s \in [1 .. n -> T]
    BY <1>7, <2>1
  <2> QED BY <1>1, <2>2
<1>9. ToSet(s) = ToSet(seq)
  <2>1. ToSet(s) = {s[k] : k \in 1 .. n} /\ ToSet(seq) = {seq[i] : i \in S}
    BY <1>8 DEF ToSet, S
  <2> QED BY <1>7, <2>1
<1>10. ASSUME NEW k \in 1 .. n, NEW l \in 1 .. n, k < l PROVE s[k][field] >= s[l][field]
  <2>1. o[k] \in S /\ o[l] \in S /\ <<o[k], o[l]>> \in R /\ s[k] = seq[o[k]] /\ s[l] = seq[o[l]]
    BY <1>7, <1>10
  <2>2. seq[o[k]][field] > seq[o[l]][field] \/ seq[o[k]][field] = seq[o[l]][field]
    BY <1>3, <2>1
  <2> QED BY <1>4, <2>1, <2>2
<1> QED BY <1>8, <1>9, <1>10 DEF s, n, Descends

(* Of the elements that agree on a field the first stays, and in a sorted  *)
(* sequence the first is the greatest.                                     *)
LEMMA DedupIs ==
  ASSUME NEW T, NEW seq \in Seq(T), NEW field
  PROVE  LET d == DedupBy(seq, field) IN
         /\ d \in Seq(T) /\ ToSet(d) \subseteq ToSet(seq)
         /\ \A k, l \in DOMAIN d : d[k][field] = d[l][field] => k = l
         /\ \A i \in DOMAIN seq : \E k \in DOMAIN d : d[k][field] = seq[i][field]
         /\ seq # <<>> => d # <<>> /\ d[1] = seq[1]
         /\ \A by : Descends(seq, by) /\ (\A x \in T : x[by] \in Nat) =>
              /\ Descends(d, by)
              /\ \A k \in DOMAIN d, x \in ToSet(seq) :
                   x[field] = d[k][field] => x[by] <= d[k][by]
<1> DEFINE S == {i \in DOMAIN seq : \A j \in 1 .. i - 1 : seq[j][field] # seq[i][field]}
           d == DedupBy(seq, field)
           n == Len(seq)
<1>1. n \in Nat /\ DOMAIN seq = 1 .. n /\ \A i \in 1 .. n : seq[i] \in T
  OBVIOUS
<1>2. S \in SUBSET (1 .. n) /\ \A i \in S, j \in 1 .. n : j < i => seq[j][field] # seq[i][field]
  BY <1>1
<1>3. d \in Seq(T) /\ (\E o : Picks(o, d, seq, S)) /\ ToSet(d) = {seq[i] : i \in S}
  <2>1. d = Filtered(seq, S) /\ S \in SUBSET (DOMAIN seq)
    BY DEF DedupBy
  <2> HIDE DEF S, d
  <2> QED BY <2>1, FilteredIs, FilteredHolds
<1>4. \A i \in 1 .. n : \E j \in S : j <= i /\ seq[j][field] = seq[i][field]
  <2> DEFINE W == {i \in Nat : \A m \in 1 .. n : m <= i =>
                                 \E j \in S : j <= m /\ seq[j][field] = seq[m][field]}
  <2>1. 0 \in W
    BY <1>1
  <2>2. ASSUME NEW i \in W PROVE i + 1 \in W
    <3> SUFFICES ASSUME NEW m \in 1 .. n, m = i + 1
                 PROVE  \E j \in S : j <= m /\ seq[j][field] = seq[m][field]
      BY <1>1
    <3>1. CASE m \in S
      BY <3>1
    <3>2. CASE m \notin S
      <4>1. PICK j \in 1 .. m - 1 : seq[j][field] = seq[m][field]
        BY <1>1, <3>2
      <4>2. j \in 1 .. n /\ j <= i
        BY <1>1, <4>1
      <4>3. PICK h \in S : h <= j /\ seq[h][field] = seq[j][field]
        BY <4>2
      <4>4. h <= m
        BY <1>1, <1>2, <4>1, <4>3
      <4> QED BY <4>1, <4>3, <4>4
    <3> QED BY <3>1, <3>2
  <2> HIDE DEF W
  <2>3. W = Nat
    BY <2>1, <2>2, SetInduction DEF W
  <2> QED BY <1>1, <2>3 DEF W
<1> HIDE DEF S, d
<1>5. PICK o : Picks(o, d, seq, S)
  BY <1>3
<1>6. DOMAIN d = 1 .. Len(d) /\ Len(d) \in Nat
  BY <1>3
<1>7. \A k \in 1 .. Len(d) : o[k] \in S /\ d[k] = seq[o[k]] /\ o[k] \in 1 .. n
  BY <1>2, <1>5 DEF Picks
<1>8. \A k, l \in 1 .. Len(d) : k < l => o[k] < o[l]
  BY <1>5 DEF Picks
<1>9. \A i \in S : \E k \in 1 .. Len(d) : o[k] = i
  BY <1>5 DEF Picks
<1> HIDE DEF n
<1>10. ToSet(d) \subseteq ToSet(seq)
  BY <1>1, <1>2, <1>3 DEF ToSet
<1>11. ASSUME NEW k \in 1 .. Len(d), NEW l \in 1 .. Len(d), k < l
       PROVE  d[k][field] # d[l][field]
  <2>1. o[k] < o[l]
    BY <1>8, <1>11
  <2> QED BY <1>2, <1>7, <2>1
<1>12. \A k, l \in DOMAIN d : d[k][field] = d[l][field] => k = l
  <2> SUFFICES ASSUME NEW k \in 1 .. Len(d), NEW l \in 1 .. Len(d), d[k][field] = d[l][field]
               PROVE  k = l
    BY <1>6
  <2>1. k < l \/ l < k \/ k = l
    BY <1>6
  <2>2. ~(k < l) /\ ~(l < k)
    BY <1>11
  <2> QED BY <2>1, <2>2
<1>13. \A i \in DOMAIN seq : \E k \in DOMAIN d : d[k][field] = seq[i][field]
  <2> SUFFICES ASSUME NEW i \in 1 .. n PROVE \E k \in 1 .. Len(d) : d[k][field] = seq[i][field]
    BY <1>1, <1>6
  <2>1. PICK j \in S : seq[j][field] = seq[i][field]
    BY <1>4
  <2>2. PICK k \in 1 .. Len(d) : o[k] = j
    BY <1>9
  <2> QED BY <1>7, <2>1, <2>2
<1>14. ASSUME seq # <<>> PROVE d # <<>> /\ d[1] = seq[1]
  <2>1. 1 \in 1 .. n
    BY <1>1, <1>14, EmptySeq DEF n
  <2>2. PICK j \in S : j <= 1
    BY <1>4, <2>1
  <2>3. j = 1
    BY <1>1, <1>2, <2>2
  <2>4. PICK k \in 1 .. Len(d) : o[k] = 1
    BY <1>9, <2>2, <2>3
  <2>5. k = 1
    <3>1. ASSUME 1 < k PROVE FALSE
      <4>1. 1 \in 1 .. Len(d)
        BY <1>6, <3>1
      <4>2. o[1] < o[k] /\ o[1] \in 1 .. n
        BY <1>7, <1>8, <3>1, <4>1
      <4> QED BY <1>1, <2>4, <4>2
    <3> QED BY <1>6, <3>1
  <2> QED BY <1>3, <1>6, <1>7, <2>4, <2>5, EmptySeq
<1>15. ASSUME NEW by, Descends(seq, by), \A x \in T : x[by] \in Nat
       PROVE  /\ Descends(d, by)
              /\ \A k \in DOMAIN d, x \in ToSet(seq) : x[field] = d[k][field] => x[by] <= d[k][by]
  <2>1. \A i, j \in 1 .. n : i < j => seq[i][by] >= seq[j][by]
    BY <1>1, <1>15 DEF Descends
  <2>2. Descends(d, by)
    <3> SUFFICES ASSUME NEW k \in 1 .. Len(d), NEW l \in 1 .. Len(d), k < l
                 PROVE  d[k][by] >= d[l][by]
      BY <1>6 DEF Descends
    <3> QED BY <1>7, <1>8, <2>1
  <2>3. ASSUME NEW k \in 1 .. Len(d), NEW x \in ToSet(seq), x[field] = d[k][field]
        PROVE  x[by] <= d[k][by]
    <3>1. PICK i \in 1 .. n : x = seq[i]
      BY <1>1 DEF ToSet
    <3>2. o[k] \in S /\ o[k] \in 1 .. n /\ d[k] = seq[o[k]]
      BY <1>7
    <3>3. ~(i < o[k])
      BY <1>2, <2>3, <3>1, <3>2
    <3>4. seq[i][by] \in Nat /\ seq[o[k]][by] \in Nat
      BY <1>1, <1>15, <3>2
    <3>5. i = o[k] \/ o[k] < i
      BY <1>1, <3>2, <3>3
    <3>6. i = o[k] \/ seq[o[k]][by] >= seq[i][by]
      BY <2>1, <3>2, <3>5
    <3> QED BY <3>1, <3>2, <3>4, <3>6
  <2> QED BY <1>6, <2>2, <2>3
<1> QED BY <1>3, <1>10, <1>12, <1>13, <1>14, <1>15 DEF d

(* A finite set of numbers has a greatest. *)
LEMMA GreatestIs ==
  ASSUME NEW S \in SUBSET Nat, IsFiniteSet(S), S # {}
  PROVE  Greatest(S) \in S /\ \A y \in S : Greatest(S) >= y
<1> DEFINE R == {e \in S \X S : e[1] > e[2]}
<1>1. \A i, j \in S : <<i, j>> \in R <=> i > j
  OBVIOUS
<1> HIDE DEF R
<1>2. Orders(R, S)
  BY <1>1 DEF Orders
<1>3. Cardinality(S) \in Nat /\ Cardinality(S) # 0
  BY FS_CardinalityType, FS_EmptySet
<1>4. PICK i \in S : Rank(R, S, i) = 0
  <2>1. 1 \in 1 .. Cardinality(S) /\ 1 - 1 = 0
    BY <1>3
  <2> QED BY <1>2, <2>1, RankReached
<1>5. {j \in S : <<j, i>> \in R} = {}
  <2>1. IsFiniteSet({j \in S : <<j, i>> \in R})
    BY FS_Subset
  <2> QED BY <1>4, <2>1, FS_EmptySet DEF Rank
<1>6. ASSUME NEW y \in S PROVE i >= y
  <2>1. <<y, i>> \notin R
    BY <1>5
  <2>2. ~(y > i) /\ y \in Nat /\ i \in Nat
    BY <1>1, <2>1
  <2> QED BY <2>2
<1> QED BY <1>6 DEF Greatest

(* The values of a field in a sequence are finitely many. *)
LEMMA FieldsFinite ==
  ASSUME NEW T, NEW seq \in Seq(T), NEW field
  PROVE  IsFiniteSet({x[field] : x \in ToSet(seq)})
<1> DEFINE n == Len(seq)
           F == {x[field] : x \in ToSet(seq)}
           f == [i \in 1 .. n |-> seq[i][field]]
<1>1. n \in Nat /\ ToSet(seq) = {seq[i] : i \in 1 .. n}
  BY DEF ToSet
<1>2. IsFiniteSet(1 .. n)
  BY <1>1, FS_Interval
<1>3. f \in Surjection(1 .. n, F)
  BY <1>1 DEF Surjection
<1> HIDE DEF f, F, n
<1> QED BY <1>2, <1>3, FS_Surjection DEF F

(* A prefix. *)
LEMMA UptoIs ==
  ASSUME NEW T, NEW seq \in Seq(T), NEW n \in Nat
  PROVE  /\ Upto(seq, n) \in Seq(T) /\ Len(Upto(seq, n)) <= Len(seq) /\ Len(Upto(seq, n)) <= n
         /\ \A i \in DOMAIN Upto(seq, n) : i \in DOMAIN seq /\ Upto(seq, n)[i] = seq[i]
         /\ n # 0 /\ seq # <<>> => 1 \in DOMAIN Upto(seq, n)
<1> DEFINE m == IF n < Len(seq) THEN n ELSE Len(seq)
<1>1. m \in Nat /\ m <= Len(seq) /\ m <= n /\ Len(seq) \in Nat
  OBVIOUS
<1>2. n # 0 /\ seq # <<>> => 1 <= m
  BY EmptySeq
<1>3. Upto(seq, n) = SubSeq(seq, 1, m)
  BY DEF Upto
<1> HIDE DEF m
<1>4. /\ SubSeq(seq, 1, m) \in Seq(T) /\ Len(SubSeq(seq, 1, m)) = m
      /\ \A i \in 1 .. m : SubSeq(seq, 1, m)[i] = seq[i]
  BY <1>1
<1> QED BY <1>1, <1>2, <1>3, <1>4

(* The elements of a sequence are its members. *)
LEMMA MemberIs ==
  ASSUME NEW s, NEW i \in DOMAIN s
  PROVE  s[i] \in ToSet(s)
BY DEF ToSet

-----------------------------------------------------------------------------
(* The variants of a master playlist *)

(* What the profiles of a document have in common. *)
Regulated(T) ==
  /\ \A x \in T : /\ x.bandwidth \in Nat /\ x.height \in Nat
                  /\ x.kind = "audio" => x.height = 0
  /\ \A x, y \in T : x.id = y.id => x.lang = y.lang /\ x.bandwidth = y.bandwidth
  /\ \A x, y \in T : x.kind = "video" /\ y.kind = "video" /\ x.rep = y.rep => x.height = y.height

(* The profiles of a kind. *)
LEMMA OfKindIs ==
  ASSUME NEW T, NEW profiles \in Seq(T), NEW kind
  PROVE  /\ OfKind(profiles, kind) \in Seq({x \in T : x.kind = kind})
         /\ ToSet(OfKind(profiles, kind)) = {x \in ToSet(profiles) : x.kind = kind}
<1> DEFINE S == {i \in DOMAIN profiles : profiles[i].kind = kind}
           s == OfKind(profiles, kind)
<1>1. s = Filtered(profiles, S) /\ S \in SUBSET (DOMAIN profiles)
  BY DEF OfKind
<1> HIDE DEF s
<1>2. s \in Seq(T) /\ ToSet(s) = {profiles[i] : i \in S}
  BY <1>1, FilteredHolds
<1>3. ToSet(profiles) = {profiles[i] : i \in DOMAIN profiles}
  BY DEF ToSet
<1>4. ToSet(s) = {x \in ToSet(profiles) : x.kind = kind}
  BY <1>2, <1>3
<1>5. \A i \in 1 .. Len(s) : s[i] \in T /\ s[i].kind = kind
  <2>1. \A i \in 1 .. Len(s) : s[i] \in ToSet(s) /\ s[i] \in T
    BY <1>2 DEF ToSet
  <2> QED BY <1>4, <2>1
<1> QED BY <1>2, <1>4, <1>5 DEF s

(* A choice by resolution is from the videos and is not empty. *)
LEMMA ChosenIs ==
  ASSUME NEW T, NEW videos \in Seq(T), NEW params, \A x \in T : x.height \in Nat
  PROVE  /\ Chosen(videos, params) \in Seq(T)
         /\ ToSet(Chosen(videos, params)) \subseteq ToSet(videos)
         /\ videos # <<>> => Chosen(videos, params) # <<>>
         /\ params.height = None => Chosen(videos, params) = videos
<1>1. CASE params.height = None
  BY <1>1 DEF Chosen
<1>2. CASE params.height # None
  <2> DEFINE h == params.height
             P == {i \in DOMAIN videos : videos[i].height > 0}
             sized == SortDown(Filtered(videos, P), "height")
             Q == {i \in DOMAIN sized : sized[i].height <= h}
             fits == Filtered(sized, Q)
  <2>1. Chosen(videos, params) = IF sized = <<>> THEN videos
                                 ELSE <<IF fits # <<>> THEN fits[1] ELSE sized[Len(sized)]>>
    BY <1>2 DEF Chosen, ByHeight
  <2>2. Filtered(videos, P) \in Seq(T) /\ ToSet(Filtered(videos, P)) = {videos[i] : i \in P}
    <3>1. P \in SUBSET (DOMAIN videos)
      OBVIOUS
    <3> HIDE DEF P
    <3> QED BY <3>1, FilteredHolds
  <2>3. \A x \in T : x["height"] \in Nat
    OBVIOUS
  <2>4. sized \in Seq(T) /\ ToSet(sized) = {videos[i] : i \in P}
    <3> HIDE DEF P
    <3> QED BY <2>2, <2>3, SortDownIs
  <2> HIDE DEF sized
  <2>5. fits \in Seq(T) /\ ToSet(fits) = {sized[i] : i \in Q}
    <3>1. Q \in SUBSET (DOMAIN sized)
      OBVIOUS
    <3> HIDE DEF Q
    <3> QED BY <2>4, <3>1, FilteredHolds
  <2> HIDE DEF fits
  <2>6. ASSUME sized # <<>>
        PROVE  \E x \in ToSet(videos) : Chosen(videos, params) = <<x>> /\ x \in T
    <3>1. ToSet(sized) \subseteq ToSet(videos)
      BY <2>4 DEF ToSet
    <3>2. sized[Len(sized)] \in ToSet(videos) /\ sized[Len(sized)] \in T
      <4>1. Len(sized) \in 1 .. Len(sized)
        BY <2>4, <2>6, EmptySeq
      <4>2. sized[Len(sized)] \in ToSet(sized) /\ sized[Len(sized)] \in T
        BY <2>4, <4>1 DEF ToSet
      <4> QED BY <3>1, <4>2
    <3>3. ASSUME fits # <<>> PROVE fits[1] \in ToSet(videos) /\ fits[1] \in T
      <4>1. 1 \in DOMAIN fits
        BY <2>5, <3>3, EmptySeq
      <4>2. fits[1] \in ToSet(fits) /\ fits[1] \in T
        BY <2>5, <4>1 DEF ToSet
      <4>3. ToSet(fits) \subseteq ToSet(sized)
        BY <2>5 DEF ToSet
      <4> QED BY <3>1, <4>2, <4>3
    <3> QED BY <2>1, <2>6, <3>2, <3>3
  <2>7. CASE sized = <<>>
    BY <1>2, <2>1, <2>7
  <2>8. CASE sized # <<>>
    <3>1. PICK x \in ToSet(videos) : Chosen(videos, params) = <<x>> /\ x \in T
      BY <2>6, <2>8
    <3>2. <<x>> \in Seq(T) /\ <<x>> # <<>> /\ ToSet(<<x>>) = {x}
      BY <3>1 DEF ToSet
    <3> QED BY <1>2, <3>1, <3>2
  <2> QED BY <2>7, <2>8
<1> QED BY <1>1, <1>2

(* A remux is offered all videos of the greatest height, and no others. *)
LEMMA HighestIs ==
  ASSUME NEW T, NEW videos \in Seq(T), NEW params, \A x \in T : x.height \in Nat
  PROVE  /\ Highest(videos, params) \in Seq(T)
         /\ ToSet(Highest(videos, params)) \subseteq ToSet(videos)
         /\ videos # <<>> => Highest(videos, params) # <<>>
         /\ ~params.ts => Highest(videos, params) = videos
         /\ params.ts => \A x \in ToSet(Highest(videos, params)), y \in ToSet(videos) :
              /\ y.height <= x.height
              /\ y.height = x.height => y \in ToSet(Highest(videos, params))
<1>1. CASE ~params.ts
  BY <1>1 DEF Highest
<1>2. CASE params.ts
  <2> DEFINE F == {p["height"] : p \in ToSet(videos)}
             H == F \cup {0}
             top == Greatest(H)
             P == {i \in DOMAIN videos : videos[i].height >= top}
             s == Filtered(videos, P)
  <2>1. Highest(videos, params) = s
    BY <1>2 DEF Highest
  <2>2. \A x \in ToSet(videos) : x \in T
    BY DEF ToSet
  <2>3. H \in SUBSET Nat /\ H # {} /\ IsFiniteSet(H)
    <3>1. IsFiniteSet(F)
      BY FieldsFinite
    <3>2. F \in SUBSET Nat
      BY <2>2
    <3> HIDE DEF F
    <3>3. IsFiniteSet(F \cup {0})
      BY <3>1, FS_AddElement
    <3> QED BY <3>2, <3>3
  <2>4. top \in H /\ \A y \in H : top >= y
    <3> HIDE DEF H
    <3> QED BY <2>3, GreatestIs
  <2>5. \A y \in ToSet(videos) : y.height \in H
    OBVIOUS
  <2> HIDE DEF H, top
  <2>6. P \in SUBSET (DOMAIN videos)
    OBVIOUS
  <2>7. s \in Seq(T) /\ ToSet(s) = {videos[i] : i \in P}
    <3> HIDE DEF P
    <3> QED BY <2>6, FilteredHolds
  <2> HIDE DEF s
  <2>8. ToSet(s) = {x \in ToSet(videos) : x.height >= top}
    BY <2>7 DEF ToSet
  <2>9. ASSUME videos # <<>> PROVE s # <<>>
    <3>1. videos[1] \in ToSet(videos)
      BY <2>9, EmptySeq DEF ToSet
    <3>2. \E x \in ToSet(videos) : x.height >= top
      <4>1. CASE top = 0
        BY <2>2, <3>1, <4>1
      <4>2. CASE top # 0
        <5>1. PICK x \in ToSet(videos) : top = x["height"]
          BY <2>4, <4>2 DEF H
        <5> QED BY <2>2, <5>1
      <4> QED BY <4>1, <4>2
    <3> QED BY <2>8, <3>2 DEF ToSet
  <2>10. \A x \in ToSet(s), y \in ToSet(videos) :
           y.height <= x.height /\ (y.height = x.height => y \in ToSet(s))
    <3> SUFFICES ASSUME NEW x \in ToSet(s), NEW y \in ToSet(videos)
                 PROVE  y.height <= x.height /\ (y.height = x.height => y \in ToSet(s))
      OBVIOUS
    <3>1. x.height \in Nat /\ y.height \in Nat /\ top \in Nat /\ x.height >= top /\ top >= y.height
      BY <2>2, <2>3, <2>4, <2>5, <2>8
    <3> QED BY <2>8, <3>1
  <2> QED BY <1>2, <2>1, <2>7, <2>8, <2>9, <2>10
<1> QED BY <1>1, <1>2

(* From a sequence sorted by bit rate the ladder takes each height once, and *)
(* no element of that height is better.                                      *)
LEMMA LadderIs ==
  ASSUME NEW T, NEW d \in Seq(T), NEW params, MaxVideo \in Nat \ {0},
         \A x \in T : x.bandwidth \in Nat, Descends(d, "bandwidth")
  PROVE  LET s == Ladder(d, params) IN
         /\ s \in Seq(T) /\ ToSet(s) \subseteq ToSet(d)
         /\ d # <<>> => s # <<>>
         /\ \A i, k \in DOMAIN s : s[i].height = s[k].height => i = k
         /\ \A x \in ToSet(s), y \in ToSet(d) :
              x.height = y.height => y.bandwidth <= x.bandwidth
<1> DEFINE s == Ladder(d, params)
<1>1. \A x \in T : x["bandwidth"] \in Nat
  OBVIOUS
<1>2. CASE params.height # None \/ params.ts
  <2>1. s = Upto(d, 1)
    BY <1>2 DEF Ladder
  <2> HIDE DEF s
  <2>2. /\ s \in Seq(T) /\ Len(s) <= 1
        /\ \A i \in DOMAIN s : i \in DOMAIN d /\ s[i] = d[i]
        /\ d # <<>> => 1 \in DOMAIN s
    <3>1. 1 \in Nat /\ 1 # 0
      OBVIOUS
    <3> QED BY <2>1, <3>1, UptoIs
  <2>3. ToSet(s) \subseteq ToSet(d)
    BY <2>2 DEF ToSet
  <2>4. \A i \in DOMAIN s : i = 1
    BY <2>2
  <2>5. ASSUME NEW x \in ToSet(s), NEW y \in ToSet(d) PROVE y.bandwidth <= x.bandwidth
    <3>1. x = d[1] /\ 1 \in DOMAIN d
      BY <2>2, <2>4 DEF ToSet
    <3>2. PICK i \in DOMAIN d : y = d[i]
      BY DEF ToSet
    <3>3. i = 1 \/ 1 < i
      OBVIOUS
    <3>4. d[i] \in T /\ d[1] \in T
      BY <3>1
    <3>5. d[i].bandwidth \in Nat /\ d[1].bandwidth \in Nat
      BY <3>4
    <3>6. 1 < i => d[1]["bandwidth"] >= d[i]["bandwidth"]
      BY <3>1 DEF Descends
    <3> QED BY <3>1, <3>2, <3>3, <3>5, <3>6
  <2>6. d # <<>> => s # <<>>
    BY <2>2
  <2> QED BY <2>2, <2>3, <2>4, <2>5, <2>6 DEF s
<1>3. CASE ~(params.height # None \/ params.ts)
  <2> DEFINE e == DedupBy(d, "height")
  <2>1. s = Upto(e, MaxVideo)
    BY <1>3 DEF Ladder
  <2>2. /\ e \in Seq(T) /\ ToSet(e) \subseteq ToSet(d)
        /\ \A k, l \in DOMAIN e : e[k]["height"] = e[l]["height"] => k = l
        /\ d # <<>> => e # <<>>
        /\ \A k \in DOMAIN e, x \in ToSet(d) :
             x["height"] = e[k]["height"] => x["bandwidth"] <= e[k]["bandwidth"]
    BY <1>1, DedupIs
  <2> HIDE DEF e, s
  <2>3. /\ s \in Seq(T) /\ \A i \in DOMAIN s : i \in DOMAIN e /\ s[i] = e[i]
        /\ e # <<>> => 1 \in DOMAIN s
    BY <2>1, <2>2, UptoIs
  <2>4. ToSet(s) \subseteq ToSet(e)
    BY <2>3 DEF ToSet
  <2>5. \A i, k \in DOMAIN s : s[i].height = s[k].height => i = k
    BY <2>2, <2>3
  <2>6. ASSUME NEW x \in ToSet(s), NEW y \in ToSet(d), x.height = y.height
        PROVE  y.bandwidth <= x.bandwidth
    <3>1. PICK k \in DOMAIN s : x = s[k]
      BY DEF ToSet
    <3>2. k \in DOMAIN e /\ x = e[k]
      BY <2>3, <3>1
    <3> QED BY <2>2, <2>6, <3>2
  <2>7. d # <<>> => s # <<>>
    BY <2>2, <2>3
  <2> QED BY <2>2, <2>3, <2>4, <2>5, <2>6, <2>7 DEF s
<1> QED BY <1>2, <1>3

(* A sequence is empty exactly if it has no members. *)
LEMMA NotEmpty ==
  ASSUME NEW T, NEW s \in Seq(T)
  PROVE  s # <<>> <=> ToSet(s) # {}
BY EmptySeq DEF ToSet

(* The variants of a master playlist are the best of their heights. *)
LEMMA VideosPlayable ==
  ASSUME NEW T, Regulated(T), NEW profiles \in Seq(T), NEW params, MaxVideo \in Nat \ {0}
  PROVE  LET s == MasterVideos(profiles, params) IN
         /\ s \in Seq(T)
         /\ \A i, k \in DOMAIN s : s[i].height = s[k].height => i = k
         /\ {q \in ToSet(profiles) : q.kind = "video"} # {} => s # <<>>
         /\ ToSet(s) \subseteq ToSet(profiles)
         /\ params.height = None =>
              \A x \in ToSet(s), q \in ToSet(profiles) :
                /\ q.kind = "video" /\ q.height = x.height => q.bandwidth <= x.bandwidth
                /\ params.ts /\ q.kind \in {"video", "audio"} => q.height <= x.height
<1> DEFINE V == {x \in T : x.kind = "video"}
           videos == OfKind(profiles, "video")
           chosen == Chosen(videos, params)
           highest == Highest(chosen, params)
           sorted == SortDown(highest, "bandwidth")
           d == DedupBy(sorted, "rep")
           s == MasterVideos(profiles, params)
<1>1. s = Ladder(d, params)
  BY DEF MasterVideos
<1> HIDE DEF s
<1>2. /\ \A x \in V : x.height \in Nat /\ x.bandwidth \in Nat /\ x["bandwidth"] \in Nat
      /\ \A x, y \in V : x.rep = y.rep => x.height = y.height
      /\ V \subseteq T
  BY DEF Regulated
<1>3. videos \in Seq(V) /\ ToSet(videos) = {q \in ToSet(profiles) : q.kind = "video"}
  BY OfKindIs
<1> HIDE DEF videos, V
<1>4. /\ chosen \in Seq(V) /\ ToSet(chosen) \subseteq ToSet(videos)
      /\ videos # <<>> => chosen # <<>>
      /\ params.height = None => chosen = videos
  BY <1>2, <1>3, ChosenIs
<1> HIDE DEF chosen
<1>5. /\ highest \in Seq(V) /\ ToSet(highest) \subseteq ToSet(chosen)
      /\ chosen # <<>> => highest # <<>>
      /\ ~params.ts => highest = chosen
      /\ params.ts => \A x \in ToSet(highest), y \in ToSet(chosen) :
              /\ y.height <= x.height
              /\ y.height = x.height => y \in ToSet(highest)
  BY <1>2, <1>4, HighestIs
<1> HIDE DEF highest
<1>6. sorted \in Seq(V) /\ ToSet(sorted) = ToSet(highest) /\ Descends(sorted, "bandwidth")
  BY <1>2, <1>5, SortDownIs
<1> HIDE DEF sorted
<1>7. /\ d \in Seq(V) /\ ToSet(d) \subseteq ToSet(sorted) /\ Descends(d, "bandwidth")
      /\ \A i \in DOMAIN sorted : \E k \in DOMAIN d : d[k]["rep"] = sorted[i]["rep"]
      /\ sorted # <<>> => d # <<>>
      /\ \A k \in DOMAIN d, x \in ToSet(sorted) :
           x["rep"] = d[k]["rep"] => x["bandwidth"] <= d[k]["bandwidth"]
  <2>1. /\ d \in Seq(V) /\ ToSet(d) \subseteq ToSet(sorted)
        /\ \A i \in DOMAIN sorted : \E k \in DOMAIN d : d[k]["rep"] = sorted[i]["rep"]
        /\ sorted # <<>> => d # <<>>
    BY <1>6, DedupIs
  <2>2. \A x \in V : x["bandwidth"] \in Nat
    BY <1>2
  <2>3. \A by : Descends(sorted, by) /\ (\A x \in V : x[by] \in Nat) =>
          /\ Descends(d, by)
          /\ \A k \in DOMAIN d, x \in ToSet(sorted) :
               x["rep"] = d[k]["rep"] => x[by] <= d[k][by]
    BY <1>6, DedupIs
  <2> HIDE DEF d
  <2> QED BY <1>6, <2>1, <2>2, <2>3
<1> HIDE DEF d
<1>8. /\ s \in Seq(V) /\ ToSet(s) \subseteq ToSet(d)
      /\ d # <<>> => s # <<>>
      /\ \A i, k \in DOMAIN s : s[i].height = s[k].height => i = k
      /\ \A x \in ToSet(s), y \in ToSet(d) : x.height = y.height => y.bandwidth <= x.bandwidth
  BY <1>1, <1>2, <1>7, LadderIs
<1>9. s \in Seq(T) /\ ToSet(s) \subseteq ToSet(profiles)
  BY <1>2, <1>3, <1>4, <1>5, <1>6, <1>7, <1>8, SeqMonotonic
<1>10. ASSUME {q \in ToSet(profiles) : q.kind = "video"} # {} PROVE s # <<>>
  <2>1. videos # <<>>
    BY <1>3, <1>10, NotEmpty
  <2>2. highest # <<>>
    BY <1>4, <1>5, <2>1
  <2>3. sorted # <<>>
    BY <1>5, <1>6, <2>2, NotEmpty
  <2> QED BY <1>7, <1>8, <2>3
<1>11. ASSUME params.height = None, NEW x \in ToSet(s), NEW q \in ToSet(profiles)
       PROVE  /\ q.kind = "video" /\ q.height = x.height => q.bandwidth <= x.bandwidth
              /\ params.ts /\ q.kind \in {"video", "audio"} => q.height <= x.height
  <2>1. x \in ToSet(highest) /\ x \in V
    <3>1. \A y \in ToSet(s) : y \in V
      BY <1>8 DEF ToSet
    <3> QED BY <1>6, <1>7, <1>8, <3>1
  <2>2. chosen = videos
    BY <1>4, <1>11
  <2>3. ASSUME q.kind = "video", q.height = x.height PROVE q.bandwidth <= x.bandwidth
    <3>1. q \in ToSet(highest)
      <4>1. q \in ToSet(chosen)
        BY <1>3, <2>2, <2>3
      <4> QED BY <1>5, <2>1, <2>3, <4>1
    <3>2. PICK i \in DOMAIN sorted : q = sorted[i]
      BY <1>6, <3>1 DEF ToSet
    <3>3. PICK k \in DOMAIN d : d[k].rep = q.rep
      BY <1>7, <3>2
    <3>4. q \in V /\ d[k] \in V /\ d[k] \in ToSet(d) /\ q \in ToSet(sorted)
      BY <1>6, <1>7, <3>1, <3>2 DEF ToSet
    <3>5. q.bandwidth <= d[k].bandwidth
      BY <1>7, <3>3, <3>4
    <3>6. d[k].height = x.height
      BY <1>2, <2>3, <3>3, <3>4
    <3>7. d[k].bandwidth <= x.bandwidth
      BY <1>8, <3>4, <3>6
    <3>8. q.bandwidth \in Nat /\ d[k].bandwidth \in Nat /\ x.bandwidth \in Nat
      BY <1>2, <2>1, <3>4
    <3> QED BY <3>5, <3>7, <3>8
  <2>4. ASSUME params.ts, q.kind = "video" PROVE q.height <= x.height
    <3>1. q \in ToSet(chosen)
      BY <1>3, <2>2, <2>4
    <3> QED BY <1>5, <2>1, <2>4, <3>1
  <2>5. ASSUME q.kind = "audio" PROVE q.height <= x.height
    <3>1. q \in T /\ q.height = 0 /\ x.height \in Nat
      BY <1>2, <2>1, <2>5 DEF ToSet, Regulated
    <3> QED BY <3>1
  <2> QED BY <2>3, <2>4, <2>5
<1> QED BY <1>8, <1>9, <1>10, <1>11 DEF s

-----------------------------------------------------------------------------
(* Its audio tracks *)

(* The default track is one of the tracks, English if there is one. *)
LEMMA DefaultAudioIs ==
  ASSUME NEW T, NEW audios \in Seq(T), audios # <<>>, \A x \in T : x.bandwidth \in Nat
  PROVE  \E p \in ToSet(audios) :
           /\ DefaultAudio(audios) = p.id
           /\ (\E q \in ToSet(audios) : q.lang = "en") => p.lang = "en"
<1> DEFINE E == {i \in DOMAIN audios : audios[i].lang = "en"}
           english == Filtered(audios, E)
           among == IF english # <<>> THEN english ELSE audios
           H == {p["bandwidth"] : p \in ToSet(among)}
           best == Greatest(H)
           I == {i \in DOMAIN among : among[i].bandwidth = best}
<1>1. DefaultAudio(audios) = IF among = <<>> THEN None ELSE among[Greatest(I)].id
  BY DEF DefaultAudio
<1>2. english \in Seq(T) /\ ToSet(english) = {audios[i] : i \in E}
  <2>1. E \in SUBSET (DOMAIN audios)
    OBVIOUS
  <2> HIDE DEF E
  <2> QED BY <2>1, FilteredHolds
<1>3. ToSet(english) = {x \in ToSet(audios) : x.lang = "en"}
  BY <1>2 DEF ToSet
<1>4. english # <<>> <=> \E q \in ToSet(audios) : q.lang = "en"
  <2> HIDE DEF english
  <2> QED BY <1>2, <1>3, NotEmpty
<1> HIDE DEF english
<1>5. among \in Seq(T) /\ among # <<>> /\ ToSet(among) \subseteq ToSet(audios)
  BY <1>2, <1>3
<1>6. (\E q \in ToSet(audios) : q.lang = "en") => \A p \in ToSet(among) : p.lang = "en"
  BY <1>3, <1>4
<1> HIDE DEF among
<1>7. \A x \in ToSet(among) : x \in T
  BY <1>5 DEF ToSet
<1>8. H \in SUBSET Nat /\ H # {} /\ IsFiniteSet(H)
  <2>1. IsFiniteSet(H)
    BY <1>5, FieldsFinite
  <2>2. H \in SUBSET Nat
    BY <1>7
  <2>3. ToSet(among) # {}
    BY <1>5, NotEmpty
  <2> QED BY <2>1, <2>2, <2>3
<1>9. best \in H
  <2> HIDE DEF H
  <2> QED BY <1>8, GreatestIs
<1>10. I \in SUBSET Nat /\ I # {} /\ IsFiniteSet(I)
  <2>1. DOMAIN among = 1 .. Len(among) /\ Len(among) \in Nat
    BY <1>5
  <2>2. PICK p \in ToSet(among) : p["bandwidth"] = best
    BY <1>9
  <2>3. PICK i \in DOMAIN among : among[i] = p
    BY <2>2 DEF ToSet
  <2>4. IsFiniteSet(1 .. Len(among))
    BY <2>1, FS_Interval
  <2> HIDE DEF best
  <2>5. I \in SUBSET (1 .. Len(among)) /\ i \in I
    BY <2>1, <2>2, <2>3
  <2> QED BY <2>1, <2>4, <2>5, FS_Subset
<1>11. Greatest(I) \in I
  <2> HIDE DEF I
  <2> QED BY <1>10, GreatestIs
<1>12. Greatest(I) \in DOMAIN among
  BY <1>11
<1> HIDE DEF I
<1>13. among[Greatest(I)] \in ToSet(among)
  BY <1>12, MemberIs
<1> QED BY <1>1, <1>5, <1>6, <1>13

(* Each track stands for one of these profiles, and the flag is on the one *)
(* track of the default profile.                                           *)
Tracks(a, profiles, default) ==
  /\ \A i \in DOMAIN a : \E q \in ToSet(profiles) : q.id = a[i].id
  /\ \A i \in DOMAIN a : a[i].default <=> a[i].id = default
  /\ Cardinality({i \in DOMAIN a : a[i].default}) = 1

(* The default track comes first, and so is the one of its language that   *)
(* stays.                                                                  *)
LEMMA AudioTracksIs ==
  ASSUME NEW T, Regulated(T), NEW sorted \in Seq(T), NEW default,
         MaxAudio \in Nat \ {0}, NEW p \in ToSet(sorted), p.id = default
  PROVE  Tracks(AudioTracks(sorted, default), sorted, default)
<1> DEFINE F == {i \in DOMAIN sorted : sorted[i].id = default}
           O == {i \in DOMAIN sorted : sorted[i].id # default}
           first == Filtered(sorted, F)
           others == Filtered(sorted, O)
           all == first \o others
           e == DedupBy(all, "lang")
           d == Upto(e, MaxAudio)
           a == AudioTracks(sorted, default)
<1>1. a = [i \in DOMAIN d |-> [id |-> d[i].id, default |-> d[i].id = default]]
  BY DEF AudioTracks
<1> HIDE DEF a
<1>2. /\ first \in Seq(T) /\ ToSet(first) = {sorted[i] : i \in F}
      /\ others \in Seq(T) /\ ToSet(others) = {sorted[i] : i \in O}
  <2>1. F \in SUBSET (DOMAIN sorted) /\ O \in SUBSET (DOMAIN sorted)
    OBVIOUS
  <2> HIDE DEF F, O
  <2> QED BY <2>1, FilteredHolds
<1>3. first # <<>>
  <2>1. p \in ToSet(first)
    BY <1>2 DEF ToSet
  <2> QED BY <1>2, <2>1, NotEmpty
<1>4. \A i \in DOMAIN first : first[i].id = default
  BY <1>2, MemberIs
<1> HIDE DEF first, others
<1>5. all \in Seq(T) /\ all # <<>> /\ all[1] = first[1] /\ ToSet(all) \subseteq ToSet(sorted)
  <2>1. /\ all \in Seq(T) /\ Len(all) = Len(first) + Len(others)
        /\ \A i \in 1 .. Len(all) : all[i] = IF i <= Len(first) THEN first[i]
                                             ELSE others[i - Len(first)]
    BY <1>2
  <2>2. Len(first) \in Nat /\ Len(others) \in Nat /\ Len(first) # 0
    BY <1>2, <1>3, EmptySeq
  <2> HIDE DEF all
  <2>3. 1 \in 1 .. Len(all) /\ 1 <= Len(first)
    BY <2>1, <2>2
  <2>4. \A i \in 1 .. Len(all) : all[i] \in ToSet(first) \cup ToSet(others)
    <3> SUFFICES ASSUME NEW i \in 1 .. Len(all) PROVE all[i] \in ToSet(first) \cup ToSet(others)
      OBVIOUS
    <3>1. CASE i <= Len(first)
      <4>1. i \in DOMAIN first
        BY <1>2, <2>2, <3>1
      <4> QED BY <2>1, <3>1, <4>1, MemberIs
    <3>2. CASE ~(i <= Len(first))
      <4>1. i - Len(first) \in DOMAIN others
        BY <1>2, <2>1, <2>2, <3>2
      <4> QED BY <2>1, <3>2, <4>1, MemberIs
    <3> QED BY <3>1, <3>2
  <2>5. ToSet(all) \subseteq ToSet(first) \cup ToSet(others)
    BY <2>1, <2>4 DEF ToSet
  <2>6. ToSet(first) \subseteq ToSet(sorted) /\ ToSet(others) \subseteq ToSet(sorted)
    BY <1>2 DEF ToSet
  <2> QED BY <2>1, <2>3, <2>5, <2>6, EmptySeq
<1> HIDE DEF all
<1>6. /\ e \in Seq(T) /\ ToSet(e) \subseteq ToSet(all) /\ e # <<>> /\ e[1] = first[1]
      /\ \A k, l \in DOMAIN e : e[k]["lang"] = e[l]["lang"] => k = l
  BY <1>5, DedupIs
<1> HIDE DEF e
<1>7. /\ d \in Seq(T) /\ 1 \in DOMAIN d
      /\ \A i \in DOMAIN d : i \in DOMAIN e /\ d[i] = e[i]
  BY <1>6, UptoIs
<1> HIDE DEF d
<1>8. \A i \in DOMAIN d : d[i] \in ToSet(sorted) /\ d[i] \in T
  <2>1. \A i \in DOMAIN d : d[i] \in ToSet(e) /\ d[i] \in T
    BY <1>6, <1>7, MemberIs
  <2> QED BY <1>5, <1>6, <2>1
<1>9. d[1].id = default
  <2>1. 1 \in DOMAIN first
    BY <1>2, <1>3, EmptySeq
  <2> QED BY <1>4, <1>6, <1>7, <2>1
<1>10. \A i \in DOMAIN d : d[i].id = default => i = 1
  <2> SUFFICES ASSUME NEW i \in DOMAIN d, d[i].id = default PROVE i = 1
    OBVIOUS
  <2>1. d[i].lang = d[1].lang
    BY <1>7, <1>8, <1>9 DEF Regulated
  <2> QED BY <1>6, <1>7, <2>1
<1>11. DOMAIN a = DOMAIN d /\ DOMAIN d = 1 .. Len(d) /\ Len(d) \in Nat
  BY <1>1, <1>7
<1>12. \A i \in DOMAIN d : a[i] = [id |-> d[i].id, default |-> d[i].id = default]
  BY <1>1
<1>13. ASSUME NEW i \in DOMAIN d
       PROVE  a[i].default = (d[i].id = default) /\ a[i].id = d[i].id
  <2> DEFINE flag == d[i].id = default
  <2>1. a[i] = [id |-> d[i].id, default |-> flag]
    BY <1>12
  <2> HIDE DEF flag
  <2>2. a[i].default = flag /\ a[i].id = d[i].id
    BY <2>1
  <2> QED BY <2>2 DEF flag
<1>14. \A i \in DOMAIN a : a[i].default <=> d[i].id = default
  BY <1>11, <1>13, Zenon
<1>15. {i \in DOMAIN a : a[i].default} = {1}
  <2>1. \A i \in DOMAIN a : a[i].default <=> i = 1
    BY <1>7, <1>9, <1>10, <1>11, <1>14, Zenon
  <2> QED BY <1>7, <1>11, <2>1, Zenon
<1>16. Cardinality({i \in DOMAIN a : a[i].default}) = 1
  BY <1>15, FS_Singleton
<1>17. \A i \in DOMAIN a : \E q \in ToSet(sorted) : q.id = a[i].id
  BY <1>8, <1>11, <1>13
<1>18. \A i \in DOMAIN a : a[i].default <=> a[i].id = default
  <2>1. ASSUME NEW i \in DOMAIN a PROVE a[i].default <=> a[i].id = default
    <3>1. a[i].id = d[i].id
      BY <1>11, <1>13
    <3>2. a[i].default <=> d[i].id = default
      BY <1>14
    <3> QED BY <3>1, <3>2, Zenon
  <2> QED BY <2>1, Zenon
<1>19. Tracks(a, sorted, default)
  BY <1>16, <1>17, <1>18, Zenon DEF Tracks
<1> QED BY <1>19 DEF a

-----------------------------------------------------------------------------
(* Master playlists *)

(* What the handlers take from a representation, of any document. *)
ProfilesOf(doc, wanted, now) ==
  UNION {{Profile(doc, period, rep, wanted, now) :
            rep \in {r \in ToSet(period.reps) : r.kind \in {"video", "audio"}}} :
         period \in ToSet(doc.periods)}

(* ParseMpd makes a sequence of those profiles. *)
LEMMA ParsedIn ==
  ASSUME NEW doc, NEW wanted, NEW now, doc.periods \in Seq(ToSet(doc.periods)),
         \A period \in ToSet(doc.periods) : period.reps \in Seq(ToSet(period.reps))
  PROVE  ParseMpd(doc, wanted, now) \in Seq(ProfilesOf(doc, wanted, now))
<1> DEFINE U == ProfilesOf(doc, wanted, now)
           periods == doc.periods
           Kept(period) == {i \in DOMAIN period.reps : period.reps[i].kind \in {"video", "audio"}}
           Played(period) == Filtered(period.reps, Kept(period))
           Out(period) == [i \in DOMAIN Played(period) |->
                             Profile(doc, period, Played(period)[i], wanted, now)]
           s == [p \in DOMAIN periods |-> Out(periods[p])]
<1>1. ParseMpd(doc, wanted, now) = FlattenSeq(s)
  BY DEF ParseMpd
<1>2. ASSUME NEW period \in ToSet(periods) PROVE Out(period) \in Seq(U)
  <2> DEFINE R == ToSet(period.reps)
             played == Played(period)
  <2>1. period.reps \in Seq(R)
    OBVIOUS
  <2>2. Kept(period) \in SUBSET (DOMAIN period.reps)
    OBVIOUS
  <2>3. /\ played \in Seq(R)
        /\ \A k \in DOMAIN played : \E i \in Kept(period) : played[k] = period.reps[i]
    <3> HIDE DEF Kept, R
    <3> QED BY <2>1, <2>2, FilteredHolds
  <2>4. Out(period) = [i \in DOMAIN played |-> Profile(doc, period, played[i], wanted, now)]
    OBVIOUS
  <2> HIDE DEF played
  <2>5. ASSUME NEW k \in DOMAIN played PROVE Profile(doc, period, played[k], wanted, now) \in U
    <3>1. PICK i \in Kept(period) : played[k] = period.reps[i]
      BY <2>3
    <3>2. played[k] \in {r \in ToSet(period.reps) : r.kind \in {"video", "audio"}}
      BY <3>1, MemberIs
    <3> QED BY <3>2 DEF ProfilesOf
  <2> HIDE DEF U
  <2>6. DOMAIN played = 1 .. Len(played) /\ Len(played) \in Nat
    BY <2>3
  <2> DEFINE o == [i \in DOMAIN played |-> Profile(doc, period, played[i], wanted, now)]
  <2>7. o \in [1 .. Len(played) -> U]
    BY <2>5, <2>6
  <2>8. Out(period) = o
    BY <2>4
  <2> HIDE DEF o, Out
  <2>9. o \in Seq(U)
    BY <2>6, <2>7
  <2> QED BY <2>8, <2>9
<1> HIDE DEF U, Out
<1>3. s \in Seq(Seq(U))
  <2>1. DOMAIN periods = 1 .. Len(periods) /\ Len(periods) \in Nat
    OBVIOUS
  <2>2. \A p \in DOMAIN periods : Out(periods[p]) \in Seq(U)
    BY <1>2, MemberIs
  <2> QED BY <2>1, <2>2
<1> HIDE DEF s
<1> QED BY <1>1, <1>3, FlattenIn DEF U

(* What DashDocuments says of representations holds for profiles. *)
LEMMA ProfilesRegulated ==
  ASSUME NEW c \in Channel, NEW t \in 0 .. MaxTime, NEW now
  PROVE  /\ Regulated(ProfilesOf(Publish(c, t), None, now))
         /\ \A q \in ProfilesOf(Publish(c, t), None, now) : q.kind \in {"video", "audio"}
<1> DEFINE doc == Publish(c, t)
           U == ProfilesOf(doc, None, now)
<1>1. ASSUME NEW q \in U
      PROVE  \E r \in Reps(doc) :
               /\ r.kind \in {"video", "audio"}
               /\ q.id = <<r.adapt, r.rep, r.bandwidth>> /\ q.rep = r.rep /\ q.kind = r.kind
               /\ q.bandwidth = r.bandwidth /\ q.lang = r.lang /\ q.height = r.height
  <2>1. PICK period \in ToSet(doc.periods) :
          \E r \in ToSet(period.reps) : r.kind \in {"video", "audio"} /\ q = Profile(doc, period, r, None, now)
    BY DEF ProfilesOf
  <2>2. PICK r \in ToSet(period.reps) :
          r.kind \in {"video", "audio"} /\ q = Profile(doc, period, r, None, now)
    BY <2>1
  <2>3. r \in Reps(doc)
    BY DEF Reps
  <2>4. /\ q.id = <<r.adapt, r.rep, r.bandwidth>> /\ q.rep = r.rep /\ q.kind = r.kind
        /\ q.bandwidth = r.bandwidth /\ q.lang = r.lang /\ q.height = r.height
    BY <2>2 DEF Profile
  <2> QED BY <2>2, <2>3, <2>4
<1>2. /\ \A x \in Reps(doc) : /\ x.bandwidth \in Nat /\ x.height \in Nat
                              /\ x.kind = "audio" => x.height = 0
      /\ \A x, y \in Reps(doc) :
            /\ <<x.adapt, x.rep, x.bandwidth>> = <<y.adapt, y.rep, y.bandwidth>> =>
                 x.kind = y.kind /\ x.lang = y.lang
            /\ x.kind = "video" /\ y.kind = "video" /\ x.rep = y.rep => x.height = y.height
  BY DashDocuments
<1> HIDE DEF doc, U
<1>3. \A x \in U : /\ x.bandwidth \in Nat /\ x.height \in Nat
                   /\ x.kind = "audio" => x.height = 0
  <2> SUFFICES ASSUME NEW x \in U PROVE /\ x.bandwidth \in Nat /\ x.height \in Nat
                                        /\ x.kind = "audio" => x.height = 0
    OBVIOUS
  <2> QED BY <1>1, <1>2
<1>4. \A x, y \in U : x.id = y.id => x.lang = y.lang /\ x.bandwidth = y.bandwidth
  <2> SUFFICES ASSUME NEW x \in U, NEW y \in U, x.id = y.id
               PROVE  x.lang = y.lang /\ x.bandwidth = y.bandwidth
    OBVIOUS
  <2>1. PICK r \in Reps(doc) : /\ x.id = <<r.adapt, r.rep, r.bandwidth>>
                               /\ x.bandwidth = r.bandwidth /\ x.lang = r.lang
    BY <1>1
  <2>2. PICK s \in Reps(doc) : /\ y.id = <<s.adapt, s.rep, s.bandwidth>>
                               /\ y.bandwidth = s.bandwidth /\ y.lang = s.lang
    BY <1>1
  <2>3. <<r.adapt, r.rep, r.bandwidth>> = <<s.adapt, s.rep, s.bandwidth>>
    BY <2>1, <2>2
  <2>4. r.bandwidth = s.bandwidth
    BY <2>3
  <2>5. r.lang = s.lang
    BY <1>2, <2>3
  <2> QED BY <2>1, <2>2, <2>4, <2>5
<1>5. \A x, y \in U : x.kind = "video" /\ y.kind = "video" /\ x.rep = y.rep => x.height = y.height
  <2> SUFFICES ASSUME NEW x \in U, NEW y \in U, x.kind = "video", y.kind = "video", x.rep = y.rep
               PROVE  x.height = y.height
    OBVIOUS
  <2>1. PICK r \in Reps(doc) : x.rep = r.rep /\ x.kind = r.kind /\ x.height = r.height
    BY <1>1
  <2>2. PICK s \in Reps(doc) : y.rep = s.rep /\ y.kind = s.kind /\ y.height = s.height
    BY <1>1
  <2>3. r.kind = "video" /\ s.kind = "video" /\ r.rep = s.rep
    BY <2>1, <2>2
  <2>4. r.height = s.height
    BY <1>2, <2>3
  <2> QED BY <2>1, <2>2, <2>4
<1>6. \A q \in U : q.kind \in {"video", "audio"}
  BY <1>1
<1> QED BY <1>3, <1>4, <1>5, <1>6 DEF Regulated, U, doc

(* A master playlist with audio has one default track, in English if there *)
(* is English.                                                             *)
LEMMA AudiosPlayable ==
  ASSUME NEW T, Regulated(T), NEW profiles \in Seq(T), MaxAudio \in Nat \ {0},
         {q \in ToSet(profiles) : q.kind = "audio"} # {}
  PROVE  LET a == MasterAudios(profiles) IN
         /\ Cardinality({i \in DOMAIN a : a[i].default}) = 1
         /\ {q \in ToSet(profiles) : q.kind = "audio" /\ q.lang = "en"} # {} =>
              \A e \in ToSet(a), q \in ToSet(profiles) :
                e.default /\ q.id = e.id => q.lang = "en"
         /\ \A e \in ToSet(a) : \E q \in ToSet(profiles) : q.id = e.id
<1> DEFINE audios == OfKind(profiles, "audio")
           sorted == SortDown(audios, "bandwidth")
           default == DefaultAudio(audios)
           a == MasterAudios(profiles)
<1>1. a = AudioTracks(sorted, default)
  BY DEF MasterAudios
<1> HIDE DEF a
<1>2. /\ audios \in Seq(T) /\ ToSet(audios) = {q \in ToSet(profiles) : q.kind = "audio"}
      /\ audios # <<>>
  <2> DEFINE A == {x \in T : x.kind = "audio"}
  <2>1. audios \in Seq(A) /\ ToSet(audios) = {q \in ToSet(profiles) : q.kind = "audio"}
    BY OfKindIs
  <2>2. A \subseteq T
    OBVIOUS
  <2> HIDE DEF A, audios
  <2>3. audios \in Seq(T)
    BY <2>1, <2>2, SeqMonotonic
  <2> QED BY <2>1, <2>3, NotEmpty
<1> HIDE DEF audios
<1>3. \A x \in T : x.bandwidth \in Nat /\ x["bandwidth"] \in Nat
  BY DEF Regulated
<1>4. sorted \in Seq(T) /\ ToSet(sorted) = ToSet(audios)
  BY <1>2, <1>3, SortDownIs
<1> HIDE DEF sorted
<1>5. PICK p \in ToSet(audios) : /\ default = p.id
                                 /\ (\E q \in ToSet(audios) : q.lang = "en") => p.lang = "en"
  BY <1>2, <1>3, DefaultAudioIs
<1> HIDE DEF default
<1>6. /\ \A i \in DOMAIN a : \E q \in ToSet(sorted) : q.id = a[i].id
      /\ Cardinality({i \in DOMAIN a : a[i].default}) = 1
      /\ \A i \in DOMAIN a : a[i].default <=> a[i].id = default
  <2>1. p \in ToSet(sorted) /\ p.id = default
    BY <1>4, <1>5
  <2>2. Tracks(a, sorted, default)
    BY <1>1, <1>4, <2>1, AudioTracksIs
  <2> QED BY <2>2, Zenon DEF Tracks
<1>7. \A x \in ToSet(profiles) : x \in T
  BY DEF ToSet
<1>8. ASSUME NEW e \in ToSet(a) PROVE \E q \in ToSet(profiles) : q.id = e.id
  <2>1. PICK i \in DOMAIN a : e = a[i]
    BY DEF ToSet
  <2> QED BY <1>2, <1>4, <1>6, <2>1
<1>9. ASSUME {q \in ToSet(profiles) : q.kind = "audio" /\ q.lang = "en"} # {},
             NEW e \in ToSet(a), NEW q \in ToSet(profiles), e.default, q.id = e.id
      PROVE  q.lang = "en"
  <2>1. PICK i \in DOMAIN a : e = a[i]
    BY DEF ToSet
  <2>2. e.id = default
    BY <1>6, <1>9, <2>1, Zenon
  <2>3. p.lang = "en"
    BY <1>2, <1>5, <1>9
  <2>4. p \in T /\ q \in T /\ p.id = q.id
    BY <1>2, <1>5, <1>7, <1>9, <2>2
  <2> QED BY <2>3, <2>4 DEF Regulated
<1> QED BY <1>6, <1>8, <1>9 DEF a

(* A sequence over the empty set is empty. *)
LEMMA OverNothing ==
  ASSUME NEW s \in Seq({})
  PROVE  s = <<>> /\ DOMAIN s = {}
<1>1. ASSUME s # <<>> PROVE FALSE
  <2>1. s[1] \in {}
    BY <1>1, EmptySeq
  <2> QED BY <2>1
<1> QED BY <1>1

(* Without audio there are no tracks. *)
LEMMA NoAudios ==
  ASSUME NEW T, NEW profiles \in Seq(T), {q \in ToSet(profiles) : q.kind = "audio"} = {},
         MaxAudio \in Nat
  PROVE  MasterAudios(profiles) = <<>>
<1> DEFINE audios == OfKind(profiles, "audio")
           none == {q \in T : q.kind = "audio"}
           sorted == SortDown(audios, "bandwidth")
           default == DefaultAudio(audios)
           F == {i \in DOMAIN sorted : sorted[i].id = default}
           O == {i \in DOMAIN sorted : sorted[i].id # default}
           e == DedupBy(Filtered(sorted, F) \o Filtered(sorted, O), "lang")
           d == Upto(e, MaxAudio)
<1>1. MasterAudios(profiles) = [i \in DOMAIN d |-> [id |-> d[i].id, default |-> d[i].id = default]]
  BY DEF MasterAudios, AudioTracks
<1>2. audios \in Seq({})
  <2>1. audios \in Seq(none) /\ ToSet(audios) = {}
    BY OfKindIs
  <2> HIDE DEF none, audios
  <2>2. audios = <<>>
    BY <2>1, NotEmpty
  <2> QED BY <2>2, EmptySeq
<1> HIDE DEF audios
<1>3. sorted \in Seq({})
  BY <1>2, SortDownIs
<1> HIDE DEF sorted, default
<1>4. Filtered(sorted, F) \in Seq({}) /\ Filtered(sorted, O) \in Seq({})
  <2>1. F \in SUBSET (DOMAIN sorted) /\ O \in SUBSET (DOMAIN sorted)
    OBVIOUS
  <2> HIDE DEF F, O
  <2> QED BY <1>3, <2>1, FilteredHolds
<1>5. e \in Seq({})
  <2> DEFINE f == Filtered(sorted, F)
             o == Filtered(sorted, O)
  <2>1. f \in Seq({}) /\ o \in Seq({})
    BY <1>4
  <2> HIDE DEF f, o
  <2>2. f \o o \in Seq({})
    BY <2>1
  <2>3. DedupBy(f \o o, "lang") \in Seq({})
    BY <2>2, DedupIs
  <2> QED BY <2>3 DEF f, o
<1> HIDE DEF e
<1>6. d \in Seq({})
  BY <1>5, UptoIs
<1> HIDE DEF d
<1>7. DOMAIN d = {}
  BY <1>6, OverNothing
<1> QED BY <1>1, <1>7

(* What the handler makes of an MPD is playable. *)
LEMMA MasterIs ==
  ASSUME NEW c \in Channel, NEW t \in 0 .. MaxTime, NEW query
  PROVE  Playable(ToSet(ParseMpd(Publish(c, t), None, dashNow)), query, Master(Publish(c, t), query))
<1> DEFINE doc == Publish(c, t)
           T == ProfilesOf(doc, None, dashNow)
           parsed == ParseMpd(doc, None, dashNow)
           profiles == ToSet(parsed)
           Of(v) == CHOOSE q \in profiles : q.id = v.id
           videos == MasterVideos(parsed, query)
           shownVideos == [i \in DOMAIN videos |-> [id |-> videos[i].id, height |-> videos[i].height]]
           audios == MasterAudios(parsed)
<1>1. Regulated(T) /\ \A q \in T : q.kind \in {"video", "audio"}
  BY ProfilesRegulated
<1>2. parsed \in Seq(T)
  <2>1. /\ doc.periods \in Seq(ToSet(doc.periods))
        /\ \A period \in ToSet(doc.periods) : period.reps \in Seq(ToSet(period.reps))
    BY DashDocuments
  <2> HIDE DEF doc
  <2> QED BY <2>1, ParsedIn
<1>3. Master(doc, query) = [videos |-> shownVideos, audios |-> audios]
  BY DEF Master
<1>4. MaxVideo \in Nat \ {0} /\ MaxAudio \in Nat \ {0}
  BY DashDocuments
<1> HIDE DEF doc, T, parsed
<1>5. /\ videos \in Seq(T)
      /\ \A i, k \in DOMAIN videos : videos[i].height = videos[k].height => i = k
      /\ {q \in profiles : q.kind = "video"} # {} => videos # <<>>
      /\ ToSet(videos) \subseteq profiles
      /\ query.height = None =>
           \A x \in ToSet(videos), q \in profiles :
             /\ q.kind = "video" /\ q.height = x.height => q.bandwidth <= x.bandwidth
             /\ query.ts /\ q.kind \in {"video", "audio"} => q.height <= x.height
  BY <1>1, <1>2, <1>4, VideosPlayable
<1>6. {q \in profiles : q.kind = "audio"} # {} =>
        /\ Cardinality({i \in DOMAIN audios : audios[i].default}) = 1
        /\ {q \in profiles : q.kind = "audio" /\ q.lang = "en"} # {} =>
              \A e \in ToSet(audios), q \in profiles : e.default /\ q.id = e.id => q.lang = "en"
        /\ \A e \in ToSet(audios) : \E q \in profiles : q.id = e.id
  BY <1>1, <1>2, <1>4, AudiosPlayable
<1>7. \A q \in profiles : q \in T
  BY <1>2 DEF ToSet
<1> HIDE DEF videos, audios, profiles
<1>8. ASSUME NEW x \in profiles, NEW v, v.id = x.id
      PROVE  Of(v) \in profiles /\ Of(v).id = x.id /\ Of(v).bandwidth = x.bandwidth
  <2>1. Of(v) \in profiles /\ Of(v).id = v.id
    BY <1>8
  <2> HIDE DEF Of
  <2> QED BY <1>1, <1>7, <1>8, <2>1 DEF Regulated
<1>9. /\ DOMAIN shownVideos = DOMAIN videos /\ DOMAIN videos = 1 .. Len(videos)
      /\ \A i \in DOMAIN videos : /\ shownVideos[i].id = videos[i].id
                                  /\ shownVideos[i].height = videos[i].height
  BY <1>5
<1>10. videos # <<>> => shownVideos # <<>>
  BY <1>5
<1> HIDE DEF shownVideos, Of
<1>11. ASSUME NEW v \in ToSet(shownVideos)
       PROVE  /\ query.height = None => \A q \in profiles :
                   q.kind = "video" /\ q.height = v.height => q.bandwidth <= Of(v).bandwidth
              /\ query.ts /\ query.height = None => \A q \in profiles : q.height <= v.height
  <2>1. PICK i \in DOMAIN videos : v = shownVideos[i]
    BY <1>9 DEF ToSet
  <2>2. videos[i] \in ToSet(videos) /\ videos[i] \in profiles
    BY <1>5, MemberIs
  <2>3. v.id = videos[i].id /\ v.height = videos[i].height
    BY <1>9, <2>1
  <2>4. Of(v).bandwidth = videos[i].bandwidth
    BY <1>8, <2>2, <2>3
  <2>5. \A q \in profiles : q.kind \in {"video", "audio"}
    BY <1>1, <1>7
  <2> QED BY <1>5, <2>2, <2>3, <2>4, <2>5
<1>12. \A i, k \in DOMAIN shownVideos : shownVideos[i].height = shownVideos[k].height => i = k
  BY <1>5, <1>9
<1>13. ASSUME {q \in profiles : q.kind = "audio" /\ q.lang = "en"} # {},
              NEW a \in ToSet(audios), a.default
       PROVE  Of(a).lang = "en"
  <2>1. PICK q \in profiles : q.id = a.id
    BY <1>6, <1>13
  <2>2. Of(a) \in profiles /\ Of(a).id = a.id
    BY <1>8, <2>1
  <2> QED BY <1>6, <1>13, <2>2
<1>14. ASSUME {q \in profiles : q.kind = "audio"} = {}
       PROVE  audios = <<>>
  BY <1>2, <1>4, <1>14, NoAudios DEF audios, profiles
<1>15. ASSUME NEW v \in ToSet(shownVideos) \cup ToSet(audios)
       PROVE  \E q \in profiles : q.id = v.id
  <2>1. CASE v \in ToSet(shownVideos)
    <3>1. PICK i \in DOMAIN videos : v = shownVideos[i]
      BY <1>9, <2>1 DEF ToSet
    <3>2. videos[i] \in profiles
      BY <1>5, MemberIs
    <3> QED BY <1>9, <3>1, <3>2
  <2>2. CASE v \in ToSet(audios)
    BY <1>6, <1>14, <2>2 DEF ToSet
  <2> QED BY <2>1, <2>2
<1>16. /\ Master(doc, query).videos = shownVideos
       /\ Master(doc, query).audios = audios
  BY <1>3
<1> HIDE DEF T
<1>17. Playable(profiles, query, Master(doc, query))
  <2> DEFINE body == Master(doc, query)
  <2>1. body.videos = shownVideos /\ body.audios = audios
    BY <1>16
  <2> HIDE DEF body
  <2>2. \A v \in ToSet(body.videos) : query.height = None =>
          /\ \A q \in profiles :
               q.kind = "video" /\ q.height = v.height =>
                 q.bandwidth <= (CHOOSE p \in profiles : p.id = v.id).bandwidth
          /\ query.ts => \A q \in profiles : q.height <= v.height
    BY <1>11, <2>1 DEF Of
  <2>3. {q \in profiles : q.kind = "audio" /\ q.lang = "en"} # {} =>
          \A a \in ToSet(body.audios) :
            a.default => (CHOOSE p \in profiles : p.id = a.id).lang = "en"
    BY <1>13, <2>1 DEF Of
  <2>4. \A i, k \in DOMAIN body.videos : body.videos[i].height = body.videos[k].height => i = k
    BY <1>12, <2>1
  <2>5. {q \in profiles : q.kind = "video"} # {} => body.videos # <<>>
    BY <1>5, <1>10, <2>1
  <2>6. {q \in profiles : q.kind = "audio"} # {} =>
          Cardinality({i \in DOMAIN body.audios : body.audios[i].default}) = 1
    BY <1>6, <2>1
  <2>7. \A v \in ToSet(body.videos) \cup ToSet(body.audios) : \E q \in profiles : q.id = v.id
    BY <1>15, <2>1
  <2> QED BY <2>2, <2>3, <2>4, <2>5, <2>6, <2>7 DEF Playable, body
<1> QED BY <1>17 DEF doc, parsed, profiles

(* The MPDs in use were published while the clock ran. *)
TimesInv ==
  /\ channel \in Channel
  /\ dashNow \in 0 .. MaxTime
  /\ mpdCache # None => mpdCache.at \in 0 .. MaxTime
  /\ job = [p \in Player |-> job[p]]
  /\ \A p \in Player : job[p] # None =>
       /\ job[p] = [query |-> job[p].query, at |-> job[p].at]
       /\ job[p].at # None => job[p].at \in 0 .. MaxTime

MasterInv == TimesInv /\ MasterPlayable

(* Both handlers: a media playlist says nothing of MasterPlayable. *)
LEMMA ServedPlayable ==
  ASSUME NEW query, NEW at \in 0 .. MaxTime, Serve(query, at), MasterInv, UNCHANGED channel
  PROVE  MasterPlayable'
<1>1. CASE query.profile = None
  <2>1. shown' = [query |-> query, at |-> at, now |-> dashNow, indexed |-> FALSE,
                  body |-> Master(Publish(channel, at), query)]
    BY <1>1 DEF Serve
  <2>2. /\ shown'.query = query /\ shown'.at = at /\ shown'.now = dashNow
        /\ shown'.body = Master(Publish(channel, at), query)
    BY <2>1
  <2>3. channel \in Channel
    BY DEF MasterInv, TimesInv
  <2>4. Playable(ToSet(ParseMpd(Publish(channel, at), None, dashNow)), query,
                 Master(Publish(channel, at), query))
    BY <2>3, MasterIs
  <2> QED BY <2>2, <2>4 DEF MasterPlayable
<1>2. CASE query.profile # None
  <2>1. UNCHANGED shown \/ shown'.query = query
    BY <1>2 DEF Serve
  <2>2. CASE UNCHANGED shown
    BY <2>2 DEF MasterInv, MasterPlayable
  <2>3. CASE shown'.query = query
    BY <1>2, <2>3 DEF MasterPlayable
  <2> QED BY <2>1, <2>2, <2>3
<1> QED BY <1>1, <1>2
(* A hit serves from an MPD that was published before. *)
LEMMA AskPlayable ==
  ASSUME MasterInv, NEW p \in Player, NEW query, Ask(p, query)
  PROVE  MasterInv'
<1>1. UNCHANGED <<dashNow, channel, mpdCache>>
  BY DEF Ask
<1>2. CASE Cached
  <2>1. Serve(query, mpdCache.at) /\ UNCHANGED job
    BY <1>2 DEF Ask
  <2>2. mpdCache.at \in 0 .. MaxTime
    BY <1>2 DEF Cached, MasterInv, TimesInv
  <2>3. MasterPlayable'
    BY <1>1, <2>1, <2>2, ServedPlayable
  <2> QED BY <1>1, <2>1, <2>3 DEF MasterInv, TimesInv
<1>3. CASE ~Cached
  <2>1. job' = [job EXCEPT ![p] = [query |-> query, at |-> None]] /\ UNCHANGED shown
    BY <1>3 DEF Ask
  <2>2. TimesInv'
    BY <1>1, <2>1 DEF MasterInv, TimesInv
  <2> QED BY <1>1, <2>1, <2>2 DEF MasterInv, MasterPlayable
<1> QED BY <1>2, <1>3

(* The answer is the MPD of this moment. *)
LEMMA UpstreamAnswersPlayable ==
  ASSUME MasterInv, NEW p \in Player, UpstreamAnswers(p)
  PROVE  MasterInv'
<1>1. /\ job[p] # None /\ job' = [job EXCEPT ![p].at = dashNow]
      /\ UNCHANGED <<dashNow, channel, mpdCache, shown>>
  BY DEF UpstreamAnswers
<1> DEFINE answered == [query |-> job[p].query, at |-> dashNow]
<1>2. /\ job = [q \in Player |-> job[q]]
      /\ job[p] = [query |-> job[p].query, at |-> job[p].at]
  BY <1>1 DEF MasterInv, TimesInv
<1>3. [job[p] EXCEPT !.at = dashNow] = answered
  BY <1>2
<1>4. job' = [job EXCEPT ![p] = answered]
  BY <1>1, <1>3
<1>5. /\ answered = [query |-> answered.query, at |-> answered.at]
      /\ answered.at \in 0 .. MaxTime
  BY DEF MasterInv, TimesInv
<1> HIDE DEF answered
<1>6. \A q \in Player : job'[q] = IF q = p THEN answered ELSE job[q]
  BY <1>2, <1>4
<1>7. (job = [q \in Player |-> job[q]])'
  BY <1>2, <1>4
<1>8. TimesInv'
  BY <1>1, <1>5, <1>6, <1>7 DEF MasterInv, TimesInv
<1> QED BY <1>1, <1>8 DEF MasterInv, MasterPlayable

(* What enters the cache was published before. *)
LEMMA FetchEndsPlayable ==
  ASSUME MasterInv, NEW p \in Player, FetchEnds(p)
  PROVE  MasterInv'
<1>1. /\ job[p].at \in 0 .. MaxTime /\ Serve(job[p].query, job[p].at)
      /\ mpdCache' = [at |-> job[p].at, set |-> dashNow]
      /\ job' = [job EXCEPT ![p] = None] /\ UNCHANGED <<dashNow, channel>>
  BY DEF MasterInv, TimesInv, FetchEnds
<1>2. MasterPlayable'
  BY <1>1, ServedPlayable
<1>3. TimesInv'
  BY <1>1 DEF MasterInv, TimesInv
<1> QED BY <1>2, <1>3 DEF MasterInv

(* MasterInv is inductive. *)
THEOREM MasterInvariant == DashSpec => []MasterInv
<1>1. DashInit => MasterInv
  BY DashDocuments DEF DashInit, MasterInv, TimesInv, MasterPlayable
<1>2. MasterInv /\ [DashNext]_dashVars => MasterInv'
  <2> SUFFICES ASSUME MasterInv, [DashNext]_dashVars PROVE MasterInv'
    OBVIOUS
  <2>1. ASSUME NEW p \in Player, AskFirst(p) PROVE MasterInv'
    BY <2>1, AskPlayable DEF AskFirst
  <2>2. ASSUME NEW p \in Player, AskLinked(p) PROVE MasterInv'
    BY <2>2, AskPlayable DEF AskLinked
  <2>3. ASSUME NEW p \in Player, Refresh(p) PROVE MasterInv'
    BY <2>3, AskPlayable DEF Refresh
  <2>4. ASSUME NEW p \in Player, UpstreamAnswers(p) PROVE MasterInv'
    BY <2>4, UpstreamAnswersPlayable
  <2>5. ASSUME NEW p \in Player, UpstreamDown(p) PROVE MasterInv'
    BY <2>5 DEF UpstreamDown, MasterInv, TimesInv, MasterPlayable
  <2>6. ASSUME NEW p \in Player, FetchEnds(p) PROVE MasterInv'
    BY <2>6, FetchEndsPlayable
  <2>7. ASSUME NEW i \in 1 .. MaxLines, Play(i) PROVE MasterInv'
    BY <2>7 DEF Play, MasterInv, TimesInv, MasterPlayable
  <2>8. CASE Tick
    BY <2>8, DashDocuments DEF Tick, MasterInv, TimesInv, MasterPlayable
  <2>9. CASE UNCHANGED dashVars
    BY <2>9 DEF dashVars, MasterInv, TimesInv, MasterPlayable
  <2> QED BY <2>1, <2>2, <2>3, <2>4, <2>5, <2>6, <2>7, <2>8, <2>9 DEF DashNext
<1> QED BY <1>1, <1>2, PTL DEF DashSpec

(* Every master playlist, of any MPD a channel may have, is playable: the   *)
(* heights and their best bit rates, the one default audio track and its    *)
(* language, and where its links lead.                                      *)
THEOREM MastersStayPlayable == DashSpec => []MasterPlayable
<1>1. MasterInv => MasterPlayable
  BY DEF MasterInv
<1> QED BY <1>1, MasterInvariant, PTL

-----------------------------------------------------------------------------
(* Media playlists: the segments of a representation *)

(* What a sequence is, without the set its members are in. *)
LEMMA SequenceIs ==
  ASSUME NEW s, IsSequence(s)
  PROVE  /\ Len(s) \in Nat /\ DOMAIN s = 1 .. Len(s)
         /\ \A i \in 1 .. Len(s) : s[i] \in ToSet(s)
BY DEF IsSequence, ToSet

(* A sequence over any set is one over the set of its members. *)
LEMMA SeqIsSequence ==
  ASSUME NEW S, NEW s \in Seq(S)
  PROVE  IsSequence(s)
BY SeqOfRange DEF Range, ToSet, IsSequence

(* A function on the first numbers is a sequence. *)
LEMMA PlacesMake ==
  ASSUME NEW n \in Nat, NEW s, s = [i \in 1 .. n |-> s[i]]
  PROVE  IsSequence(s) /\ Len(s) = n /\ DOMAIN s = 1 .. n
<1>1. DOMAIN s = 1 .. n
  OBVIOUS
<1>2. \A i \in 1 .. n : s[i] \in ToSet(s)
  BY <1>1 DEF ToSet
<1>3. s \in [1 .. n -> ToSet(s)]
  BY <1>2
<1> HIDE DEF IsSequence
<1>4. s \in Seq(ToSet(s)) /\ Len(s) = n
  BY <1>3
<1> QED BY <1>1, <1>4 DEF IsSequence

(* The places and members of a sequence. *)
LEMMA PlacesOf ==
  ASSUME NEW s, IsSequence(s)
  PROVE  /\ Len(s) \in Nat /\ DOMAIN s = 1 .. Len(s) /\ s = [i \in 1 .. Len(s) |-> s[i]]
         /\ \A x \in ToSet(s) : \E i \in 1 .. Len(s) : x = s[i]
         /\ \A i \in 1 .. Len(s) : s[i] \in ToSet(s)
<1> DEFINE T == ToSet(s)
<1>1. s \in Seq(T)
  BY DEF IsSequence
<1> HIDE DEF T
<1>2. Len(s) \in Nat /\ DOMAIN s = 1 .. Len(s) /\ s = [i \in 1 .. Len(s) |-> s[i]]
  BY <1>1
<1> QED BY <1>2 DEF ToSet

(* What is a sequence over some set is one. *)
LEMMA SeqIn ==
  ASSUME NEW T, NEW s \in Seq(T)
  PROVE  IsSequence(s) /\ \A x \in ToSet(s) : x \in T
<1>1. Len(s) \in Nat /\ s = [i \in 1 .. Len(s) |-> s[i]] /\ \A i \in DOMAIN s : s[i] \in T
  OBVIOUS
<1> QED BY <1>1, PlacesMake DEF ToSet

(* What sequences yield one after the other comes from one of them. *)
LEMMA FlattenSeqs ==
  ASSUME NEW n \in Nat, NEW f, f = [p \in 1 .. n |-> f[p]], \A p \in 1 .. n : IsSequence(f[p])
  PROVE  /\ IsSequence(FlattenSeq(f))
         /\ \A x \in ToSet(FlattenSeq(f)) : \E p \in 1 .. n : x \in ToSet(f[p])
<1> DEFINE U == UNION {ToSet(f[p]) : p \in 1 .. n}
<1>1. ASSUME NEW p \in 1 .. n PROVE f[p] \in Seq(U)
  <2>1. f[p] \in Seq(ToSet(f[p])) /\ ToSet(f[p]) \subseteq U
    BY DEF IsSequence
  <2> HIDE DEF U
  <2> QED BY <2>1, SeqMonotonic
<1> HIDE DEF U
<1>2. f \in Seq(Seq(U))
  <2>1. f \in [1 .. n -> Seq(U)]
    BY <1>1
  <2> QED BY <2>1
<1>3. FlattenSeq(f) \in Seq(U)
  BY <1>2, FlattenIn
<1>4. IsSequence(FlattenSeq(f)) /\ \A x \in ToSet(FlattenSeq(f)) : x \in U
  BY <1>3, SeqIn
<1> QED BY <1>4 DEF U

(* What a filter keeps of a sequence. *)
LEMMA FilteredSeq ==
  ASSUME NEW s, IsSequence(s), NEW S \in SUBSET (DOMAIN s)
  PROVE  /\ IsSequence(Filtered(s, S))
         /\ \A x \in ToSet(Filtered(s, S)) : \E i \in S : x = s[i]
<1> DEFINE T == ToSet(s)
           f == Filtered(s, S)
<1>1. s \in Seq(T)
  BY DEF IsSequence
<1> HIDE DEF T
<1>2. f \in Seq(T) /\ ToSet(f) = {s[i] : i \in S}
  BY <1>1, FilteredHolds
<1> HIDE DEF f
<1>3. IsSequence(f) /\ \A x \in ToSet(f) : \E i \in S : x = s[i]
  BY <1>2, SeqIn
<1> QED BY <1>3 DEF f

(* Segments that are initialized with nothing or with this range. *)
Initialized(segments, range) ==
  IsSequence(segments) /\ \A s \in ToSet(segments) : s.initRange \in {None, range}

(* A sequence that is made place by place of others. *)
LEMMA Each ==
  ASSUME NEW n \in Nat, NEW s, s = [i \in 1 .. n |-> s[i]], NEW range,
         \A i \in 1 .. n : s[i].initRange \in {None, range}
  PROVE  Initialized(s, range)
<1>1. IsSequence(s) /\ Len(s) = n
  BY PlacesMake
<1> QED BY <1>1, PlacesOf DEF Initialized

(* A timeline is a sequence of entries. *)
LEMMA TimelineIs ==
  ASSUME NEW S, IsSequence(S), \A s \in ToSet(S) : s.r \in Int, NEW number, NEW start, NEW pto
  PROVE  IsSequence(PreprocessTimeline(S, number, start, pto))
<1> DEFINE n == Len(S)
           copies == [m \in DOMAIN S |-> 1 + AtLeast(S[m].r, 0)]
           From == CHOOSE f : f = [m \in DOMAIN S |->
                     IF S[m].t # None THEN S[m].t
                     ELSE IF m = 1 THEN 0 ELSE f[m-1] + copies[m-1] * S[m-1].d]
           Number == CHOOSE f : f = [m \in DOMAIN S |->
                     IF m = 1 THEN number ELSE f[m-1] + copies[m-1]]
           Entry(m, time, k) == [number |-> Number[m] + k - 1, time |-> time, duration |-> S[m].d,
                            start |-> start + Monus(time, pto)]
           Expand(m) == [k \in 1 .. copies[m] |-> Entry(m, From[m] + (k - 1) * S[m].d, k)]
           f == [m \in DOMAIN S |-> Expand(m)]
<1>1. PreprocessTimeline(S, number, start, pto) = FlattenSeq(f)
  BY DEF PreprocessTimeline
<1> HIDE DEF From, Number
<1>2. /\ n \in Nat /\ DOMAIN S = 1 .. n
      /\ \A m \in 1 .. n : copies[m] \in Nat
  <2>1. n \in Nat /\ DOMAIN S = 1 .. n /\ \A m \in 1 .. n : S[m].r \in Int
    BY PlacesOf
  <2> QED BY <2>1 DEF AtLeast
<1> HIDE DEF copies, Entry
<1>3. ASSUME NEW m \in 1 .. n PROVE IsSequence(f[m])
  <2>1. f[m] = Expand(m) /\ copies[m] \in Nat
    BY <1>2
  <2>2. Expand(m) = [k \in 1 .. copies[m] |-> Expand(m)[k]]
    OBVIOUS
  <2> HIDE DEF Expand, f
  <2> QED BY <2>1, <2>2, PlacesMake
<1>4. f = [m \in 1 .. n |-> f[m]]
  BY <1>2
<1> HIDE DEF f, n
<1> QED BY <1>1, <1>2, <1>3, <1>4, FlattenSeqs

(* What a template yields. *)
LEMMA TemplateIs ==
  ASSUME NEW doc, NEW period, NEW rep, NEW now, rep.form \in {"timeline", "duration"},
         doc.depth \in Nat, doc.total \in Nat, rep.d \in Nat,
         IsSequence(rep.S), \A s \in ToSet(rep.S) : s.r \in Int, NEW range
  PROVE  Initialized(FromTemplate(doc, period, rep, now), range)
<1> DEFINE avail == doc.avail + period.start
           number == IF rep.number = None THEN 1 ELSE rep.number
           live == LiveEntries(avail, doc.depth, rep.d, number, rep.pto, now)
           vod == VodEntries(doc.total, rep.d, number)
           entries == IF rep.form = "timeline" THEN PreprocessTimeline(rep.S, number, avail, rep.pto)
                      ELSE IF rep.d = 0 THEN <<>> ELSE IF doc.live THEN live ELSE vod
           made == [i \in DOMAIN entries |-> EntryToSegment(rep, entries[i])]
<1>1. FromTemplate(doc, period, rep, now) = made
  BY DEF FromTemplate
<1>2. CASE rep.form = "timeline"
  <2>1. entries = PreprocessTimeline(rep.S, number, avail, rep.pto)
    BY <1>2
  <2> HIDE DEF entries, number, avail
  <2>2. IsSequence(entries)
    BY <2>1, TimelineIs
  <2>3. Len(entries) \in Nat /\ DOMAIN entries = 1 .. Len(entries)
    BY <2>2, SequenceIs
  <2>4. \A i \in 1 .. Len(entries) : made[i].initRange = None
    BY <2>3 DEF EntryToSegment
  <2>5. made = [i \in 1 .. Len(entries) |-> made[i]]
    BY <2>3
  <2> HIDE DEF made
  <2> QED BY <1>1, <2>3, <2>4, <2>5, Each
<1>3. CASE rep.form # "timeline" /\ rep.d = 0
  <2>1. entries = <<>>
    BY <1>3
  <2> HIDE DEF entries
  <2>2. DOMAIN entries = 1 .. 0
    BY <2>1
  <2>3. made = [i \in 1 .. 0 |-> made[i]]
    BY <2>2
  <2> HIDE DEF made
  <2>4. 0 \in Nat /\ \A i \in 1 .. 0 : made[i].initRange \in {None, range}
    OBVIOUS
  <2> QED BY <1>1, <2>3, <2>4, Each
<1>4. CASE rep.form # "timeline" /\ rep.d # 0
  <2>1. CeilDiv(doc.depth, rep.d) \in Nat /\ CeilDiv(doc.total, rep.d) \in Nat
    <3>1. rep.d \in Nat /\ rep.d > 0
      BY <1>4
    <3>2. \A a \in Nat : CeilDiv(a, rep.d) \in Nat
      <4> TAKE a \in Nat
      <4>1. a + rep.d - 1 \in Nat
        BY <3>1
      <4> QED BY <3>1, <4>1 DEF CeilDiv
    <3> QED BY <3>2
  <2>2. entries = live \/ entries = vod
    BY <1>4
  <2>3. \E n \in Nat : DOMAIN entries = 1 .. n
    <3>1. DOMAIN live = 1 .. CeilDiv(doc.depth, rep.d)
      BY DEF LiveEntries
    <3>2. DOMAIN vod = 1 .. CeilDiv(doc.total, rep.d)
      BY DEF VodEntries
    <3> HIDE DEF live, vod, entries
    <3> QED BY <2>1, <2>2, <3>1, <3>2
  <2> HIDE DEF entries
  <2>4. PICK n \in Nat : DOMAIN entries = 1 .. n
    BY <2>3
  <2>5. \A i \in 1 .. n : made[i].initRange = None
    BY <2>4 DEF EntryToSegment
  <2>6. made = [i \in 1 .. n |-> made[i]]
    BY <2>4
  <2> HIDE DEF made
  <2> QED BY <1>1, <2>5, <2>6, Each
<1> QED BY <1>2, <1>3, <1>4

(* What a list yields. *)
LEMMA ListIs ==
  ASSUME NEW rep, IsSequence(rep.urls), NEW range
  PROVE  Initialized(FromList(rep), range)
<1> DEFINE S == {i \in DOMAIN rep.urls : rep.urls[i].media # None \/ rep.base # None}
           named == Filtered(rep.urls, S)
           Name(u) == IF u.media # None THEN u.media ELSE rep.base
           Out(i) == [Plain(Name(named[i]), i, AtLeast(rep.d, 1)) EXCEPT !.range = named[i].range]
           made == [i \in DOMAIN named |-> Out(i)]
<1>1. FromList(rep) = made
  BY DEF FromList
<1>2. S \in SUBSET (DOMAIN rep.urls)
  OBVIOUS
<1> HIDE DEF S
<1>3. IsSequence(named)
  BY <1>2, FilteredSeq
<1> HIDE DEF named
<1>4. Len(named) \in Nat /\ DOMAIN named = 1 .. Len(named)
  BY <1>3, SequenceIs
<1>5. \A i : Out(i).initRange = None
  BY DEF Plain
<1> HIDE DEF Out
<1>6. /\ \A i \in 1 .. Len(named) : made[i].initRange = None
      /\ made = [i \in 1 .. Len(named) |-> made[i]]
  BY <1>4, <1>5
<1> HIDE DEF made
<1> QED BY <1>1, <1>4, <1>6, Each

(* The representations the types of documents allow. *)
Typed(rep) ==
  /\ rep.form \in {"timeline", "duration", "list", "base", "none"} /\ rep.d \in Nat
  /\ IsSequence(rep.S) /\ \A s \in ToSet(rep.S) : s.r \in Int
  /\ IsSequence(rep.urls)

(* A segment has its own range of the init segment only if it is the one of *)
(* its representation.                                                      *)
LEMMA GeneratedIs ==
  ASSUME NEW doc, NEW period, NEW rep, NEW now, Typed(rep), doc.depth \in Nat, doc.total \in Nat
  PROVE  Initialized(GenerateSegments(doc, period, rep, now), InitOf(rep)[2])
<1> DEFINE range == InitOf(rep)[2]
<1>1. CASE rep.form \in {"timeline", "duration"}
  <2>1. GenerateSegments(doc, period, rep, now) = FromTemplate(doc, period, rep, now)
    BY <1>1 DEF GenerateSegments
  <2> HIDE DEF range
  <2> QED BY <1>1, <2>1, TemplateIs DEF Typed
<1>2. CASE rep.form = "list"
  <2>1. GenerateSegments(doc, period, rep, now) = FromList(rep)
    BY <1>2 DEF GenerateSegments
  <2> QED BY <2>1, ListIs DEF Typed
<1>3. CASE rep.form = "base"
  <2> DEFINE s == GenerateSegments(doc, period, rep, now)
  <2>1. s = FromBase(doc, rep) /\ InitOf(rep) = <<rep.base, rep.initRange>>
    BY <1>3 DEF GenerateSegments, InitOf
  <2> DEFINE only == [Plain(rep.base, 1, AtLeast(doc.total, 1)) EXCEPT
                        !.range = IF rep.initRange = None THEN None ELSE <<rep.initRange[2] + 1, 0>>,
                        !.initRange = rep.initRange, !.index = rep.index]
  <2>a. s = <<only>>
    BY <2>1 DEF FromBase
  <2>b. only.initRange = rep.initRange
    BY DEF Plain
  <2> HIDE DEF s, only
  <2>2. Len(s) = 1 /\ s = [i \in 1 .. 1 |-> s[i]] /\ s[1].initRange = rep.initRange
    BY <2>a, <2>b
  <2> HIDE DEF s
  <2>3. \A i \in 1 .. 1 : s[i].initRange \in {None, InitOf(rep)[2]}
    BY <2>1, <2>2
  <2>4. Initialized(s, InitOf(rep)[2])
    BY <2>2, <2>3, Each
  <2> QED BY <2>4 DEF s
<1>4. CASE rep.form = "none"
  <2> DEFINE s == GenerateSegments(doc, period, rep, now)
  <2>1. s = <<>>
    BY <1>4 DEF GenerateSegments
  <2>2. s = [i \in 1 .. 0 |-> s[i]]
    BY <2>1
  <2> HIDE DEF s
  <2> DEFINE range4 == InitOf(rep)[2]
  <2> HIDE DEF range4
  <2>3. \A i \in 1 .. 0 : s[i].initRange \in {None, range4}
    OBVIOUS
  <2>4. 0 \in Nat
    OBVIOUS
  <2>5. Initialized(s, range4)
    BY <2>2, <2>3, <2>4, Each
  <2> QED BY <2>5 DEF s, range4
<1> QED BY <1>1, <1>2, <1>3, <1>4 DEF Typed

-----------------------------------------------------------------------------
(* Media playlists: profiles, the window and the lines *)

(* The index of a file, as far as its types go. *)
IndexOk(index) == index # None => index.have \in Nat /\ IsSequence(index.refs)

(* The fragments of an index are a sequence. *)
LEMMA FragmentsAre ==
  ASSUME NEW index, index.have \in Nat, IsSequence(index.refs), NEW from
  PROVE  IsSequence(SidxFragments(index, from))
<1> DEFINE refs == Upto(index.refs, index.have)
           start == from + Ends(index.before)[Len(index.before)] + index.size + index.offset
           end == Ends([i \in DOMAIN refs |-> refs[i].size])
           Fragment(i) == <<start + end[i - 1], start + end[i] - 1, refs[i].d>>
           all == [i \in DOMAIN refs |-> Fragment(i)]
           S == {i \in DOMAIN refs : refs[i].media}
<1>1. SidxFragments(index, from) = Filtered(all, S)
  BY DEF SidxFragments
<1>2. Len(refs) \in Nat /\ DOMAIN refs = 1 .. Len(refs)
  <2> DEFINE T == ToSet(index.refs)
  <2>1. index.refs \in Seq(T)
    BY DEF IsSequence
  <2> HIDE DEF T
  <2>2. refs \in Seq(T)
    BY <2>1, UptoIs
  <2> HIDE DEF refs
  <2> QED BY <2>2
<1> HIDE DEF Fragment, refs
<1>3. all = [i \in 1 .. Len(refs) |-> all[i]] /\ DOMAIN all = 1 .. Len(refs)
  BY <1>2
<1>4. S \in SUBSET (DOMAIN all)
  BY <1>2, <1>3
<1> HIDE DEF all, S
<1>5. IsSequence(all)
  BY <1>2, <1>3, PlacesMake
<1> QED BY <1>1, <1>4, <1>5, FilteredSeq

(* ExpandBase changes the segments only, and these agree with the profile. *)
LEMMA ExpandedIs ==
  ASSUME NEW profile, NEW index, IndexOk(index), {"init", "initRange", "segments"} \subseteq DOMAIN profile,
         Initialized(profile.segments, profile.initRange)
  PROVE  LET e == ExpandBase(profile, index) IN
         /\ e.init = profile.init /\ e.initRange = profile.initRange
         /\ Initialized(e.segments, profile.initRange)
<1> DEFINE s == profile.segments[1]
           fragments == SidxFragments(index, s.index[1])
           Out(i) == [Plain(s.media, i, fragments[i][3]) EXCEPT
                        !.range = <<fragments[i][1], fragments[i][2]>>, !.initRange = s.initRange]
           made == [i \in DOMAIN fragments |-> Out(i)]
           e == ExpandBase(profile, index)
<1>1. \/ e = profile
      \/ /\ Len(profile.segments) = 1 /\ index # None
         /\ e = [profile EXCEPT !.segments = made]
  BY DEF ExpandBase
<1> HIDE DEF e
<1>2. CASE e = profile
  BY <1>2 DEF e
<1>3. CASE /\ Len(profile.segments) = 1 /\ index # None
           /\ e = [profile EXCEPT !.segments = made]
  <2>1. s.initRange \in {None, profile.initRange}
    <3>a. IsSequence(profile.segments)
      BY DEF Initialized
    <3>b. Len(profile.segments) = 1
      BY <1>3
    <3>1. 1 \in 1 .. Len(profile.segments)
      BY <3>b
    <3>2. s \in ToSet(profile.segments)
      BY <3>a, <3>1, SequenceIs
    <3> QED BY <3>2 DEF Initialized
  <2>2. IsSequence(fragments)
    BY <1>3, FragmentsAre DEF IndexOk
  <2> HIDE DEF fragments
  <2>3. Len(fragments) \in Nat /\ DOMAIN fragments = 1 .. Len(fragments)
    BY <2>2, SequenceIs
  <2>4. \A i : Out(i).initRange = s.initRange
    BY DEF Plain
  <2> HIDE DEF Out, s
  <2>5. made = [i \in 1 .. Len(fragments) |-> made[i]]
    BY <2>3
  <2>6. \A i \in 1 .. Len(fragments) : made[i].initRange \in {None, profile.initRange}
    BY <2>1, <2>3, <2>4
  <2> HIDE DEF made
  <2>7. Initialized(made, profile.initRange)
    BY <2>3, <2>5, <2>6, Each
  <2>8. e.init = profile.init /\ e.initRange = profile.initRange /\ e.segments = made
    BY <1>3
  <2> QED BY <2>7, <2>8 DEF e
<1> QED BY <1>1, <1>2, <1>3

(* What the merged segments of a profile have in common: each knows its     *)
(* init segment, and URLs tell these apart.                                 *)
Tells(pair) ==
  /\ pair.profile.init # None /\ InitLink(pair.profile) # None
  /\ pair.segment.initRange \in {None, pair.profile.initRange}
SameInit(a, b) == a.profile.init = b.profile.init => a.profile.initRange = b.profile.initRange
Mapped(pairs) ==
  /\ IsSequence(pairs)
  /\ \A a \in ToSet(pairs) : Tells(a)
  /\ \A a, b \in ToSet(pairs) : SameInit(a, b)

(* The profiles that ParseMpd makes of representations of a document. *)
LEMMA ProfileIs ==
  ASSUME NEW c \in Channel, OwnInits(c), NEW t \in 0 .. MaxTime, NEW wanted, NEW now,
         NEW q \in ProfilesOf(Publish(c, t), wanted, now)
  PROVE  /\ {"init", "initRange", "segments"} \subseteq DOMAIN q
         /\ Initialized(q.segments, q.initRange)
         /\ q.init # None /\ InitLink(q) # None
         /\ \E r \in {r \in Reps(Publish(c, t)) : r.kind \in {"video", "audio"}} :
              q.id = <<r.adapt, r.rep, r.bandwidth>> /\ <<q.init, q.initRange>> = InitOf(r)
<1> DEFINE doc == Publish(c, t)
<1>1. PICK period \in ToSet(doc.periods) :
        \E r \in ToSet(period.reps) : r.kind \in {"video", "audio"} /\ q = Profile(doc, period, r, wanted, now)
  BY DEF ProfilesOf
<1>2. PICK r \in ToSet(period.reps) :
        r.kind \in {"video", "audio"} /\ q = Profile(doc, period, r, wanted, now)
  BY <1>1
<1>3. r \in Reps(doc)
  BY <1>1, <1>2 DEF Reps
<1>4. doc.depth \in Nat /\ doc.total \in Nat /\ Typed(r) /\ [init |-> InitOf(r)[1], initRange |-> InitOf(r)[2]] # None
  BY <1>3, DashTypes DEF Typed, IsSequence
<1>5. InitOf(r)[1] # None /\ InitOf(r) = <<InitOf(r)[1], InitOf(r)[2]>>
  <2>1. InitOf(r)[1] # None
    BY <1>2, <1>3 DEF OwnInits, PlayedReps
  <2>2. InitOf(r) = <<InitOf(r)[1], InitOf(r)[2]>>
    BY DEF InitOf
  <2> QED BY <2>1, <2>2
<1> HIDE DEF doc
<1> DEFINE id == <<r.adapt, r.rep, r.bandwidth>>
           segments == IF wanted \in {None, id} THEN GenerateSegments(doc, period, r, now) ELSE <<>>
<1>6. /\ {"init", "initRange", "segments"} \subseteq DOMAIN q
      /\ q.id = id /\ q.init = InitOf(r)[1] /\ q.initRange = InitOf(r)[2] /\ q.segments = segments
  BY <1>2 DEF Profile
<1>7. Initialized(segments, InitOf(r)[2])
  <2>1. CASE wanted \in {None, id}
    <3>1. segments = GenerateSegments(doc, period, r, now)
      BY <2>1
    <3> HIDE DEF segments
    <3> QED BY <1>4, <3>1, GeneratedIs
  <2>2. CASE ~(wanted \in {None, id})
    <3>1. segments = <<>>
      BY <2>2
    <3>2. segments = [i \in 1 .. 0 |-> segments[i]] /\ 0 \in Nat
      BY <3>1
    <3> DEFINE range == InitOf(r)[2]
    <3> HIDE DEF segments, range
    <3>3. \A i \in 1 .. 0 : segments[i].initRange \in {None, range}
      OBVIOUS
    <3>4. Initialized(segments, range)
      BY <3>2, <3>3, Each
    <3> QED BY <3>4 DEF range
  <2> QED BY <2>1, <2>2
<1> HIDE DEF segments
<1>8. InitLink(q) # None
  BY <1>4, <1>6 DEF InitLink
<1>9. <<q.init, q.initRange>> = InitOf(r)
  BY <1>5, <1>6
<1> QED BY <1>2, <1>3, <1>5, <1>6, <1>7, <1>8, <1>9 DEF doc

(* The middle of some positive durations is one. *)
LEMMA MedianIs ==
  ASSUME NEW timed, IsSequence(timed), timed # <<>>, \A x \in ToSet(timed) : x.extinf \in Nat \ {0}
  PROVE  Median(timed) \in Nat \ {0}
<1> DEFINE T == ToSet(timed)
           sorted == SortDown(timed, "extinf")
           k == Len(timed) - Len(timed) \div 2
<1>1. timed \in Seq(T) /\ \A x \in T : x["extinf"] \in Nat
  BY DEF IsSequence
<1>2. Len(timed) \in Nat /\ Len(timed) # 0
  <2> HIDE DEF T
  <2> QED BY <1>1, EmptySeq
<1> HIDE DEF T
<1>3. sorted \in Seq(T) /\ Len(sorted) = Len(timed)
  BY <1>1, SortDownIs
<1> HIDE DEF sorted
<1>4. k \in 1 .. Len(timed)
  <2> DEFINE n == Len(timed)
             h == n \div 2
  <2>1. n \in Nat /\ n # 0
    BY <1>2
  <2> HIDE DEF n
  <2>2. h \in Nat /\ h < n
    BY <2>1
  <2> HIDE DEF h
  <2>3. n - h \in 1 .. n
    BY <2>1, <2>2
  <2> QED BY <2>3 DEF n, h
<1> HIDE DEF k
<1>5. sorted[k] \in T
  BY <1>3, <1>4
<1> QED BY <1>5 DEF Median, sorted, k, T

(* The depth of a live playlist is a number. *)
LEMMA DepthIs ==
  ASSUME NEW ts, NEW offset \in Int, NEW timed, IsSequence(timed),
         \A x \in ToSet(timed) : x.extinf \in Nat \ {0}
  PROVE  LiveDepth(ts, offset, Configured, timed) \in Nat
<1> DEFINE floor == AtLeast(Configured, IF ts THEN FloorTs ELSE Floor)
           typical == IF timed = <<>> THEN 4 ELSE Median(timed)
           behind == CeilDiv(-offset, typical) + (IF ts THEN SafetyTs ELSE Safety)
<1>1. floor \in Nat
  BY DashTypes DEF AtLeast
<1>2. typical \in Nat \ {0}
  BY MedianIs
<1>3. LiveDepth(ts, offset, Configured, timed) = IF offset < 0 THEN AtLeast(floor, behind) ELSE floor
  BY DEF LiveDepth
<1> HIDE DEF floor, typical
<1>4. offset < 0 => CeilDiv(-offset, typical) \in Nat
  <2> SUFFICES ASSUME offset < 0 PROVE CeilDiv(-offset, typical) \in Nat
    OBVIOUS
  <2>1. -offset + typical - 1 \in Nat /\ typical > 0 /\ typical \in Nat
    BY <1>2
  <2> QED BY <2>1 DEF CeilDiv
<1>5. (IF ts THEN SafetyTs ELSE Safety) \in Nat
  BY DashTypes
<1>6. offset < 0 => behind \in Nat
  BY <1>4, <1>5
<1> HIDE DEF behind
<1> QED BY <1>1, <1>3, <1>6 DEF AtLeast

(* The segments of the profiles of one id, one after the other. *)
Pairs(p) == [i \in DOMAIN p.segments |-> [segment |-> p.segments[i], profile |-> p]]
Merged(profiles) == FlattenSeq([k \in DOMAIN profiles |-> Pairs(profiles[k])])

LEMMA MergedIs ==
  ASSUME NEW profiles, IsSequence(profiles),
         \A p \in ToSet(profiles) : /\ p.init # None /\ InitLink(p) # None
                                    /\ Initialized(p.segments, p.initRange),
         \A p, q \in ToSet(profiles) : p.init = q.init => p.initRange = q.initRange
  PROVE  Mapped(Merged(profiles))
<1> DEFINE n == Len(profiles)
           f == [k \in DOMAIN profiles |-> Pairs(profiles[k])]
           merged == FlattenSeq(f)
<1>1. n \in Nat /\ DOMAIN profiles = 1 .. n /\ \A k \in 1 .. n : profiles[k] \in ToSet(profiles)
  BY SequenceIs
<1>2. ASSUME NEW p \in ToSet(profiles)
      PROVE  /\ IsSequence(Pairs(p))
             /\ \A x \in ToSet(Pairs(p)) : x.profile = p /\ x.segment \in ToSet(p.segments)
  <2>1. IsSequence(p.segments)
    BY DEF Initialized
  <2>2. Len(p.segments) \in Nat /\ DOMAIN p.segments = 1 .. Len(p.segments)
        /\ \A i \in 1 .. Len(p.segments) : p.segments[i] \in ToSet(p.segments)
    BY <2>1, SequenceIs
  <2> DEFINE s == Pairs(p)
             m == Len(p.segments)
  <2>3. s = [i \in 1 .. m |-> s[i]] /\ \A i \in 1 .. m : s[i] = [segment |-> p.segments[i], profile |-> p]
    BY <2>2 DEF Pairs
  <2> HIDE DEF s, m
  <2>4. ASSUME NEW i \in 1 .. m PROVE s[i].profile = p /\ s[i].segment \in ToSet(p.segments)
    <3>1. s[i] = [segment |-> p.segments[i], profile |-> p]
      BY <2>3
    <3>2. p.segments[i] \in ToSet(p.segments)
      BY <2>2 DEF m
    <3> QED BY <3>1, <3>2
  <2>5. IsSequence(s) /\ Len(s) = m
    BY <2>2, <2>3, PlacesMake DEF m
  <2>6. \A x \in ToSet(s) : \E i \in 1 .. m : x = s[i]
    BY <2>5, PlacesOf
  <2> QED BY <2>4, <2>5, <2>6 DEF s
<1>3. f = [k \in 1 .. n |-> f[k]] /\ \A k \in 1 .. n : f[k] = Pairs(profiles[k])
  BY <1>1
<1> HIDE DEF f
<1>4. \A k \in 1 .. n : IsSequence(f[k])
  BY <1>1, <1>2, <1>3
<1>5. /\ IsSequence(merged)
      /\ \A x \in ToSet(merged) : \E k \in 1 .. n : x \in ToSet(f[k])
  BY <1>1, <1>3, <1>4, FlattenSeqs
<1>6. Merged(profiles) = merged
  BY DEF Merged, f
<1> HIDE DEF merged
<1>7. \A x \in ToSet(merged) : x.profile \in ToSet(profiles) /\ x.segment \in ToSet(x.profile.segments)
  <2> SUFFICES ASSUME NEW x \in ToSet(merged)
               PROVE  x.profile \in ToSet(profiles) /\ x.segment \in ToSet(x.profile.segments)
    OBVIOUS
  <2>1. PICK k \in 1 .. n : x \in ToSet(f[k])
    BY <1>5
  <2>2. x \in ToSet(Pairs(profiles[k])) /\ profiles[k] \in ToSet(profiles)
    BY <1>1, <1>3, <2>1
  <2> QED BY <1>2, <2>2
<1>8. \A x \in ToSet(merged) : Tells(x)
  BY <1>7 DEF Tells, Initialized
<1>9. \A x, y \in ToSet(merged) : SameInit(x, y)
  BY <1>7 DEF SameInit
<1> QED BY <1>5, <1>6, <1>8, <1>9 DEF Mapped

(* A window is the end of what it is cut from. *)
LEMMA WindowFrom ==
  ASSUME NEW live, NEW merged, IsSequence(merged), NEW params,
         params.offset # None => params.offset \in Int
  PROVE  \E start \in 0 .. Len(merged) :
           Window(live, merged, params, Configured) = SubSeq(merged, start + 1, Len(merged))
<1> DEFINE offset == IF params.offset # None THEN params.offset
                     ELSE IF live THEN -DefaultOffset ELSE 0
           segs == [i \in DOMAIN merged |-> merged[i].segment]
           timed == Timed(segs)
           depth == LiveDepth(params.ts, offset, Configured, timed)
           start == IF live THEN Monus(Len(merged), depth) ELSE 0
           w == SubSeq(merged, start + 1, Len(merged))
<1>1. Window(live, merged, params, Configured) = w
  BY DEF Window
<1>3. Len(merged) \in Nat /\ DOMAIN merged = 1 .. Len(merged)
  BY SequenceIs
<1>4. offset \in Int
  BY DashTypes
<1>5. IsSequence(timed) /\ \A x \in ToSet(timed) : x.extinf \in Nat \ {0}
  <2> DEFINE S == {i \in DOMAIN segs : segs[i].extinf \in Nat \ {0}}
  <2>1. segs = [i \in 1 .. Len(merged) |-> segs[i]]
    BY <1>3
  <2>2. timed = Filtered(segs, S) /\ S \in SUBSET (DOMAIN segs)
    BY DEF Timed
  <2>3. \A i \in S : segs[i].extinf \in Nat \ {0}
    OBVIOUS
  <2> HIDE DEF segs, S
  <2>4. IsSequence(segs)
    BY <1>3, <2>1, PlacesMake
  <2>5. IsSequence(Filtered(segs, S)) /\ \A x \in ToSet(Filtered(segs, S)) : \E i \in S : x = segs[i]
    BY <2>2, <2>4, FilteredSeq
  <2> HIDE DEF timed
  <2> QED BY <2>2, <2>3, <2>5
<1> HIDE DEF offset, timed
<1>6. depth \in Nat
  BY <1>4, <1>5, DepthIs
<1> HIDE DEF depth
<1>7. start \in Nat /\ start <= Len(merged)
  BY <1>3, <1>6 DEF Monus
<1> HIDE DEF start
<1> QED BY <1>1, <1>3, <1>7

(* So it is mapped as that was. *)
LEMMA WindowIs ==
  ASSUME NEW live, NEW merged, Mapped(merged), NEW params,
         params.offset # None => params.offset \in Int
  PROVE  Mapped(Window(live, merged, params, Configured))
<1>1. IsSequence(merged)
  BY DEF Mapped
<1>2. Len(merged) \in Nat
  BY <1>1, SequenceIs
<1>3. PICK start \in 0 .. Len(merged) :
        Window(live, merged, params, Configured) = SubSeq(merged, start + 1, Len(merged))
  BY <1>1, WindowFrom
<1> DEFINE w == SubSeq(merged, start + 1, Len(merged))
<1>4. /\ IsSequence(w)
      /\ \A x \in ToSet(w) : x \in ToSet(merged)
  <2> DEFINE T == ToSet(merged)
  <2>1. merged \in Seq(T)
    BY <1>1 DEF IsSequence
  <2> HIDE DEF T
  <2>2. start + 1 \in 1 .. Len(merged) + 1
    BY <1>2
  <2>3. w \in Seq(T)
    BY <1>2, <2>1, <2>2
  <2> HIDE DEF w
  <2> QED BY <2>3, SeqIn DEF T
<1> HIDE DEF w
<1>5. /\ \A x \in ToSet(w) : Tells(x)
      /\ \A x, y \in ToSet(w) : SameInit(x, y)
  BY <1>4 DEF Mapped
<1> QED BY <1>3, <1>4, <1>5 DEF Mapped, w

(* The link of a line asks for the init segment of its profile. *)
LEMMA LinkIs ==
  ASSUME NEW pair, Tells(pair), NEW params
  PROVE  InitAnswer(SegmentLink(pair.segment, pair.profile, params)) = InitAnswer(InitLink(pair.profile))
BY DEF Tells, SegmentLink, InitAnswer, InitLink

(* Where the map in effect was last given, all profiles up to the line have *)
(* the init segment of that place.                                          *)
LEMMA SameSince ==
  ASSUME NEW kept, NEW k \in Nat, NEW i \in Nat, k >= 1, k <= i, NEW ts, ~ts,
         \A j \in 1 .. i : j > k => ~NewInit(kept, j, ts)
  PROVE  kept[i].profile.init = kept[k].profile.init
<1> DEFINE S == {d \in Nat : k + d <= i => kept[k + d].profile.init = kept[k].profile.init}
<1>1. 0 \in S
  OBVIOUS
<1>2. ASSUME NEW d \in S PROVE d + 1 \in S
  <2> SUFFICES ASSUME k + (d + 1) <= i PROVE kept[k + (d + 1)].profile.init = kept[k].profile.init
    OBVIOUS
  <2>1. d \in Nat /\ (k + (d + 1)) - 1 = k + d /\ k + d <= i
        /\ k + (d + 1) \in 1 .. i /\ k + (d + 1) > k /\ k + (d + 1) # 1
    OBVIOUS
  <2>2. ~NewInit(kept, k + (d + 1), ts)
    BY <2>1
  <2>3. kept[k + (d + 1)].profile.init = kept[k + d].profile.init
    BY <2>1, <2>2 DEF NewInit
  <2>4. kept[k + d].profile.init = kept[k].profile.init
    BY <2>1
  <2> QED BY <2>3, <2>4
<1> HIDE DEF S
<1>3. S = Nat
  BY <1>1, <1>2, SetInduction DEF S
<1>4. i - k \in Nat /\ k + (i - k) = i
  OBVIOUS
<1>5. \A d \in Nat : k + d <= i => kept[k + d].profile.init = kept[k].profile.init
  BY <1>3 DEF S
<1>6. k + (i - k) <= i => kept[k + (i - k)].profile.init = kept[k].profile.init
  BY <1>4, <1>5
<1> QED BY <1>4, <1>6

(* At every line the map in effect is that of the line's own init segment;  *)
(* without maps the segment has it inline.                                  *)
MapsRight(lines, ts) ==
  \A i \in DOMAIN lines :
    /\ lines[i].link.useMap <=> ~ts
    /\ MapInEffect(lines, i) = IF ts THEN None ELSE InitAnswer(lines[i].link)

LEMMA LinesAreRight ==
  ASSUME NEW live, NEW kept, Mapped(kept), NEW params
  PROVE  MapsRight(Lines(live, kept, params).lines, params.ts)
<1> DEFINE lines == Lines(live, kept, params).lines
           ts == params.ts
           Map(i) == IF NewInit(kept, i, ts) /\ kept[i].profile.init # None
                     THEN InitLink(kept[i].profile) ELSE None
           Link(i) == SegmentLink(kept[i].segment, kept[i].profile, params)
           Line(i) == [discontinuity |-> NewInit(kept, i, ts) /\ i > 1, map |-> Map(i), link |-> Link(i)]
<1>1. CASE kept = <<>>
  <2>1. lines = <<>>
    BY <1>1 DEF Lines
  <2> QED BY <2>1 DEF MapsRight
<1>2. CASE kept # <<>>
  <2>1. lines = [i \in DOMAIN kept |-> Line(i)]
    BY <1>2 DEF Lines
  <2>2. IsSequence(kept)
    BY DEF Mapped
  <2>3. /\ Len(kept) \in Nat /\ DOMAIN kept = 1 .. Len(kept)
        /\ \A i \in 1 .. Len(kept) : kept[i] \in ToSet(kept)
    BY <2>2, SequenceIs
  <2>4. \A i \in 1 .. Len(kept) : Tells(kept[i])
    BY <2>3 DEF Mapped
  <2>5. \A i, j \in 1 .. Len(kept) : SameInit(kept[i], kept[j])
    BY <2>3 DEF Mapped
  <2>6. DOMAIN lines = 1 .. Len(kept)
    BY <2>1, <2>3
  <2> HIDE DEF Map, Link
  <2>7. \A i \in 1 .. Len(kept) : lines[i].map = Map(i) /\ lines[i].link = Link(i)
    BY <2>1, <2>3
  <2> HIDE DEF lines, Line
  <2>8. \A i \in 1 .. Len(kept) : Map(i) # None <=> NewInit(kept, i, ts)
    BY <2>4 DEF Map, Tells
  <2>9. ASSUME NEW i \in 1 .. Len(kept) PROVE lines[i].link.useMap <=> ~ts
    <3>1. lines[i].link.useMap = Link(i).useMap
      BY <2>7
    <3>2. Link(i).useMap <=> ~ts
      BY Zenon DEF Link, SegmentLink
    <3> QED BY <3>1, <3>2, Zenon
  <2>10. ASSUME NEW i \in 1 .. Len(kept)
         PROVE  MapInEffect(lines, i) = IF ts THEN None ELSE InitAnswer(lines[i].link)
    <3> DEFINE maps == {k \in 1 .. i : lines[k].map # None}
    <3>1. maps = {k \in 1 .. i : NewInit(kept, k, ts)} /\ i \in Nat
      BY <2>3, <2>7, <2>8
    <3>2. MapInEffect(lines, i) = IF maps = {} THEN None ELSE InitAnswer(lines[Greatest(maps)].map)
      BY DEF MapInEffect
    <3> HIDE DEF maps
    <3>3. CASE ts
      <4>1. maps = {}
        BY <3>1, <3>3 DEF NewInit
      <4> QED BY <3>2, <3>3, <4>1
    <3>4. CASE ~ts
      <4>1. 1 \in maps
        BY <2>3, <3>1, <3>4 DEF NewInit
      <4>2. maps \in SUBSET Nat /\ IsFiniteSet(maps)
        <5>1. IsFiniteSet(1 .. i)
          BY <3>1, FS_Interval
        <5> QED BY <3>1, <5>1, FS_Subset
      <4>3. PICK k \in maps : k = Greatest(maps) /\ \A y \in maps : k >= y
        BY <4>1, <4>2, GreatestIs
      <4>4. k \in Nat /\ k >= 1 /\ k <= i /\ i \in Nat /\ k \in 1 .. Len(kept) /\ NewInit(kept, k, ts)
        BY <2>3, <3>1
      <4>5. ASSUME NEW j \in 1 .. i, j > k PROVE ~NewInit(kept, j, ts)
        <5>1. j \notin maps
          BY <4>3, <4>4, <4>5
        <5> QED BY <3>1, <5>1
      <4>6. kept[i].profile.init = kept[k].profile.init
        BY <3>4, <4>4, <4>5, SameSince
      <4>7. kept[i].profile.initRange = kept[k].profile.initRange
        BY <2>5, <4>4, <4>6 DEF SameInit
      <4>8. MapInEffect(lines, i) = InitAnswer(InitLink(kept[k].profile))
        <5>1. lines[k].map = InitLink(kept[k].profile)
          BY <2>4, <2>7, <4>4 DEF Map, Tells
        <5> QED BY <3>2, <4>1, <4>3, <5>1
      <4>9. InitAnswer(lines[i].link) = InitAnswer(InitLink(kept[i].profile))
        <5>1. lines[i].link = SegmentLink(kept[i].segment, kept[i].profile, params)
          BY <2>7 DEF Link
        <5> QED BY <2>4, <5>1, LinkIs
      <4>10. InitAnswer(InitLink(kept[k].profile)) = InitAnswer(InitLink(kept[i].profile))
        BY <4>6, <4>7 DEF InitAnswer, InitLink
      <4> QED BY <3>4, <4>8, <4>9, <4>10
    <3> QED BY <3>3, <3>4
  <2> QED BY <2>6, <2>9, <2>10 DEF MapsRight, lines
<1> QED BY <1>1, <1>2

(* What the handler makes of an MPD for a profile. *)
QueryOk(query) == query.offset # None => query.offset \in Int

LEMMA PlaylistIs ==
  ASSUME NEW c \in Channel, OwnInits(c), NEW t \in 0 .. MaxTime, NEW query, QueryOk(query),
         NEW index, IndexOk(index), Playlist(Publish(c, t), query, index) # None
  PROVE  MapsRight(Playlist(Publish(c, t), query, index).lines, query.ts)
<1> DEFINE doc == Publish(c, t)
           wanted == query.profile
           T == ProfilesOf(doc, wanted, dashNow)
           profiles == ParseMpd(doc, wanted, dashNow)
           S == {i \in DOMAIN profiles : profiles[i].id = wanted}
           matching == Filtered(profiles, S)
           expanded == [i \in DOMAIN matching |-> ExpandBase(matching[i], index)]
           list == Playlist(doc, query, index)
<1>1. list = IF matching = <<>> THEN None ELSE MediaPlaylist(doc.live, expanded, query, Configured)
  BY DEF Playlist
<1>2. profiles \in Seq(T)
  BY DashDocuments, ParsedIn
<1>3. S \in SUBSET (DOMAIN profiles)
  OBVIOUS
<1>4. /\ IsSequence(matching)
      /\ \A x \in ToSet(matching) : x \in T /\ x.id = wanted
  <2> HIDE DEF T, profiles
  <2>1. \A i \in S : profiles[i] \in T /\ profiles[i].id = wanted
    BY <1>2
  <2> HIDE DEF S
  <2>2. IsSequence(profiles)
    BY <1>2, SeqIn
  <2>3. IsSequence(matching) /\ \A x \in ToSet(matching) : \E i \in S : x = profiles[i]
    BY <1>3, <2>2, FilteredSeq
  <2> QED BY <2>1, <2>3
<1> HIDE DEF matching, T
<1>5. ASSUME NEW x \in T
      PROVE  LET e == ExpandBase(x, index) IN
             /\ e.init = x.init /\ e.initRange = x.initRange
             /\ e.init # None /\ InitLink(e) # None /\ Initialized(e.segments, e.initRange)
  <2>1. /\ {"init", "initRange", "segments"} \subseteq DOMAIN x
        /\ Initialized(x.segments, x.initRange)
        /\ x.init # None /\ InitLink(x) # None
    BY ProfileIs DEF T
  <2> DEFINE e == ExpandBase(x, index)
  <2>2. e.init = x.init /\ e.initRange = x.initRange /\ Initialized(e.segments, x.initRange)
    BY <2>1, ExpandedIs
  <2> HIDE DEF e
  <2>3. InitLink(e) = InitLink(x)
    BY <2>2 DEF InitLink
  <2> QED BY <2>1, <2>2, <2>3 DEF e
<1>6. ASSUME NEW x \in T, NEW y \in T, x.id = y.id, x.init = y.init PROVE x.initRange = y.initRange
  <2> DEFINE Played == {r \in Reps(doc) : r.kind \in {"video", "audio"}}
  <2>1. PICK r \in Played : x.id = <<r.adapt, r.rep, r.bandwidth>> /\ <<x.init, x.initRange>> = InitOf(r)
    BY ProfileIs DEF T
  <2>2. PICK s \in Played : y.id = <<s.adapt, s.rep, s.bandwidth>> /\ <<y.init, y.initRange>> = InitOf(s)
    BY ProfileIs DEF T
  <2>3. InitOf(r)[1] = x.init /\ InitOf(s)[1] = y.init
    <3>1. <<x.init, x.initRange>>[1] = x.init /\ <<y.init, y.initRange>>[1] = y.init
      OBVIOUS
    <3> QED BY <2>1, <2>2, <3>1
  <2>a. /\ <<r.adapt, r.rep, r.bandwidth>> = <<s.adapt, s.rep, s.bandwidth>>
        /\ InitOf(r)[1] = InitOf(s)[1]
    BY <1>6, <2>1, <2>2, <2>3
  <2>b. \A a, b \in Played :
          /\ InitOf(a)[1] # None
          /\ <<a.adapt, a.rep, a.bandwidth>> = <<b.adapt, b.rep, b.bandwidth>>
             /\ InitOf(a)[1] = InitOf(b)[1] => InitOf(a) = InitOf(b)
    BY Zenon DEF OwnInits, PlayedReps, IdOf
  <2> HIDE DEF Played
  <2>4. InitOf(r) = InitOf(s)
    BY <2>a, <2>b
  <2>5. <<x.init, x.initRange>> = <<y.init, y.initRange>>
    BY <2>1, <2>2, <2>4
  <2> QED BY <2>5
<1> HIDE DEF doc, wanted
<1>7. Len(matching) \in Nat /\ DOMAIN matching = 1 .. Len(matching)
      /\ \A i \in 1 .. Len(matching) : matching[i] \in ToSet(matching)
  BY <1>4, SequenceIs
<1>8. /\ expanded = [i \in 1 .. Len(matching) |-> expanded[i]]
      /\ \A i \in 1 .. Len(matching) : expanded[i] = ExpandBase(matching[i], index)
  BY <1>7
<1> HIDE DEF expanded
<1>9. /\ IsSequence(expanded)
      /\ \A e \in ToSet(expanded) : \E x \in ToSet(matching) : e = ExpandBase(x, index)
  <2>1. IsSequence(expanded) /\ Len(expanded) = Len(matching)
    BY <1>7, <1>8, PlacesMake
  <2>2. \A e \in ToSet(expanded) : \E i \in 1 .. Len(matching) : e = expanded[i]
    BY <2>1, PlacesOf
  <2> QED BY <1>7, <1>8, <2>1, <2>2
<1>10. \A e \in ToSet(expanded) : /\ e.init # None /\ InitLink(e) # None
                                  /\ Initialized(e.segments, e.initRange)
  BY <1>4, <1>5, <1>9
<1>11. \A e, f \in ToSet(expanded) : e.init = f.init => e.initRange = f.initRange
  <2> SUFFICES ASSUME NEW e \in ToSet(expanded), NEW f \in ToSet(expanded), e.init = f.init
               PROVE  e.initRange = f.initRange
    OBVIOUS
  <2>1. PICK x \in ToSet(matching) : e = ExpandBase(x, index)
    BY <1>9
  <2>2. PICK y \in ToSet(matching) : f = ExpandBase(y, index)
    BY <1>9
  <2>3. e.init = x.init /\ e.initRange = x.initRange /\ f.init = y.init /\ f.initRange = y.initRange
    BY <1>4, <1>5, <2>1, <2>2
  <2> QED BY <1>4, <1>6, <2>3
<1>12. Mapped(Merged(expanded))
  BY <1>9, <1>10, <1>11, MergedIs
<1> DEFINE kept == Window(doc.live, Merged(expanded), query, Configured)
<1>13. Mapped(kept)
  BY <1>12, WindowIs DEF QueryOk
<1>14. MediaPlaylist(doc.live, expanded, query, Configured) = Lines(doc.live, kept, query)
  BY DEF MediaPlaylist, Merged, Pairs
<1> HIDE DEF kept
<1>15. MapsRight(Lines(doc.live, kept, query).lines, query.ts)
  BY <1>13, LinesAreRight
<1>16. list # None
  BY DEF doc
<1> HIDE DEF list
<1>17. list = Lines(doc.live, kept, query)
  BY <1>1, <1>14, <1>16
<1>18. MapsRight(list.lines, query.ts)
  BY <1>15, <1>17
<1> QED BY <1>18 DEF list, doc

-----------------------------------------------------------------------------
(* Init segments reach players *)

(* The segment that is played and the map in effect come from one line. *)
Answered ==
  /\ IsList
  /\ answer.line \in DOMAIN shown.body.lines
  /\ answer.map = MapInEffect(shown.body.lines, answer.line)
  /\ answer.body = SegmentAnswer(shown.body.lines[answer.line].link, shown.query.keys, answer.fetched)

(* The maps of a playlist and what is played of it. *)
ListInv ==
  /\ \A p \in Player : job[p] # None => QueryOk(job[p].query)
  /\ shown # None => QueryOk(shown.query)
  /\ OwnInits(channel) /\ IsList => MapsRight(shown.body.lines, shown.query.ts)
  /\ answer # None => Answered

(* What a handler gives has its maps in place. *)
LEMMA ServedList ==
  ASSUME NEW query, QueryOk(query), NEW at \in 0 .. MaxTime, Serve(query, at), TimesInv, ListInv,
         UNCHANGED channel
  PROVE  /\ (shown # None => QueryOk(shown.query))'
         /\ (OwnInits(channel) /\ IsList => MapsRight(shown.body.lines, shown.query.ts))'
<1>1. CASE query.profile = None
  <2>1. shown' = [query |-> query, at |-> at, now |-> dashNow, indexed |-> FALSE,
                  body |-> Master(Publish(channel, at), query)]
    BY <1>1 DEF Serve
  <2>2. shown'.query = query
    BY <2>1
  <2> QED BY <1>1, <2>2 DEF QueryOk, IsList
<1>2. CASE query.profile # None
  <2>1. PICK index \in {None, Index(channel)} :
          \E list \in {Playlist(Publish(channel, at), query, index)} :
            IF list = None THEN UNCHANGED <<shown, numbering>>
            ELSE shown' = [query |-> query, at |-> at, now |-> dashNow,
                           indexed |-> index # None, body |-> list]
    BY <1>2, Zenon DEF Serve
  <2> DEFINE list == Playlist(Publish(channel, at), query, index)
  <2>2. CASE list = None
    <3>1. UNCHANGED <<shown, channel>>
      BY <2>1, <2>2
    <3> QED BY <3>1 DEF ListInv, IsList, MapsRight, MapInEffect, OwnInits, QueryOk
  <2>3. CASE list # None
    <3>1. shown' = [query |-> query, at |-> at, now |-> dashNow, indexed |-> index # None, body |-> list]
      BY <2>1, <2>3
    <3>2. channel \in Channel
      BY DEF TimesInv
    <3>3. IndexOk(index)
      BY <2>1, <3>2, DashTypes DEF IndexOk, IsSequence
    <3>4. OwnInits(channel) => MapsRight(list.lines, query.ts)
      BY <2>3, <3>2, <3>3, PlaylistIs
    <3> HIDE DEF list
    <3>5. shown'.query = query /\ shown'.body = list
      BY <3>1
    <3>6. (shown # None => QueryOk(shown.query))'
      BY <3>5 DEF QueryOk
    <3>7. OwnInits(channel)' => MapsRight(list.lines, query.ts)
      BY <3>4 DEF OwnInits
    <3>8. (OwnInits(channel) => MapsRight(shown.body.lines, shown.query.ts))'
      BY <3>5, <3>7 DEF MapsRight, MapInEffect
    <3> QED BY <3>6, <3>8
  <2> QED BY <2>2, <2>3
<1> QED BY <1>1, <1>2

(* A request is served at once or waits. *)
LEMMA AskList ==
  ASSUME TimesInv, ListInv, NEW p \in Player, NEW query, QueryOk(query), Ask(p, query)
  PROVE  ListInv'
<1>1. answer' = None
  BY DEF Ask
<1>2. CASE Cached
  <2>1. Serve(query, mpdCache.at) /\ UNCHANGED <<job, channel>>
    BY <1>2 DEF Ask
  <2>2. mpdCache.at \in 0 .. MaxTime
    BY <1>2 DEF Cached, TimesInv
  <2>3. /\ (shown # None => QueryOk(shown.query))'
        /\ (OwnInits(channel) /\ IsList => MapsRight(shown.body.lines, shown.query.ts))'
    BY <2>1, <2>2, ServedList
  <2> QED BY <1>1, <2>1, <2>3 DEF ListInv
<1>3. CASE ~Cached
  <2>1. job' = [job EXCEPT ![p] = [query |-> query, at |-> None]] /\ UNCHANGED <<shown, channel>>
    BY <1>3 DEF Ask
  <2>2. (\A q \in Player : job[q] # None => QueryOk(job[q].query))'
    <3>1. job = [q \in Player |-> job[q]]
      BY DEF TimesInv
    <3>2. \A q \in Player : job'[q] = IF q = p THEN [query |-> query, at |-> None] ELSE job[q]
      BY <2>1, <3>1
    <3> QED BY <3>2 DEF ListInv
  <2> QED BY <1>1, <2>1, <2>2 DEF ListInv, IsList, MapsRight, MapInEffect, OwnInits
<1> QED BY <1>2, <1>3

LEMMA ListStep ==
  ASSUME TimesInv, TimesInv', ListInv, [DashNext]_dashVars
  PROVE  ListInv'
<1>0. channel \in Channel /\ job = [p \in Player |-> job[p]]
  BY DEF TimesInv
<1>1. ASSUME NEW p \in Player, AskFirst(p) PROVE ListInv'
  <2>1. PICK query \in Query(channel) : Ask(p, query)
    BY <1>1 DEF AskFirst
  <2>2. QueryOk(query)
    BY <1>0, DashTypes DEF QueryOk
  <2> QED BY <2>1, <2>2, AskList
<1>2. ASSUME NEW p \in Player, AskLinked(p) PROVE ListInv'
  <2>1. PICK id : Ask(p, PlaylistQuery(shown.query, id))
    BY <1>2 DEF AskLinked
  <2>2. QueryOk(PlaylistQuery(shown.query, id))
    BY DEF QueryOk, PlaylistQuery
  <2> QED BY <2>1, <2>2, AskList
<1>3. ASSUME NEW p \in Player, Refresh(p) PROVE ListInv'
  <2>1. shown # None /\ Ask(p, shown.query)
    BY <1>3 DEF Refresh
  <2>2. QueryOk(shown.query)
    BY <2>1 DEF ListInv
  <2> QED BY <2>1, <2>2, AskList
<1>4. ASSUME NEW p \in Player, UpstreamAnswers(p) PROVE ListInv'
  <2>1. /\ job[p] # None /\ job' = [job EXCEPT ![p].at = dashNow]
        /\ answer' = None /\ UNCHANGED <<shown, channel>>
    BY <1>4 DEF UpstreamAnswers
  <2>2. [job[p] EXCEPT !.at = dashNow] = [query |-> job[p].query, at |-> dashNow]
    <3>1. job[p] = [query |-> job[p].query, at |-> job[p].at]
      BY <2>1 DEF TimesInv
    <3> QED BY <3>1
  <2>3. \A q \in Player : job'[q] = IF q = p THEN [query |-> job[p].query, at |-> dashNow] ELSE job[q]
    BY <1>0, <2>1, <2>2
  <2>4. (\A q \in Player : job[q] # None => QueryOk(job[q].query))'
    BY <2>1, <2>3 DEF ListInv
  <2> QED BY <2>1, <2>4 DEF ListInv, IsList, MapsRight, MapInEffect, OwnInits
<1>5. ASSUME NEW p \in Player, UpstreamDown(p) PROVE ListInv'
  <2>1. job' = [job EXCEPT ![p] = None] /\ answer' = None /\ UNCHANGED <<shown, channel>>
    BY <1>5 DEF UpstreamDown
  <2>2. \A q \in Player : job'[q] = IF q = p THEN None ELSE job[q]
    BY <1>0, <2>1
  <2> QED BY <2>1, <2>2 DEF ListInv, IsList, MapsRight, MapInEffect, OwnInits
<1>6. ASSUME NEW p \in Player, FetchEnds(p) PROVE ListInv'
  <2>1. /\ job[p] # None /\ job[p].at # None /\ Serve(job[p].query, job[p].at)
        /\ job' = [job EXCEPT ![p] = None] /\ answer' = None /\ UNCHANGED channel
    BY <1>6 DEF FetchEnds
  <2>2. job[p].at \in 0 .. MaxTime /\ QueryOk(job[p].query)
    BY <2>1 DEF TimesInv, ListInv
  <2>3. /\ (shown # None => QueryOk(shown.query))'
        /\ (OwnInits(channel) /\ IsList => MapsRight(shown.body.lines, shown.query.ts))'
    BY <2>1, <2>2, ServedList
  <2>4. \A q \in Player : job'[q] = IF q = p THEN None ELSE job[q]
    BY <1>0, <2>1
  <2> QED BY <2>1, <2>3, <2>4 DEF ListInv
<1>7. ASSUME NEW i \in 1 .. MaxLines, Play(i) PROVE ListInv'
  <2>1. /\ shown # None /\ shown.query.profile # None /\ i \in DOMAIN shown.body.lines
        /\ UNCHANGED <<job, shown, channel>>
    BY <1>7 DEF Play
  <2>2. PICK fetched \in BOOLEAN :
          answer' = [line |-> i, fetched |-> fetched, map |-> MapInEffect(shown.body.lines, i),
                     body |-> SegmentAnswer(shown.body.lines[i].link, shown.query.keys, fetched)]
    BY <1>7 DEF Play
  <2>3. /\ answer'.line = i /\ answer'.fetched = fetched /\ answer'.map = MapInEffect(shown.body.lines, i)
        /\ answer'.body = SegmentAnswer(shown.body.lines[i].link, shown.query.keys, fetched)
    BY <2>2, Zenon
  <2>4. Answered'
    BY <2>1, <2>3, Zenon DEF Answered, IsList, MapInEffect
  <2> QED BY <2>1, <2>4 DEF ListInv, IsList, MapsRight, MapInEffect, OwnInits
<1>8. CASE Tick
  BY <1>8 DEF Tick, ListInv, IsList, MapsRight, MapInEffect, OwnInits
<1>9. CASE UNCHANGED dashVars
  BY <1>9 DEF dashVars, ListInv, IsList, MapsRight, MapInEffect, OwnInits, Answered
<1> QED BY <1>1, <1>2, <1>3, <1>4, <1>5, <1>6, <1>7, <1>8, <1>9 DEF DashNext

(* Every playlist gives each of its segments the init segment its link      *)
(* names, whatever the periods of the MPD and the window of the player.     *)
THEOREM ListInvariant == DashSpec => []ListInv
<1>1. DashInit => ListInv
  BY DEF DashInit, ListInv, IsList
<1>2. MasterInv /\ MasterInv' /\ ListInv /\ [DashNext]_dashVars => ListInv'
  BY ListStep DEF MasterInv
<1> QED BY <1>1, <1>2, MasterInvariant, PTL DEF DashSpec

(* A segment of a complete playlist is played after the init segment of its *)
(* own period and representation, by EXT-X-MAP or inline, and is decrypted  *)
(* with it, on every channel where the URL of an init segment tells it.     *)
THEOREM CompleteIsDecodable ==
  DashSpec => [](OwnInits(channel) /\ PlaylistComplete => SegmentDecodable)
<1>1. ListInv => (OwnInits(channel) /\ PlaylistComplete => SegmentDecodable)
  <2> SUFFICES ASSUME ListInv, OwnInits(channel), PlaylistComplete, answer # None, ~Unexpanded
               PROVE  LET true == Origin[Skipped + answer.line]
                          init == <<true.init, true.initRange>>
                      IN  /\ shown.query.ts => answer.map = None /\ answer.body.inline \in {init, None}
                          /\ ~shown.query.ts => answer.map = init /\ answer.body.inline = None
                          /\ answer.fetched =>
                               /\ shown.query.ts => answer.body.inline = init
                               /\ shown.query.keys => answer.body.primed = init
    BY Zenon DEF SegmentDecodable
  <2> DEFINE true == Origin[Skipped + answer.line]
             init == <<true.init, true.initRange>>
             ts == shown.query.ts
             link == shown.body.lines[answer.line].link
             given == IF answer.fetched THEN InitAnswer(link) ELSE None
  <2>1. Answered /\ IsList /\ MapsRight(shown.body.lines, ts)
    BY DEF ListInv, Answered
  <2>2. InitAnswer(link) = init
    BY <2>1 DEF PlaylistComplete, Answered
  <2>3. /\ link.useMap <=> ~ts
        /\ answer.map = IF ts THEN None ELSE InitAnswer(link)
    BY <2>1, Zenon DEF MapsRight, Answered
  <2>4. /\ answer.body.inline = IF link.useMap THEN None ELSE given
        /\ answer.body.primed = IF shown.query.keys THEN given ELSE None
    <3>1. answer.body = SegmentAnswer(link, shown.query.keys, answer.fetched)
      BY <2>1 DEF Answered
    <3> DEFINE body == SegmentAnswer(link, shown.query.keys, answer.fetched)
    <3>2. body.inline = IF link.useMap THEN None ELSE given
      BY DEF SegmentAnswer
    <3>3. body.primed = IF shown.query.keys THEN given ELSE None
      BY DEF SegmentAnswer
    <3> HIDE DEF body
    <3> QED BY <3>1, <3>2, <3>3, Zenon DEF body
  <2> HIDE DEF true, init, link, ts
  <2>5. given = IF answer.fetched THEN init ELSE None
    BY <2>2
  <2> HIDE DEF given
  <2>6. /\ ts => answer.map = None /\ answer.body.inline \in {init, None}
        /\ ~ts => answer.map = init /\ answer.body.inline = None
        /\ answer.fetched => /\ ts => answer.body.inline = init
                             /\ shown.query.keys => answer.body.primed = init
    BY <2>2, <2>3, <2>4, <2>5, Zenon
  <2> QED BY <2>6 DEF true, init, ts
<1> QED BY <1>1, ListInvariant, PTL

-----------------------------------------------------------------------------
(* Media sequence numbers *)

LEMMA Distribute ==
  ASSUME NEW a \in Int, NEW b \in Int, NEW d \in Int
  PROVE  (a + b) * d = a * d + b * d
BY SMT

(* Whole steps come out of a division. *)
LEMMA DivStep ==
  ASSUME NEW a \in Nat, NEW b \in Nat, NEW d \in Nat \ {0}
  PROVE  (a + b * d) \div d = a \div d + b
<1> DEFINE q == a \div d
           r == a % d
<1>1. q \in Nat /\ r \in Nat /\ r < d /\ a = d * q + r
  BY SMT
<1> HIDE DEF q, r
<1>2. a + b * d = d * (q + b) + r
  BY <1>1, SMT
<1> QED BY <1>1, <1>2, SMT DEF q

(* Numbers that go on from each other by given steps, and that they exist. *)
Sums(f, n, base, a) == f = [k \in 1 .. n |-> IF k = 1 THEN base ELSE f[k-1] + a[k-1]]

LEMMA SumsExist ==
  ASSUME NEW n \in Nat, NEW base, NEW a
  PROVE  \E f : Sums(f, n, base, a)
<1> DEFINE S == {m \in Nat : \E f : Sums(f, m, base, a)}
<1>1. 0 \in S
  <2>1. Sums([i \in 1 .. 0 |-> 0], 0, base, a)
    BY DEF Sums
  <2> QED BY <2>1
<1>2. ASSUME NEW m \in S PROVE m + 1 \in S
  <2>1. PICK g : Sums(g, m, base, a)
    OBVIOUS
  <2> DEFINE h == [k \in 1 .. m + 1 |-> IF k = m + 1
                                        THEN IF k = 1 THEN base ELSE g[m] + a[m] ELSE g[k]]
  <2>2. m \in Nat
    OBVIOUS
  <2>3. \A k \in 1 .. m : h[k] = g[k]
    BY <2>2
  <2>4. \A k \in 1 .. m : g[k] = IF k = 1 THEN base ELSE g[k-1] + a[k-1]
    BY <2>1 DEF Sums
  <2>5. \A k \in 1 .. m + 1 : h[k] = IF k = 1 THEN base ELSE h[k-1] + a[k-1]
    <3> TAKE k \in 1 .. m + 1
    <3>1. CASE k = m + 1
      <4>1. k # 1 => h[k - 1] = g[m] /\ k - 1 = m
        BY <2>2, <2>3, <3>1
      <4> QED BY <3>1, <4>1
    <3>2. CASE k # m + 1
      <4>1. k \in 1 .. m /\ (k # 1 => k - 1 \in 1 .. m)
        BY <2>2, <3>2
      <4> QED BY <2>3, <2>4, <4>1
    <3> QED BY <3>1, <3>2
  <2> HIDE DEF h
  <2>6. h = [k \in 1 .. m + 1 |-> h[k]]
    BY DEF h
  <2>7. Sums(h, m + 1, base, a)
    BY <2>5, <2>6 DEF Sums
  <2> QED BY <2>2, <2>7
<1> HIDE DEF S
<1>3. S = Nat
  BY <1>1, <1>2, SetInduction DEF S
<1> QED BY <1>3 DEF S

(* Entries that count on by steps of d from a number and a time. *)
Counts(entries, number, time, d) ==
  /\ IsSequence(entries)
  /\ \A i \in 1 .. Len(entries) :
       /\ entries[i].number = number + (i - 1)
       /\ entries[i].time = time + (i - 1) * d
       /\ entries[i].duration = d

(* Two runs of entries, the second of which goes on from the first. *)
LEMMA CountsOn ==
  ASSUME NEW g, NEW h, NEW number \in Int, NEW time \in Int, NEW d \in Int,
         Counts(g, number, time, d), Counts(h, number + Len(g), time + Len(g) * d, d)
  PROVE  Counts(g \o h, number, time, d) /\ Len(g \o h) = Len(g) + Len(h)
<1> DEFINE c == g \o h
<1>1. IsSequence(g) /\ IsSequence(h)
  BY DEF Counts
<1>2. Len(g) \in Nat /\ Len(h) \in Nat
  BY <1>1, SequenceIs
<1>3. /\ IsSequence(c) /\ Len(c) = Len(g) + Len(h)
      /\ \A i \in 1 .. Len(c) : c[i] = IF i <= Len(g) THEN g[i] ELSE h[i - Len(g)]
  <2> DEFINE T == ToSet(g) \cup ToSet(h)
  <2>1. g \in Seq(T) /\ h \in Seq(T)
    <3>1. g \in Seq(ToSet(g)) /\ h \in Seq(ToSet(h)) /\ ToSet(g) \subseteq T /\ ToSet(h) \subseteq T
      BY <1>1 DEF IsSequence
    <3> HIDE DEF T
    <3> QED BY <3>1, SeqMonotonic
  <2> HIDE DEF T
  <2>2. /\ c \in Seq(T) /\ Len(c) = Len(g) + Len(h)
        /\ \A i \in 1 .. Len(c) : c[i] = IF i <= Len(g) THEN g[i] ELSE h[i - Len(g)]
    BY <2>1
  <2> HIDE DEF c
  <2> QED BY <2>2, SeqIn
<1> HIDE DEF c
<1>4. ASSUME NEW i \in 1 .. Len(c)
      PROVE  /\ c[i].number = number + (i - 1)
             /\ c[i].time = time + (i - 1) * d
             /\ c[i].duration = d
  <2>0. i \in Nat /\ i >= 1 /\ i <= Len(g) + Len(h)
    BY <1>2, <1>3
  <2>1. CASE i <= Len(g)
    <3>1. i \in 1 .. Len(g) /\ c[i] = g[i]
      BY <1>2, <1>3, <2>0, <2>1
    <3> QED BY <3>1 DEF Counts
  <2>2. CASE ~(i <= Len(g))
    <3> DEFINE k == i - Len(g)
    <3>1. k \in 1 .. Len(h) /\ c[i] = h[k] /\ i - 1 = Len(g) + (k - 1)
      BY <1>2, <1>3, <2>0, <2>2
    <3> HIDE DEF k
    <3>2. /\ h[k].number = number + Len(g) + (k - 1)
          /\ h[k].time = time + Len(g) * d + (k - 1) * d
          /\ h[k].duration = d
      BY <3>1 DEF Counts
    <3>3. (i - 1) * d = Len(g) * d + (k - 1) * d
      <4>1. k - 1 \in Int /\ Len(g) \in Int
        BY <1>2, <3>1
      <4> QED BY <3>1, <4>1, Distribute
    <3>4. k \in Int /\ Len(g) * d \in Int /\ (k - 1) * d \in Int /\ Len(g) \in Int
      BY <1>2, <3>1
    <3> QED BY <3>1, <3>2, <3>3, <3>4
  <2> QED BY <2>1, <2>2
<1> QED BY <1>3, <1>4 DEF Counts, c

(* The entries of a timeline whose first S element alone has a time and     *)
(* which all have one duration.                                             *)
LEMMA TimelineCounts ==
  ASSUME NEW S, IsSequence(S), S # <<>>, \A s \in ToSet(S) : s.r \in Int,
         NEW d \in Nat, NEW time \in Nat, S[1].t # None, S[1].t = time, S[1].d = d,
         \A i \in 2 .. Len(S) : S[i].t = None /\ S[i].d = d,
         NEW first \in Nat, NEW start, NEW pto
  PROVE  Counts(PreprocessTimeline(S, first, start, pto), first, time, d)
<1> DEFINE n == Len(S)
           copies == [m \in DOMAIN S |-> 1 + AtLeast(S[m].r, 0)]
           From == CHOOSE f : f = [m \in DOMAIN S |->
                     IF S[m].t # None THEN S[m].t
                     ELSE IF m = 1 THEN 0 ELSE f[m-1] + copies[m-1] * S[m-1].d]
           Number == CHOOSE f : f = [m \in DOMAIN S |->
                     IF m = 1 THEN first ELSE f[m-1] + copies[m-1]]
           Entry(m, at, k) == [number |-> Number[m] + k - 1, time |-> at, duration |-> S[m].d,
                            start |-> start + Monus(at, pto)]
           Expand(m) == [k \in 1 .. copies[m] |-> Entry(m, From[m] + (k - 1) * S[m].d, k)]
           f == [m \in DOMAIN S |-> Expand(m)]
<1>1. PreprocessTimeline(S, first, start, pto) = FlattenSeq(f)
  BY DEF PreprocessTimeline
<1>2. /\ n \in Nat /\ n # 0 /\ DOMAIN S = 1 .. n
      /\ \A m \in 1 .. n : copies[m] \in Nat /\ S[m].d = d
  <2>1. n \in Nat /\ DOMAIN S = 1 .. n /\ \A m \in 1 .. n : S[m].r \in Int
    BY PlacesOf
  <2>2. n # 0
    BY EmptySeq DEF IsSequence
  <2>3. \A m \in 1 .. n : S[m].d = d
    <3> TAKE m \in 1 .. n
    <3>1. m = 1 \/ m \in 2 .. Len(S)
      BY <2>1
    <3> QED BY <3>1
  <2>4. \A m \in 1 .. n : copies[m] \in Nat
    BY <2>1 DEF AtLeast
  <2> QED BY <2>1, <2>2, <2>3, <2>4
<1> HIDE DEF copies
<1>3. Number = [m \in 1 .. n |-> IF m = 1 THEN first ELSE Number[m-1] + copies[m-1]]
  <2>2. Number = CHOOSE g : Sums(g, n, first, copies)
    BY <1>2 DEF Sums
  <2> HIDE DEF Number, n
  <2>1. \E g : Sums(g, n, first, copies)
    BY <1>2, SumsExist
  <2>3. Sums(Number, n, first, copies)
    BY <2>1, <2>2
  <2> QED BY <2>3 DEF Sums
<1>4. From = [m \in 1 .. n |-> IF m = 1 THEN time ELSE From[m-1] + copies[m-1] * d]
  <2> DEFINE F(g) == g = [m \in DOMAIN S |->
                     IF S[m].t # None THEN S[m].t
                     ELSE IF m = 1 THEN 0 ELSE g[m-1] + copies[m-1] * S[m-1].d]
             a == [m \in 1 .. n |-> copies[m] * d]
             G(g) == Sums(g, n, time, a)
  <2>1. \E g : G(g)
    <3> HIDE DEF n, a
    <3> QED BY <1>2, SumsExist
  <2>2. ASSUME NEW g PROVE F(g) <=> g = [m \in 1 .. n |-> IF m = 1 THEN time ELSE g[m-1] + copies[m-1] * d]
    <3>1. ASSUME NEW m \in 1 .. n
          PROVE  (IF S[m].t # None THEN S[m].t
                  ELSE IF m = 1 THEN 0 ELSE g[m-1] + copies[m-1] * S[m-1].d)
                 = IF m = 1 THEN time ELSE g[m-1] + copies[m-1] * d
      <4>1. CASE m = 1
        BY <4>1
      <4>2. CASE m # 1
        <5>1. m \in 2 .. Len(S) /\ m - 1 \in 1 .. n
          BY <1>2, <4>2
        <5> QED BY <1>2, <4>2, <5>1
      <4> QED BY <4>1, <4>2
    <3> QED BY <1>2, <3>1
  <2>3. ASSUME NEW g PROVE G(g) <=> g = [m \in 1 .. n |-> IF m = 1 THEN time ELSE g[m-1] + copies[m-1] * d]
    <3>1. \A m \in 1 .. n : m # 1 => a[m - 1] = copies[m - 1] * d
      BY <1>2
    <3> HIDE DEF a
    <3> QED BY <3>1 DEF Sums
  <2>4. \E g : F(g)
    BY <2>1, <2>2, <2>3
  <2>5. From = CHOOSE g : F(g)
    OBVIOUS
  <2> HIDE DEF F, From
  <2>6. F(From)
    BY <2>4, <2>5
  <2> QED BY <2>2, <2>6
<1> HIDE DEF From, Number
<1>5. \A m \in 1 .. n : Number[m] = IF m = 1 THEN first ELSE Number[m-1] + copies[m-1]
  BY <1>3
<1>6. \A m \in 1 .. n : From[m] = IF m = 1 THEN time ELSE From[m-1] + copies[m-1] * d
  BY <1>4
<1>7. ASSUME NEW m \in 1 .. n, Number[m] \in Int, From[m] \in Int
      PROVE  Counts(f[m], Number[m], From[m], d) /\ Len(f[m]) = copies[m]
  <2>1. f[m] = [k \in 1 .. copies[m] |-> Entry(m, From[m] + (k - 1) * d, k)]
    BY <1>2
  <2>2. copies[m] \in Nat
    BY <1>2
  <2> DEFINE e == f[m]
  <2> HIDE DEF e, f, Entry
  <2>3. e = [k \in 1 .. copies[m] |-> e[k]]
    BY <2>1 DEF e
  <2>4. \A k \in 1 .. copies[m] : e[k] = [number |-> Number[m] + k - 1, time |-> From[m] + (k - 1) * d,
                                          duration |-> d, start |-> start + Monus(From[m] + (k - 1) * d, pto)]
    BY <1>2, <2>1 DEF e, Entry
  <2>5. IsSequence(e) /\ Len(e) = copies[m]
    BY <2>2, <2>3, PlacesMake
  <2>6. \A k \in 1 .. copies[m] : /\ e[k].number = Number[m] + (k - 1)
                                  /\ e[k].time = From[m] + (k - 1) * d
                                  /\ e[k].duration = d
    <3> TAKE k \in 1 .. copies[m]
    <3>1. k \in Nat /\ Number[m] + k - 1 = Number[m] + (k - 1)
      BY <1>7, <2>2
    <3> DEFINE at == From[m] + (k - 1) * d
               from == start + Monus(at, pto)
    <3>2. e[k] = [number |-> Number[m] + k - 1, time |-> at, duration |-> d, start |-> from]
      BY <2>4
    <3> HIDE DEF at, from
    <3>3. e[k].number = Number[m] + k - 1 /\ e[k].time = at /\ e[k].duration = d
      BY <3>2
    <3> QED BY <3>1, <3>3 DEF at
  <2> QED BY <2>5, <2>6 DEF Counts, e
<1>8. PICK g : Joins(g, f, n)
  BY <1>2, JoinsExist
<1> HIDE DEF f, n
<1>9. \A m \in 1 .. n : g[m] = IF m = 1 THEN f[m] ELSE g[m-1] \o f[m]
  <2> TAKE m \in 1 .. n
  <2> QED BY <1>2, <1>8, JoinsAt
<1> DEFINE P(m) == /\ Counts(g[m], first, time, d)
                   /\ Number[m] \in Int /\ From[m] \in Int
                   /\ Number[m] + copies[m] = first + Len(g[m])
                   /\ From[m] + copies[m] * d = time + Len(g[m]) * d
           W == {m \in Nat : m + 1 \in 1 .. n => P(m + 1)}
<1>10. 0 \in W
  <2>1. 1 \in 1 .. n
    BY <1>2
  <2>2. Number[1] = first /\ From[1] = time /\ g[1] = f[1]
    BY <1>5, <1>6, <1>9, <2>1
  <2>3. Counts(f[1], first, time, d) /\ Len(f[1]) = copies[1]
    BY <1>7, <2>1, <2>2
  <2>4. P(1)
    BY <2>2, <2>3
  <2> HIDE DEF P
  <2> QED BY <2>4
<1>11. ASSUME NEW m \in W PROVE m + 1 \in W
  <2> SUFFICES ASSUME (m + 1) + 1 \in 1 .. n PROVE P((m + 1) + 1)
    OBVIOUS
  <2> DEFINE k == m + 1
             l == (m + 1) + 1
  <2>1. k \in 1 .. n /\ l \in 1 .. n /\ l # 1 /\ l - 1 = k
    BY <1>2, SMTT(20)
  <2>2. P(k)
    BY <2>1
  <2> HIDE DEF k, l
  <2>3. Number[l] = Number[k] + copies[k] /\ From[l] = From[k] + copies[k] * d /\ g[l] = g[k] \o f[l]
    BY <1>5, <1>6, <1>9, <2>1
  <2>4. copies[k] \in Nat /\ copies[l] \in Nat /\ copies[k] * d \in Nat
    <3>1. copies[k] \in Nat /\ copies[l] \in Nat
      BY <1>2, <2>1
    <3> QED BY <3>1
  <2>5. Number[l] \in Int /\ From[l] \in Int
    BY <2>2, <2>3, <2>4, SMTT(20)
  <2>6. Counts(f[l], Number[l], From[l], d) /\ Len(f[l]) = copies[l]
    BY <1>7, <2>1, <2>5
  <2>7. Number[l] = first + Len(g[k]) /\ From[l] = time + Len(g[k]) * d
    BY <2>2, <2>3
  <2>8. Counts(g[k] \o f[l], first, time, d) /\ Len(g[k] \o f[l]) = Len(g[k]) + copies[l]
    <3>1. Counts(f[l], first + Len(g[k]), time + Len(g[k]) * d, d) /\ Counts(g[k], first, time, d)
      BY <2>2, <2>6, <2>7
    <3>2. first \in Int /\ time \in Int /\ d \in Int
      OBVIOUS
    <3>3. /\ Counts(g[k] \o f[l], first, time, d)
          /\ Len(g[k] \o f[l]) = Len(g[k]) + Len(f[l])
      BY <3>1, <3>2, CountsOn, Zenon
    <3> QED BY <2>6, <3>3
  <2>9. Len(g[k]) \in Nat
    BY <2>2, SequenceIs DEF Counts
  <2>10. Number[l] + copies[l] = first + Len(g[l])
    BY <2>3, <2>4, <2>7, <2>8, <2>9
  <2>11. From[l] + copies[l] * d = time + Len(g[l]) * d
    <3>1. Len(g[l]) * d = Len(g[k]) * d + copies[l] * d
      BY <2>3, <2>4, <2>8, <2>9, Distribute
    <3>2. Len(g[k]) * d \in Int /\ copies[l] * d \in Int
      BY <2>4, <2>9
    <3> QED BY <2>7, <3>1, <3>2
  <2> QED BY <2>3, <2>5, <2>8, <2>10, <2>11 DEF l
<1> HIDE DEF W, P
<1>12. W = Nat
  BY <1>10, <1>11, SetInduction DEF W
<1>13. n - 1 \in Nat /\ (n - 1) + 1 = n /\ n \in 1 .. n
  BY <1>2
<1>14. P(n)
  BY <1>12, <1>13 DEF W
<1>15. FlattenSeq(f) = g[n]
  <2>1. Len(f) = n
    BY <1>2 DEF f, n
  <2> QED BY <1>2, <1>8, <2>1, FlattenIs
<1> QED BY <1>1, <1>14, <1>15 DEF P

(* The name of the segment of a countable representation with this number. *)
NameAt(rep, n) ==
  MediaName(rep, [number |-> n, time |-> Count(rep).time + (n - Count(rep).number) * Count(rep).d])

(* Segments that are counted as the representation's, from the k-th on. *)
CountedFrom(segments, rep, k) ==
  /\ IsSequence(segments)
  /\ \A i \in 1 .. Len(segments) :
       LET s == segments[i]
           n == Count(rep).number + (k + (i - 1))
       IN  /\ s.time = Count(rep).time + (k + (i - 1)) * Count(rep).d
           /\ rep.number # None => s.number = n
           /\ s.media = NameAt(rep, n)
           /\ s.extinf = Count(rep).d /\ s.range = None /\ s.index = None

(* A step is a whole number of times positive, and so is the first time. *)
LEMMA CountIs ==
  ASSUME NEW rep, Countable(rep)
  PROVE  /\ Count(rep).number \in Nat /\ Count(rep).time \in Nat /\ Count(rep).d \in Nat \ {0}
         /\ Count(rep).number >= 1
         /\ rep.number # None => Count(rep).number = rep.number
         /\ rep.number = None => /\ Count(rep).number = Count(rep).time \div Count(rep).d
                                 /\ Count(rep).time >= Count(rep).d /\ rep.naming = "time"
         /\ rep.form = "duration" => Count(rep).time = rep.pto /\ Count(rep).d = rep.d
         /\ rep.form = "timeline" => Count(rep).time = rep.S[1].t /\ Count(rep).d = rep.S[1].d
<1>1. CASE rep.form = "duration"
  <2>1. Count(rep) = [number |-> rep.number, time |-> rep.pto, d |-> rep.d]
    BY <1>1 DEF Count
  <2> QED BY <1>1, <2>1 DEF Countable
<1>2. CASE rep.form = "timeline"
  <2> DEFINE t == rep.S[1].t
             d == rep.S[1].d
  <2>1. Count(rep) = [number |-> IF rep.number = None THEN t \div d ELSE rep.number, time |-> t, d |-> d]
    BY <1>2 DEF Count
  <2>2. /\ t \in Nat /\ d \in Nat \ {0}
        /\ rep.number = None => rep.naming = "time" /\ t >= d
        /\ rep.number # None => rep.number \in Nat \ {0}
    BY <1>2 DEF Countable
  <2> HIDE DEF t, d
  <2>3. t >= d => t \div d \in Nat /\ t \div d >= 1
    BY <2>2, SMT
  <2>4. /\ Count(rep).time = t /\ Count(rep).d = d
        /\ Count(rep).number = IF rep.number = None THEN t \div d ELSE rep.number
    BY <2>1
  <2>5. Count(rep).number \in Nat /\ Count(rep).number >= 1
    BY <2>2, <2>3, <2>4
  <2> QED BY <1>2, <2>2, <2>4, <2>5 DEF t, d
<1> QED BY <1>1, <1>2 DEF Countable

(* Segments made of entries that count on. *)
LEMMA CountedEntries ==
  ASSUME NEW rep, Countable(rep), NEW entries, NEW number \in Int, NEW k \in Nat,
         Counts(entries, number, Count(rep).time + k * Count(rep).d, Count(rep).d),
         rep.number # None => number = Count(rep).number + k
  PROVE  CountedFrom([i \in DOMAIN entries |-> EntryToSegment(rep, entries[i])], rep, k)
<1> DEFINE c == Count(rep)
           d == c.d
           made == [i \in DOMAIN entries |-> EntryToSegment(rep, entries[i])]
<1>1. /\ c.number \in Nat /\ c.time \in Nat /\ d \in Nat
      /\ rep.number = None => rep.naming = "time"
  BY CountIs
<1>2. IsSequence(entries)
  BY DEF Counts
<1>3. Len(entries) \in Nat /\ DOMAIN entries = 1 .. Len(entries)
  BY <1>2, SequenceIs
<1>4. made = [i \in 1 .. Len(entries) |-> made[i]]
      /\ \A i \in 1 .. Len(entries) : made[i] = EntryToSegment(rep, entries[i])
  BY <1>3
<1> HIDE DEF made
<1>5. IsSequence(made) /\ Len(made) = Len(entries)
  BY <1>3, <1>4, PlacesMake
<1>6. ASSUME NEW i \in 1 .. Len(made)
      PROVE  LET s == made[i]
                 n == c.number + (k + (i - 1))
             IN  /\ s.time = c.time + (k + (i - 1)) * d
                 /\ rep.number # None => s.number = n
                 /\ s.media = NameAt(rep, n)
                 /\ s.extinf = d /\ s.range = None /\ s.index = None
  <2> DEFINE e == entries[i]
             n == c.number + (k + (i - 1))
  <2>1. i \in 1 .. Len(entries) /\ i - 1 \in Int
    BY <1>3, <1>5
  <2>2. /\ e.number = number + (i - 1) /\ e.duration = d
        /\ e.time = c.time + k * d + (i - 1) * d
    BY <2>1 DEF Counts
  <2>3. e.time = c.time + (k + (i - 1)) * d
    <3>1. (k + (i - 1)) * d = k * d + (i - 1) * d
      BY <1>1, <2>1, Distribute
    <3> DEFINE u == k * d
               v == (i - 1) * d
               w == (k + (i - 1)) * d
    <3>2. u \in Int /\ v \in Int /\ w = u + v
      BY <1>1, <2>1, <3>1
    <3>3. e.time = c.time + u + v /\ c.time \in Int
      BY <1>1, <2>2
    <3> HIDE DEF u, v, w, c, d, e
    <3>4. e.time = c.time + w
      BY <3>2, <3>3
    <3> QED BY <3>4 DEF w
  <2>4. rep.number # None => e.number = n
    <3> SUFFICES ASSUME rep.number # None PROVE e.number = n
      OBVIOUS
    <3>1. number = c.number + k /\ e.number = number + (i - 1)
      BY <2>2
    <3> HIDE DEF c, e
    <3> QED BY <1>1, <2>1, <3>1
  <2>5. n - c.number = k + (i - 1)
    BY <1>1, <2>1
  <2>6. made[i] = EntryToSegment(rep, e)
    BY <1>4, <2>1
  <2> HIDE DEF e
  <2>7. /\ made[i].time = e.time /\ made[i].number = e.number /\ made[i].media = MediaName(rep, e)
        /\ made[i].extinf = e.duration /\ made[i].range = None /\ made[i].index = None
    BY <2>6 DEF EntryToSegment
  <2> HIDE DEF n
  <2>8. MediaName(rep, e) = NameAt(rep, n)
    <3> DEFINE x == [number |-> n, time |-> c.time + (n - c.number) * d]
    <3>1. NameAt(rep, n) = MediaName(rep, x)
      BY DEF NameAt
    <3>2. x.number = n /\ x.time = e.time
      BY <2>3, <2>5
    <3>3. rep.naming = "number" => x.number = e.number
      BY <1>1, <2>4, <3>2
    <3> HIDE DEF x
    <3>4. MediaName(rep, x) = MediaName(rep, e)
      BY <3>2, <3>3 DEF MediaName
    <3> QED BY <3>1, <3>4
  <2> QED BY <2>2, <2>3, <2>4, <2>7, <2>8 DEF n
<1> QED BY <1>5, <1>6 DEF CountedFrom, made

(* The segments of a countable representation are counted, from the first  *)
(* in the window on.                                                        *)
LEMMA CountedIs ==
  ASSUME NEW doc, doc.live, doc.avail \in Int, doc.depth \in Nat,
         NEW period, period.start \in Int, NEW rep, Countable(rep), Typed(rep), NEW now \in Int
  PROVE  \E k \in Nat : CountedFrom(GenerateSegments(doc, period, rep, now), rep, k)
<1> DEFINE avail == doc.avail + period.start
           number == IF rep.number = None THEN 1 ELSE rep.number
           c == Count(rep)
           live == LiveEntries(avail, doc.depth, rep.d, number, rep.pto, now)
           line == PreprocessTimeline(rep.S, number, avail, rep.pto)
           segs == GenerateSegments(doc, period, rep, now)
<1>1. /\ c.number \in Nat /\ c.time \in Nat /\ c.d \in Nat \ {0} /\ c.number >= 1
      /\ rep.number # None => c.number = rep.number
  BY CountIs
<1>2. CASE rep.form = "timeline"
  <2>1. segs = [i \in DOMAIN line |-> EntryToSegment(rep, line[i])]
    BY <1>2 DEF GenerateSegments, FromTemplate
  <2>2. /\ rep.S # <<>> /\ rep.S[1].t # None /\ rep.S[1].t \in Nat /\ rep.S[1].d \in Nat
        /\ \A i \in 2 .. Len(rep.S) : rep.S[i].t = None /\ rep.S[i].d = rep.S[1].d
        /\ c.time = rep.S[1].t /\ c.d = rep.S[1].d
    BY <1>2, CountIs DEF Countable
  <2>3. number \in Nat
    BY <1>1
  <2>4. IsSequence(rep.S) /\ \A s \in ToSet(rep.S) : s.r \in Int
    BY DEF Typed
  <2> HIDE DEF number, segs, avail
  <2>5. Counts(line, number, c.time, c.d)
    BY <2>2, <2>3, <2>4, TimelineCounts
  <2> HIDE DEF line
  <2>6. c.time + 0 * c.d = c.time /\ 0 \in Nat
    BY <1>1
  <2>7. Counts(line, number, c.time + 0 * c.d, c.d)
    BY <2>5, <2>6
  <2>8. rep.number # None => number = c.number + 0
    BY <1>1 DEF number
  <2>9. CountedFrom(segs, rep, 0)
    BY <2>1, <2>3, <2>6, <2>7, <2>8, CountedEntries
  <2> QED BY <2>6, <2>9 DEF segs
<1>3. CASE rep.form = "duration"
  <2>1. /\ rep.number # None /\ rep.number \in Nat /\ rep.number >= 1
        /\ rep.d \in Nat /\ rep.d # 0 /\ rep.pto \in Nat
        /\ c.time = rep.pto /\ c.d = rep.d /\ c.number = rep.number
    BY <1>3, CountIs DEF Countable
  <2>2. segs = [i \in DOMAIN live |-> EntryToSegment(rep, live[i])]
    BY <1>3, <2>1 DEF GenerateSegments, FromTemplate
  <2>3. number = rep.number
    BY <2>1
  <2> HIDE DEF segs, number
  <2> DEFINE count == CeilDiv(doc.depth, rep.d)
             elapsed == AtLeast(now - avail, 0) \div rep.d
             earliest == AtLeast(Monus(number + elapsed, count), number)
             k == earliest - number
  <2>4. count \in Nat
    <3>1. doc.depth + rep.d - 1 \in Nat /\ rep.d > 0
      BY <2>1
    <3> QED BY <2>1, <3>1 DEF CeilDiv
  <2>5. elapsed \in Nat
    <3>1. avail \in Int /\ AtLeast(now - avail, 0) \in Nat
      BY DEF AtLeast
    <3> QED BY <2>1, <3>1
  <2>6. live = [i \in 1 .. count |->
                  [number |-> number + (earliest + i - 1 - number),
                   time |-> rep.pto + (earliest + i - 1 - number) * rep.d, duration |-> rep.d,
                   start |-> avail + (earliest + i - 1 - number) * rep.d]]
    BY DEF LiveEntries
  <2> HIDE DEF live, avail, elapsed, count
  <2>7. earliest \in Nat /\ earliest >= number /\ k \in Nat
    BY <2>1, <2>3, <2>4, <2>5 DEF AtLeast, Monus
  <2> HIDE DEF earliest
  <2>8. ASSUME NEW i \in 1 .. count
        PROVE  /\ live[i].number = earliest + (i - 1)
               /\ live[i].time = (rep.pto + k * rep.d) + (i - 1) * rep.d
               /\ live[i].duration = rep.d
    <3> DEFINE j == earliest + i - 1 - number
    <3>1. i \in Nat /\ j = k + (i - 1) /\ number + j = earliest + (i - 1)
      BY <2>1, <2>3, <2>4, <2>7
    <3>2. live[i].number = number + j /\ live[i].time = rep.pto + j * rep.d /\ live[i].duration = rep.d
      BY <2>6
    <3> HIDE DEF j
    <3>3. i - 1 \in Int /\ k \in Int /\ rep.d \in Int
      BY <2>1, <2>7, <3>1
    <3> HIDE DEF k
    <3>4. j * rep.d = k * rep.d + (i - 1) * rep.d
      BY <3>1, <3>3, Distribute
    <3>5. k * rep.d \in Int /\ (i - 1) * rep.d \in Int
      BY <3>3
    <3> QED BY <2>1, <3>1, <3>2, <3>4, <3>5
  <2>9. live = [i \in 1 .. count |-> live[i]]
    BY <2>6
  <2>10. IsSequence(live) /\ Len(live) = count
    BY <2>4, <2>9, PlacesMake
  <2>11. Counts(live, earliest, c.time + k * c.d, c.d)
    BY <2>1, <2>8, <2>10 DEF Counts
  <2>12. rep.number # None => earliest = c.number + k
    BY <2>1, <2>3, <2>7
  <2> HIDE DEF k
  <2>13. earliest \in Int
    BY <2>7
  <2>14. CountedFrom(segs, rep, k)
    BY <2>2, <2>7, <2>11, <2>12, <2>13, CountedEntries
  <2> QED BY <2>7, <2>14 DEF segs
<1> QED BY <1>2, <1>3 DEF Countable

(* Durations that are all the same have it in their middle. *)
LEMMA MedianSame ==
  ASSUME NEW timed, IsSequence(timed), timed # <<>>, NEW d \in Nat \ {0},
         \A x \in ToSet(timed) : x.extinf = d
  PROVE  Median(timed) = d
<1> DEFINE T == ToSet(timed)
           sorted == SortDown(timed, "extinf")
           k == Len(timed) - Len(timed) \div 2
<1>1. timed \in Seq(T) /\ \A x \in T : x["extinf"] \in Nat
  BY DEF IsSequence
<1>2. Len(timed) \in Nat /\ Len(timed) # 0
  <2> HIDE DEF T
  <2> QED BY <1>1, EmptySeq
<1> HIDE DEF T
<1>3. sorted \in Seq(T) /\ Len(sorted) = Len(timed)
  BY <1>1, SortDownIs
<1> HIDE DEF sorted
<1>4. k \in 1 .. Len(timed)
  <2> DEFINE n == Len(timed)
             h == n \div 2
  <2>1. n \in Nat /\ n # 0
    BY <1>2
  <2> HIDE DEF n
  <2>2. h \in Nat /\ h < n
    BY <2>1
  <2> HIDE DEF h
  <2>3. n - h \in 1 .. n
    BY <2>1, <2>2
  <2> QED BY <2>3 DEF n, h
<1> HIDE DEF k
<1>5. sorted[k] \in T
  BY <1>3, <1>4
<1> QED BY <1>5 DEF Median, sorted, k, T

(* The sequence number of a playlist is that of its first segment. *)
LEMMA SequenceAt ==
  ASSUME NEW profile, NEW rep, Countable(rep), NEW k \in Nat,
         CountedFrom(profile.segments, rep, k), profile.explicit <=> rep.number # None,
         NEW i \in 1 .. Len(profile.segments)
  PROVE  MediaSequence(profile.segments[i], profile) = Count(rep).number + (k + (i - 1))
<1> DEFINE segs == profile.segments
           first == segs[i]
           c == Count(rep)
           n == c.number + (k + (i - 1))
           nominal == NominalDuration(segs)
<1>1. /\ c.number \in Nat /\ c.time \in Nat /\ c.d \in Nat \ {0} /\ c.number >= 1
      /\ rep.number = None => c.number = c.time \div c.d /\ c.time >= c.d
  BY CountIs
<1>2. IsSequence(segs)
  BY DEF CountedFrom
<1>3. Len(segs) \in Nat /\ DOMAIN segs = 1 .. Len(segs) /\ i \in Nat /\ i >= 1
  BY <1>2, SequenceIs
<1>4. /\ first.time = c.time + (k + (i - 1)) * c.d
      /\ rep.number # None => first.number = n
  BY DEF CountedFrom
<1>5. MediaSequence(first, profile) =
        IF profile.explicit \/ first.time = 0 \/ nominal = 0
        THEN AtLeast(first.number, 1) ELSE AtLeast(first.time \div nominal, 1)
  BY DEF MediaSequence
<1>6. n \in Nat /\ n >= 1
  BY <1>1, <1>3
<1>7. CASE rep.number # None
  <2>1. MediaSequence(first, profile) = AtLeast(first.number, 1)
    BY <1>5, <1>7, Zenon
  <2> QED BY <1>4, <1>6, <1>7, <2>1 DEF AtLeast
<1>8. CASE rep.number = None
  <2>1. nominal = c.d
    <3> DEFINE S == {j \in DOMAIN segs : segs[j].extinf \in Nat \ {0}}
               timed == Timed(segs)
    <3>1. \A j \in 1 .. Len(segs) : segs[j].extinf = c.d
      BY DEF CountedFrom
    <3>2. timed = Filtered(segs, S) /\ S \in SUBSET (DOMAIN segs)
      BY DEF Timed
    <3>3. i \in S /\ \A j \in S : segs[j].extinf = c.d
      BY <1>1, <1>3, <3>1
    <3>4. nominal = IF timed = <<>> THEN 0 ELSE Median(timed)
      BY DEF NominalDuration
    <3> HIDE DEF segs, S, timed
    <3>5. /\ IsSequence(timed)
          /\ \A x \in ToSet(timed) : \E j \in S : x = segs[j]
      BY <1>2, <3>2, FilteredSeq
    <3>6. timed # <<>>
      <4> DEFINE T == ToSet(segs)
      <4>1. segs \in Seq(T)
        BY <1>2 DEF IsSequence
      <4> HIDE DEF T
      <4>2. ToSet(timed) = {segs[j] : j \in S}
        BY <3>2, <4>1, FilteredHolds
      <4>3. ToSet(timed) # {}
        BY <3>3, <4>2
      <4> QED BY <4>3 DEF ToSet
    <3>7. \A x \in ToSet(timed) : x.extinf = c.d
      BY <3>3, <3>5
    <3>8. Median(timed) = c.d
      BY <1>1, <3>5, <3>6, <3>7, MedianSame
    <3> QED BY <3>4, <3>6, <3>8
  <2>2. k + (i - 1) \in Nat /\ (k + (i - 1)) * c.d \in Nat
    BY <1>1, <1>3
  <2>3. first.time \div c.d = n
    <3> DEFINE b == k + (i - 1)
    <3>1. b \in Nat /\ first.time = c.time + b * c.d /\ n = c.number + b
      BY <1>4, <2>2
    <3>2. c.time \in Nat /\ c.d \in Nat \ {0} /\ c.number = c.time \div c.d
      BY <1>1, <1>8
    <3> HIDE DEF b, first, n, c
    <3>3. (c.time + b * c.d) \div c.d = c.time \div c.d + b
      BY <3>1, <3>2, DivStep
    <3> QED BY <3>1, <3>2, <3>3
  <2>4. first.time # 0 /\ first.time \in Nat
    BY <1>1, <1>4, <1>8, <2>2
  <2> HIDE DEF first, nominal, n
  <2>5. MediaSequence(first, profile) = AtLeast(first.time \div nominal, 1)
    BY <1>1, <1>5, <1>8, <2>1, <2>4, Zenon
  <2>6. MediaSequence(first, profile) = AtLeast(n, 1)
    BY <2>1, <2>3, <2>5
  <2> QED BY <1>6, <2>6 DEF AtLeast, first, n
<1> QED BY <1>7, <1>8

(* One sequence joined with no other. *)
LEMMA FlattenOne ==
  ASSUME NEW s, s = [i \in 1 .. 1 |-> s[i]]
  PROVE  FlattenSeq(s) = s[1]
<1>1. Len(s) = 1
  BY PlacesMake
<1>2. PICK g : Joins(g, s, 1)
  BY JoinsExist
<1>3. g[1] = s[1]
  <2>1. 1 \in 1 .. 1 /\ 1 \in Nat
    OBVIOUS
  <2>2. g[1] = IF 1 = 1 THEN s[1] ELSE g[1-1] \o s[1]
    BY <1>2, <2>1, JoinsAt
  <2> QED BY <2>2
<1> QED BY <1>1, <1>2, <1>3, FlattenIs

(* A filter that fits one place at most leaves one element or none. *)
LEMMA OneOf ==
  ASSUME NEW s, IsSequence(s), NEW S \in SUBSET (DOMAIN s), \A i, j \in S : i = j,
         Filtered(s, S) # <<>>
  PROVE  Len(Filtered(s, S)) = 1 /\ \E i \in S : Filtered(s, S)[1] = s[i]
<1> DEFINE T == ToSet(s)
           f == Filtered(s, S)
<1>1. s \in Seq(T)
  BY DEF IsSequence
<1> HIDE DEF T
<1>2. f \in Seq(T) /\ \E o : Picks(o, f, s, S)
  BY <1>1, FilteredIs
<1>3. PICK o : Picks(o, f, s, S)
  BY <1>2
<1> HIDE DEF f
<1>4. Len(f) \in Nat /\ Len(f) # 0
  BY <1>2, EmptySeq DEF f
<1>5. \A k \in 1 .. Len(f) : o[k] \in S /\ f[k] = s[o[k]]
  BY <1>3 DEF Picks
<1>6. 1 \in 1 .. Len(f)
  BY <1>4
<1>7. \A k, l \in 1 .. Len(f) : ~(k < l)
  <2> SUFFICES ASSUME NEW k \in 1 .. Len(f), NEW l \in 1 .. Len(f), k < l PROVE FALSE
    OBVIOUS
  <2>1. o[k] < o[l] /\ o[k] = o[l]
    BY <1>3, <1>5 DEF Picks
  <2>2. o[k] \in Nat
    <3>1. DOMAIN s \in SUBSET Nat
      BY <1>1
    <3> QED BY <1>5, <3>1
  <2> QED BY <2>1, <2>2
<1>8. Len(f) = 1
  <2> SUFFICES ASSUME Len(f) # 1 PROVE FALSE
    OBVIOUS
  <2> DEFINE n == Len(f)
  <2>1. n \in Nat /\ n # 0 /\ n # 1
    BY <1>4
  <2>2. \A k, l \in 1 .. n : ~(k < l)
    BY <1>7
  <2> HIDE DEF n
  <2>3. 1 \in 1 .. n /\ 2 \in 1 .. n
    BY <2>1
  <2> QED BY <2>2, <2>3
<1> QED BY <1>5, <1>6, <1>8 DEF f

(* The profiles of a live MPD have an id each. *)
LEMMA LiveIds ==
  ASSUME NEW c \in Channel, NEW t \in 0 .. MaxTime, Publish(c, t).live, Steady(c), NEW wanted, NEW now
  PROVE  /\ IsSequence(ParseMpd(Publish(c, t), wanted, now))
         /\ \A i, j \in DOMAIN ParseMpd(Publish(c, t), wanted, now) :
              ParseMpd(Publish(c, t), wanted, now)[i].id = ParseMpd(Publish(c, t), wanted, now)[j].id => i = j
<1> DEFINE doc == Publish(c, t)
           period == doc.periods[1]
           reps == period.reps
           S == {i \in DOMAIN reps : reps[i].kind \in {"video", "audio"}}
           played == Filtered(reps, S)
           Out(p) == LET kept == Filtered(doc.periods[p].reps, {i \in DOMAIN doc.periods[p].reps :
                                           doc.periods[p].reps[i].kind \in {"video", "audio"}})
                     IN  [i \in DOMAIN kept |-> Profile(doc, doc.periods[p], kept[i], wanted, now)]
           s == [p \in DOMAIN doc.periods |-> Out(p)]
           profiles == ParseMpd(doc, wanted, now)
           made == [i \in DOMAIN played |-> Profile(doc, period, played[i], wanted, now)]
<1>1. profiles = FlattenSeq(s)
  BY DEF ParseMpd
<1>2. /\ Len(doc.periods) = 1
      /\ \A i, j \in DOMAIN reps : IdOf(reps[i]) = IdOf(reps[j]) => i = j
  BY DEF Steady, Counted
<1>3. DOMAIN doc.periods = 1 .. 1 /\ IsSequence(reps)
  <2>1. doc.periods \in Seq(ToSet(doc.periods)) /\ \A x \in ToSet(doc.periods) : x.reps \in Seq(ToSet(x.reps))
    BY DashDocuments
  <2>2. IsSequence(doc.periods)
    BY <2>1 DEF IsSequence
  <2> HIDE DEF doc
  <2>3. DOMAIN doc.periods = 1 .. 1 /\ period \in ToSet(doc.periods)
    <3>1. 1 \in 1 .. Len(doc.periods)
      BY <1>2
    <3> QED BY <1>2, <2>2, <3>1, SequenceIs
  <2>4. reps \in Seq(ToSet(reps))
    BY <2>1, <2>3
  <2> QED BY <2>3, <2>4 DEF IsSequence
<1>4. s = [p \in 1 .. 1 |-> s[p]] /\ s[1] = Out(1)
  BY <1>3
<1>5. Out(1) = made
  OBVIOUS
<1> HIDE DEF Out, s
<1>6. profiles = made
  BY <1>1, <1>4, <1>5, FlattenOne
<1>7. S \in SUBSET (DOMAIN reps)
  OBVIOUS
<1> HIDE DEF profiles, S
<1> DEFINE T == ToSet(reps)
<1>8. reps \in Seq(T)
  BY <1>3 DEF IsSequence
<1> HIDE DEF reps, T, doc
<1>9. played \in Seq(T) /\ \E o : Picks(o, played, reps, S)
  BY <1>7, <1>8, FilteredIs
<1>10. PICK o : Picks(o, played, reps, S)
  BY <1>9
<1> HIDE DEF played
<1>11. Len(played) \in Nat /\ DOMAIN played = 1 .. Len(played)
  BY <1>9
<1>12. \A i : Profile(doc, period, played[i], wanted, now).id = IdOf(played[i])
  BY DEF Profile, IdOf
<1>13. made = [i \in 1 .. Len(played) |-> made[i]] /\ \A i \in 1 .. Len(played) : made[i].id = IdOf(played[i])
  BY <1>11, <1>12
<1> HIDE DEF made
<1>14. IsSequence(made) /\ DOMAIN made = 1 .. Len(played)
  BY <1>11, <1>13, PlacesMake
<1>15. ASSUME NEW i \in 1 .. Len(played), NEW j \in 1 .. Len(played), made[i].id = made[j].id PROVE i = j
  <2>1. o[i] \in S /\ o[j] \in S /\ played[i] = reps[o[i]] /\ played[j] = reps[o[j]]
    BY <1>10 DEF Picks
  <2>2. o[i] \in DOMAIN reps /\ o[j] \in DOMAIN reps
    BY <1>7, <2>1
  <2>3. o[i] = o[j]
    BY <1>2, <1>13, <1>15, <2>1, <2>2
  <2>4. o[i] \in Nat
    BY <1>8, <2>2
  <2>5. (i < j => o[i] < o[j]) /\ (j < i => o[j] < o[i])
    BY <1>10 DEF Picks
  <2>6. i \in Nat /\ j \in Nat
    BY <1>11
  <2> QED BY <2>3, <2>4, <2>5, <2>6
<1>16. /\ IsSequence(profiles)
       /\ \A i, j \in DOMAIN profiles : profiles[i].id = profiles[j].id => i = j
  BY <1>6, <1>14, <1>15
<1> QED BY <1>16 DEF profiles, doc

(* The segments of the profile that is asked for count on. *)
LEMMA LiveProfile ==
  ASSUME NEW c \in Channel, NEW t \in 0 .. MaxTime, Publish(c, t).live, Steady(c), NEW wanted, wanted # None,
         NEW now \in Int, NEW p \in ProfilesOf(Publish(c, t), wanted, now), p.id = wanted
  PROVE  \E rep \in PlayedReps(Publish(c, t)), k \in Nat :
           /\ IdOf(rep) = wanted /\ Countable(rep)
           /\ p.explicit <=> rep.number # None
           /\ CountedFrom(p.segments, rep, k)
<1> DEFINE doc == Publish(c, t)
<1>1. PICK period \in ToSet(doc.periods) :
        \E r \in ToSet(period.reps) : r.kind \in {"video", "audio"} /\ p = Profile(doc, period, r, wanted, now)
  BY DEF ProfilesOf
<1>2. PICK r \in ToSet(period.reps) :
        r.kind \in {"video", "audio"} /\ p = Profile(doc, period, r, wanted, now)
  BY <1>1
<1>3. r \in Reps(doc) /\ r \in PlayedReps(doc)
  BY <1>1, <1>2 DEF Reps, PlayedReps
<1>4. doc.depth \in Nat /\ Typed(r)
  BY <1>3, DashTypes DEF Typed, IsSequence
<1>5. /\ Len(doc.periods) = 1 /\ doc.avail \in Int /\ doc.periods[1].start \in Int
      /\ \A x \in PlayedReps(doc) : Countable(x)
  BY DEF Steady, Counted
<1>6. period.start \in Int
  <2>1. IsSequence(doc.periods)
    BY DashDocuments DEF IsSequence
  <2> HIDE DEF doc
  <2>2. PICK i \in 1 .. Len(doc.periods) : period = doc.periods[i]
    BY <2>1, PlacesOf
  <2>3. i = 1
    BY <1>5, <2>2
  <2> QED BY <1>5, <2>2, <2>3
<1>7. p.id = IdOf(r) /\ p.segments = (IF wanted \in {None, IdOf(r)} THEN GenerateSegments(doc, period, r, now) ELSE <<>>)
  BY <1>2 DEF Profile, IdOf
<1>8. p.segments = GenerateSegments(doc, period, r, now)
  BY <1>7
<1>9. p.explicit <=> r.number # None
  <2>1. Profile(doc, period, r, wanted, now).explicit <=> r.number # None
    BY Zenon DEF Profile
  <2> QED BY <1>2, <2>1, Zenon
<1>10. Countable(r) /\ doc.live
  BY <1>3, <1>5
<1> HIDE DEF doc
<1>11. PICK k \in Nat : CountedFrom(GenerateSegments(doc, period, r, now), r, k)
  BY <1>4, <1>5, <1>6, <1>10, CountedIs
<1>12. CountedFrom(p.segments, r, k)
  BY <1>8, <1>11
<1> QED BY <1>3, <1>7, <1>9, <1>10, <1>12 DEF doc

(* The lines of a list have the numbers and names of its representation's segments. *)
NamesSegments(list, rep) ==
  \A i \in DOMAIN list.lines :
    /\ list.sequence + i - 1 \in Int
    /\ list.lines[i].link.media = NameAt(rep, list.sequence + i - 1)
    /\ list.lines[i].link.range = None

LEMMA CountedLines ==
  ASSUME NEW rep, Countable(rep), NEW k \in Nat,
         NEW profiles, profiles = [i \in 1 .. 1 |-> profiles[i]],
         CountedFrom(profiles[1].segments, rep, k), profiles[1].explicit <=> rep.number # None,
         NEW params, QueryOk(params), NEW live, live
  PROVE  NamesSegments(MediaPlaylist(live, profiles, params, Configured), rep)
<1> DEFINE p == profiles[1]
           segs == p.segments
           n == Len(segs)
           merged == Merged(profiles)
           kept == Window(live, merged, params, Configured)
           list == MediaPlaylist(live, profiles, params, Configured)
           c == Count(rep)
<1>1. list = Lines(live, kept, params)
  BY DEF MediaPlaylist, Merged, Pairs
<1>2. n \in Nat /\ DOMAIN segs = 1 .. n
  BY SequenceIs DEF CountedFrom
<1>3. merged = Pairs(p)
  <2> DEFINE f == [i \in DOMAIN profiles |-> Pairs(profiles[i])]
  <2>1. f = [i \in 1 .. 1 |-> f[i]] /\ f[1] = Pairs(p)
    OBVIOUS
  <2> HIDE DEF f
  <2>2. FlattenSeq(f) = f[1]
    BY <2>1, FlattenOne
  <2> QED BY <2>1, <2>2 DEF Merged, f
<1>4. merged = [i \in 1 .. n |-> [segment |-> segs[i], profile |-> p]]
  BY <1>2, <1>3 DEF Pairs
<1> HIDE DEF merged
<1>5. merged = [i \in 1 .. n |-> merged[i]]
  BY <1>4
<1>6. IsSequence(merged) /\ Len(merged) = n
  <2> HIDE DEF n
  <2> QED BY <1>2, <1>5, PlacesMake
<1>7. PICK start \in 0 .. n : kept = SubSeq(merged, start + 1, n)
  <2>1. params.offset # None => params.offset \in Int
    BY DEF QueryOk
  <2>2. \E start \in 0 .. Len(merged) : kept = SubSeq(merged, start + 1, Len(merged))
    BY <1>6, <2>1, WindowFrom, Zenon
  <2> QED BY <1>6, <2>2
<1> HIDE DEF kept
<1>8. /\ DOMAIN kept = 1 .. n - start
      /\ \A i \in 1 .. n - start : /\ start + i \in 1 .. n
                                   /\ kept[i] = [segment |-> segs[start + i], profile |-> p]
  <2> DEFINE T == ToSet(merged)
  <2>1. merged \in Seq(T)
    BY <1>6 DEF IsSequence
  <2> HIDE DEF T
  <2>2. /\ DOMAIN kept = 1 .. n - start
        /\ \A i \in 1 .. n - start : kept[i] = merged[start + i]
    <3> HIDE DEF n
    <3> QED BY <1>2, <1>6, <1>7, <2>1
  <2>3. \A i \in 1 .. n - start : start + i \in 1 .. n
    <3> HIDE DEF n
    <3> QED BY <1>2, <1>7
  <2> QED BY <1>4, <2>2, <2>3
<1>9. CASE kept = <<>>
  <2>1. list = [sequence |-> 0, lines |-> <<>>]
    BY <1>1, <1>9 DEF Lines
  <2> HIDE DEF list
  <2>2. DOMAIN list.lines = {}
    BY <2>1
  <2> QED BY <2>2 DEF NamesSegments, list
<1>10. CASE kept # <<>>
  <2> DEFINE line(i) == [discontinuity |-> NewInit(kept, i, params.ts) /\ i > 1,
                         map |-> IF NewInit(kept, i, params.ts) /\ kept[i].profile.init # None
                                 THEN InitLink(kept[i].profile) ELSE None,
                         link |-> SegmentLink(kept[i].segment, kept[i].profile, params)]
             first == c.number + (k + start)
  <2>1. list = [sequence |-> MediaSequence(kept[1].segment, kept[1].profile),
                lines |-> [i \in DOMAIN kept |-> line(i)]]
    BY <1>1, <1>10 DEF Lines
  <2>2. \A i : line(i).link = SegmentLink(kept[i].segment, kept[i].profile, params)
    OBVIOUS
  <2> HIDE DEF line, list
  <2>3. /\ list.sequence = MediaSequence(kept[1].segment, kept[1].profile)
        /\ DOMAIN list.lines = 1 .. n - start
        /\ \A i \in 1 .. n - start :
             list.lines[i].link = SegmentLink(kept[i].segment, kept[i].profile, params)
    BY <1>8, <2>1, <2>2
  <2> SUFFICES ASSUME NEW i \in 1 .. n - start
               PROVE  /\ list.sequence + i - 1 \in Int
                      /\ list.lines[i].link.media = NameAt(rep, list.sequence + i - 1)
                      /\ list.lines[i].link.range = None
    BY <2>3 DEF NamesSegments, list
  <2> HIDE DEF n
  <2>4. i \in Nat /\ i >= 1 /\ 1 \in 1 .. n - start /\ start \in Nat
    BY <1>2, <1>7
  <2>5. start + 1 \in 1 .. n /\ kept[1].segment = segs[start + 1] /\ kept[1].profile = p
    BY <1>8, <2>4
  <2>6. start + i \in 1 .. n /\ kept[i].segment = segs[start + i] /\ kept[i].profile = p
    BY <1>8
  <2>7. list.sequence = c.number + (k + ((start + 1) - 1))
    <3>1. MediaSequence(segs[start + 1], p) = c.number + (k + ((start + 1) - 1))
      BY <2>5, SequenceAt DEF n
    <3> QED BY <2>3, <2>5, <3>1
  <2>8. c.number \in Nat
    BY CountIs
  <2> HIDE DEF c
  <2>9. /\ list.sequence \in Int
        /\ list.sequence + i - 1 = c.number + (k + ((start + i) - 1))
    BY <2>4, <2>7, <2>8
  <2>10. /\ segs[start + i].media = NameAt(rep, c.number + (k + ((start + i) - 1)))
         /\ segs[start + i].range = None
    BY <2>6 DEF CountedFrom, n, c
  <2>11. /\ list.lines[i].link.media = segs[start + i].media
         /\ list.lines[i].link.range = segs[start + i].range
    <3>1. list.lines[i].link = SegmentLink(segs[start + i], p, params)
      BY <2>3, <2>6
    <3>2. /\ SegmentLink(segs[start + i], p, params).media = segs[start + i].media
          /\ SegmentLink(segs[start + i], p, params).range = segs[start + i].range
      BY DEF SegmentLink
    <3> QED BY <3>1, <3>2
  <2> QED BY <2>4, <2>9, <2>10, <2>11
<1> QED BY <1>9, <1>10

(* What the handler makes of a live MPD for a profile. *)
LEMMA LiveListIs ==
  ASSUME NEW c \in Channel, NEW t \in 0 .. MaxTime, Publish(c, t).live, Steady(c), NEW query, QueryOk(query),
         query.profile # None, dashNow \in Int, NEW index, Playlist(Publish(c, t), query, index) # None
  PROVE  \E rep \in PlayedReps(Publish(c, t)) :
           /\ IdOf(rep) = query.profile
           /\ NamesSegments(Playlist(Publish(c, t), query, index), rep)
<1> DEFINE doc == Publish(c, t)
           wanted == query.profile
           T == ProfilesOf(doc, wanted, dashNow)
           profiles == ParseMpd(doc, wanted, dashNow)
           S == {i \in DOMAIN profiles : profiles[i].id = wanted}
           matching == Filtered(profiles, S)
           expanded == [i \in DOMAIN matching |-> ExpandBase(matching[i], index)]
           list == Playlist(doc, query, index)
<1>1. list = IF matching = <<>> THEN None ELSE MediaPlaylist(doc.live, expanded, query, Configured)
  BY DEF Playlist
<1>2. profiles \in Seq(T)
  BY DashDocuments, ParsedIn
<1>3. /\ IsSequence(profiles)
      /\ \A i, j \in DOMAIN profiles : profiles[i].id = profiles[j].id => i = j
  BY LiveIds
<1>4. matching # <<>>
  BY <1>1
<1>5. S \in SUBSET (DOMAIN profiles) /\ \A i, j \in S : i = j
  BY <1>3
<1>6. \A i \in S : profiles[i] \in T /\ profiles[i].id = wanted
  BY <1>2
<1>7. doc.live
  OBVIOUS
<1> HIDE DEF T, profiles, S, list, doc
<1>8. Len(matching) = 1 /\ \E i \in S : matching[1] = profiles[i]
  BY <1>3, <1>4, <1>5, OneOf
<1>9. IsSequence(matching)
  BY <1>3, <1>5, FilteredSeq
<1> HIDE DEF matching
<1>10. DOMAIN matching = 1 .. 1
  BY <1>8, <1>9, SequenceIs
<1> DEFINE p == matching[1]
<1>11. p \in T /\ p.id = wanted
  BY <1>6, <1>8
<1>12. PICK rep \in PlayedReps(doc), k \in Nat :
           /\ IdOf(rep) = wanted /\ Countable(rep)
           /\ p.explicit <=> rep.number # None
           /\ CountedFrom(p.segments, rep, k)
  BY <1>7, <1>11, LiveProfile DEF T, doc
<1>13. ExpandBase(p, index) = p
  <2>1. Len(p.segments) = 1 => p.segments[1].index = None
    <3> SUFFICES ASSUME Len(p.segments) = 1 PROVE p.segments[1].index = None
      OBVIOUS
    <3>1. 1 \in 1 .. Len(p.segments)
      OBVIOUS
    <3> QED BY <1>12, <3>1 DEF CountedFrom
  <2> HIDE DEF p
  <2> QED BY <2>1 DEF ExpandBase
<1>14. expanded = [i \in 1 .. 1 |-> expanded[i]] /\ expanded[1] = p
  BY <1>10, <1>13
<1> HIDE DEF expanded, p
<1>15. NamesSegments(MediaPlaylist(doc.live, expanded, query, Configured), rep)
  BY <1>7, <1>12, <1>14, CountedLines
<1>16. list = MediaPlaylist(doc.live, expanded, query, Configured)
  BY <1>1, <1>4
<1> QED BY <1>12, <1>15, <1>16 DEF list, doc

(* A number names the same segment in all MPDs of a live channel. *)
LEMMA NameStays ==
  ASSUME NEW c \in Channel, NEW t \in 0 .. MaxTime, NEW u \in 0 .. MaxTime,
         Publish(c, t).live, Publish(c, u).live, Steady(c),
         NEW x \in PlayedReps(Publish(c, t)), NEW y \in PlayedReps(Publish(c, u)),
         IdOf(x) = IdOf(y), NEW n \in Int
  PROVE  NameAt(x, n) = NameAt(y, n)
<1>1. /\ Countable(x) /\ x.naming = y.naming /\ Count(x).d = Count(y).d
      /\ Count(x).time - Count(x).number * Count(x).d = Count(y).time - Count(y).number * Count(y).d
  <2>1. Countable(x)
    BY DEF Steady, Counted
  <2>2. SameCount(x, y)
    BY DEF Steady
  <2> QED BY <2>1, <2>2 DEF SameCount
<1>2. Countable(y)
  BY DEF Steady, Counted
<1>3. x.rep = y.rep
  BY DEF IdOf
<1>4. ASSUME NEW r, Countable(r)
      PROVE  /\ Count(r).time \in Int /\ Count(r).number * Count(r).d \in Int /\ n * Count(r).d \in Int
             /\ Count(r).time + (n - Count(r).number) * Count(r).d =
                  (Count(r).time - Count(r).number * Count(r).d) + n * Count(r).d
  <2> DEFINE a == Count(r).time
             b == Count(r).number
             d == Count(r).d
  <2>1. a \in Int /\ b \in Int /\ d \in Int
    BY <1>4, CountIs
  <2> HIDE DEF a, b, d
  <2>2. (n - b) + b = n /\ n - b \in Int
    BY <2>1
  <2>3. ((n - b) + b) * d = (n - b) * d + b * d
    BY <2>1, <2>2, Distribute
  <2>4. n * d \in Int /\ b * d \in Int /\ (n - b) * d \in Int
    BY <2>1, <2>2
  <2>5. a + (n - b) * d = (a - b * d) + n * d
    BY <2>1, <2>2, <2>3, <2>4
  <2> QED BY <2>1, <2>4, <2>5 DEF a, b, d
<1> DEFINE at(r) == Count(r).time + (n - Count(r).number) * Count(r).d
<1>5. at(x) = at(y)
  BY <1>1, <1>2, <1>4
<1>6. NameAt(x, n) = MediaName(x, [number |-> n, time |-> at(x)])
      /\ NameAt(y, n) = MediaName(y, [number |-> n, time |-> at(y)])
  BY DEF NameAt
<1> HIDE DEF at
<1>7. \A e : MediaName(x, e) = MediaName(y, e)
  BY <1>1, <1>3 DEF MediaName
<1> QED BY <1>5, <1>6, <1>7

(* The numbers that were given name segments of the channel's representations. *)
Named(a) ==
  \E t \in 0 .. MaxTime :
    /\ Publish(channel, t).live
    /\ \E rep \in PlayedReps(Publish(channel, t)) :
         /\ IdOf(rep) = a[1] /\ a[3] \in Int
         /\ a[4] = NameAt(rep, a[3]) /\ a[5] = None

NumberingInv == Steady(channel) => \A a \in numbering : Named(a)

(* What a handler adds to the numbers. *)
LEMMA ServedNumbers ==
  ASSUME NEW query, QueryOk(query), NEW at \in 0 .. MaxTime, Serve(query, at), TimesInv,
         NumberingInv, UNCHANGED channel
  PROVE  NumberingInv'
<1> SUFFICES ASSUME Steady(channel)' PROVE (\A a \in numbering : Named(a))'
  BY DEF NumberingInv
<1>0. Steady(channel) /\ \A a \in numbering : Named(a)
  BY DEF NumberingInv, Steady
<1> DEFINE doc == Publish(channel, at)
           Same == \A a : Named(a) => Named(a)'
<1>1. Same
  BY DEF Named
<1>2. CASE query.profile = None
  <2>1. UNCHANGED numbering
    BY <1>2 DEF Serve
  <2> QED BY <1>0, <1>1, <2>1
<1>3. CASE query.profile # None
  <2>1. PICK index \in {None, Index(channel)} :
          \E list \in {Playlist(doc, query, index)} :
            IF list = None THEN UNCHANGED <<shown, numbering>>
            ELSE numbering' = IF doc.live THEN numbering \cup Numbers(query, list) ELSE numbering
    BY <1>3, Zenon DEF Serve
  <2> DEFINE list == Playlist(doc, query, index)
  <2>2. CASE list = None \/ ~doc.live
    <3>1. UNCHANGED numbering
      BY <2>1, <2>2
    <3> QED BY <1>0, <1>1, <3>1
  <2>3. CASE list # None /\ doc.live
    <3>1. numbering' = numbering \cup Numbers(query, list)
      BY <2>1, <2>3
    <3>2. channel \in Channel /\ dashNow \in Int
      BY DashDocuments DEF TimesInv
    <3>3. PICK rep \in PlayedReps(doc) : IdOf(rep) = query.profile /\ NamesSegments(list, rep)
      BY <1>0, <1>3, <2>3, <3>2, LiveListIs
    <3> HIDE DEF list
    <3>4. ASSUME NEW a \in Numbers(query, list) PROVE Named(a)
      <4>1. PICK i \in DOMAIN list.lines :
              a = <<query.profile, query.ts, list.sequence + i - 1,
                    list.lines[i].link.media, list.lines[i].link.range>>
        BY DEF Numbers
      <4>2. /\ a[1] = query.profile /\ a[3] = list.sequence + i - 1
            /\ a[4] = list.lines[i].link.media /\ a[5] = list.lines[i].link.range
        BY <4>1
      <4> QED BY <2>3, <3>3, <4>2 DEF Named, NamesSegments
    <3> QED BY <1>0, <1>1, <3>1, <3>4
  <2> QED BY <2>2, <2>3
<1> QED BY <1>2, <1>3

LEMMA AskNumbers ==
  ASSUME TimesInv, NumberingInv, NEW p, NEW query, QueryOk(query), Ask(p, query)
  PROVE  NumberingInv'
<1>1. UNCHANGED channel
  BY DEF Ask
<1>2. CASE Cached
  <2>1. Serve(query, mpdCache.at)
    BY <1>2 DEF Ask
  <2>2. mpdCache.at \in 0 .. MaxTime
    BY <1>2 DEF Cached, TimesInv
  <2> QED BY <1>1, <2>1, <2>2, ServedNumbers
<1>3. CASE ~Cached
  <2>1. UNCHANGED numbering
    BY <1>3 DEF Ask
  <2> QED BY <1>1, <2>1 DEF NumberingInv, Named, Steady
<1> QED BY <1>2, <1>3

LEMMA NumberingStep ==
  ASSUME TimesInv, ListInv, NumberingInv, [DashNext]_dashVars
  PROVE  NumberingInv'
<1>1. ASSUME NEW p \in Player, AskFirst(p) PROVE NumberingInv'
  <2>1. PICK query \in Query(channel) : Ask(p, query)
    BY <1>1 DEF AskFirst
  <2>2. QueryOk(query)
    BY DashTypes DEF QueryOk, TimesInv
  <2> QED BY <2>1, <2>2, AskNumbers
<1>2. ASSUME NEW p \in Player, AskLinked(p) PROVE NumberingInv'
  <2>1. PICK id : Ask(p, PlaylistQuery(shown.query, id))
    BY <1>2 DEF AskLinked
  <2>2. QueryOk(PlaylistQuery(shown.query, id))
    BY DEF QueryOk, PlaylistQuery
  <2> QED BY <2>1, <2>2, AskNumbers
<1>3. ASSUME NEW p \in Player, Refresh(p) PROVE NumberingInv'
  <2>1. shown # None /\ Ask(p, shown.query)
    BY <1>3 DEF Refresh
  <2>2. QueryOk(shown.query)
    BY <2>1 DEF ListInv
  <2> QED BY <2>1, <2>2, AskNumbers
<1>4. ASSUME NEW p \in Player, FetchEnds(p) PROVE NumberingInv'
  <2>1. /\ job[p] # None /\ job[p].at # None /\ Serve(job[p].query, job[p].at)
        /\ UNCHANGED channel
    BY <1>4 DEF FetchEnds
  <2>2. job[p].at \in 0 .. MaxTime /\ QueryOk(job[p].query)
    BY <2>1 DEF TimesInv, ListInv
  <2> QED BY <2>1, <2>2, ServedNumbers
<1>5. CASE UNCHANGED <<channel, numbering>>
  BY <1>5 DEF NumberingInv, Named, Steady
<1>6. ASSUME NEW p \in Player, UpstreamAnswers(p) \/ UpstreamDown(p) PROVE UNCHANGED <<channel, numbering>>
  BY <1>6 DEF UpstreamAnswers, UpstreamDown
<1>7. ASSUME NEW i \in 1 .. MaxLines, Play(i) PROVE UNCHANGED <<channel, numbering>>
  BY <1>7 DEF Play
<1>8. Tick \/ UNCHANGED dashVars => UNCHANGED <<channel, numbering>>
  BY DEF Tick, dashVars
<1> QED BY <1>1, <1>2, <1>3, <1>4, <1>5, <1>6, <1>7, <1>8 DEF DashNext

(* Every media sequence number given for a live channel counts the segments *)
(* of the representation, however long ago and from which MPD and window.   *)
THEOREM NumberingInvariant == DashSpec => []NumberingInv
<1>1. DashInit => NumberingInv
  BY DEF DashInit, NumberingInv
<1>2. MasterInv /\ ListInv /\ NumberingInv /\ [DashNext]_dashVars => NumberingInv'
  BY NumberingStep DEF MasterInv
<1> QED BY <1>1, <1>2, MasterInvariant, ListInvariant, PTL DEF DashSpec

(* A media sequence number names one segment in all playlists of a profile, *)
(* whatever MPDs, windows and start offsets they were made with, if the     *)
(* channel goes on counting as it began.                                    *)
THEOREM SequencesNameSegments == DashSpec => [](Steady(channel) => SequenceNamesSegment)
<1>1. TimesInv /\ NumberingInv => (Steady(channel) => SequenceNamesSegment)
  <2> SUFFICES ASSUME TimesInv, NumberingInv, Steady(channel), NEW a \in numbering, NEW b \in numbering,
                      a[1] = b[1], a[3] = b[3]
               PROVE  a[4] = b[4] /\ a[5] = b[5]
    BY DEF SequenceNamesSegment
  <2>1. PICK t \in 0 .. MaxTime :
          /\ Publish(channel, t).live
          /\ \E x \in PlayedReps(Publish(channel, t)) :
               IdOf(x) = a[1] /\ a[3] \in Int /\ a[4] = NameAt(x, a[3]) /\ a[5] = None
    BY DEF NumberingInv, Named
  <2>2. PICK u \in 0 .. MaxTime :
          /\ Publish(channel, u).live
          /\ \E y \in PlayedReps(Publish(channel, u)) :
               IdOf(y) = b[1] /\ b[3] \in Int /\ b[4] = NameAt(y, b[3]) /\ b[5] = None
    BY DEF NumberingInv, Named
  <2>3. PICK x \in PlayedReps(Publish(channel, t)) :
          IdOf(x) = a[1] /\ a[3] \in Int /\ a[4] = NameAt(x, a[3]) /\ a[5] = None
    BY <2>1
  <2>4. PICK y \in PlayedReps(Publish(channel, u)) :
          IdOf(y) = b[1] /\ b[3] \in Int /\ b[4] = NameAt(y, b[3]) /\ b[5] = None
    BY <2>2
  <2>5. NameAt(x, a[3]) = NameAt(y, a[3])
    BY <2>1, <2>2, <2>3, <2>4, NameStays DEF TimesInv
  <2> QED BY <2>3, <2>4, <2>5
<1> QED BY <1>1, MasterInvariant, NumberingInvariant, PTL DEF MasterInv

-----------------------------------------------------------------------------
(* Playlists and what there is to list *)

(* The sums of the first sizes, as Ends defines them, and that they exist. *)
Adds(f, sizes, n) == f = [i \in 0 .. n |-> IF i = 0 THEN 0 ELSE f[i - 1] + sizes[i]]

(* The sums of no size exist, and go on with every size. *)
LEMMA AddsExist ==
  ASSUME NEW n \in Nat, NEW sizes
  PROVE  \E f : Adds(f, sizes, n)
<1> DEFINE S == {m \in Nat : \E f : Adds(f, sizes, m)}
<1>1. 0 \in S
  <2>1. Adds([i \in 0 .. 0 |-> 0], sizes, 0)
    BY DEF Adds
  <2> QED BY <2>1
<1>2. ASSUME NEW m \in S PROVE m + 1 \in S
  <2>1. PICK g : Adds(g, sizes, m)
    OBVIOUS
  <2> DEFINE h == [i \in 0 .. m + 1 |-> IF i = m + 1 THEN g[m] + sizes[i] ELSE g[i]]
  <2>2. m \in Nat
    OBVIOUS
  <2>3. \A i \in 0 .. m : h[i] = g[i]
    BY <2>2
  <2>4. \A i \in 0 .. m : g[i] = IF i = 0 THEN 0 ELSE g[i - 1] + sizes[i]
    BY <2>1 DEF Adds
  <2>5. \A i \in 0 .. m + 1 : h[i] = IF i = 0 THEN 0 ELSE h[i - 1] + sizes[i]
    <3> TAKE i \in 0 .. m + 1
    <3>1. CASE i = m + 1
      <4>1. i - 1 \in 0 .. m /\ i - 1 = m /\ i # 0
        BY <2>2, <3>1
      <4> QED BY <2>3, <3>1, <4>1
    <3>2. CASE i # m + 1
      <4>1. i \in 0 .. m /\ (i # 0 => i - 1 \in 0 .. m)
        BY <2>2, <3>2
      <4> QED BY <2>3, <2>4, <4>1
    <3> QED BY <3>1, <3>2
  <2> HIDE DEF h
  <2>6. h = [i \in 0 .. m + 1 |-> h[i]]
    BY DEF h
  <2>7. Adds(h, sizes, m + 1)
    BY <2>5, <2>6 DEF Adds
  <2> QED BY <2>2, <2>7
<1> HIDE DEF S
<1>3. S = Nat
  BY <1>1, <1>2, SetInduction DEF S
<1> QED BY <1>3 DEF S

(* Pieces of n given sizes end where the one before ends and their size on. *)
LEMMA EndsAre ==
  ASSUME NEW n \in Nat, NEW sizes, sizes = [i \in 1 .. n |-> sizes[i]],
         \A i \in 1 .. n : sizes[i] \in Nat
  PROVE  /\ Len(sizes) = n /\ Ends(sizes)[0] = 0
         /\ \A i \in 1 .. n : Ends(sizes)[i] = Ends(sizes)[i - 1] + sizes[i]
         /\ \A i \in 0 .. n : Ends(sizes)[i] \in Nat
         /\ DOMAIN Ends(sizes) = 0 .. n
<1> DEFINE f == CHOOSE f : Adds(f, sizes, n)
<1>1. Len(sizes) = n
  BY PlacesMake
<1>2. Adds(f, sizes, n)
  BY AddsExist
<1>3. Ends(sizes) = f
  BY <1>1 DEF Ends, Adds
<1> HIDE DEF f
<1>4. f[0] = 0 /\ DOMAIN f = 0 .. n
  BY <1>2 DEF Adds
<1>5. ASSUME NEW i \in 1 .. n PROVE f[i] = f[i - 1] + sizes[i]
  <2>1. i \in 0 .. n /\ i # 0
    OBVIOUS
  <2>2. \A j \in 0 .. n : f[j] = IF j = 0 THEN 0 ELSE f[j - 1] + sizes[j]
    BY <1>2 DEF Adds
  <2> QED BY <2>1, <2>2
<1> DEFINE W == {i \in Nat : i \in 0 .. n => f[i] \in Nat}
<1>6. 0 \in W
  BY <1>4
<1>7. ASSUME NEW i \in W PROVE i + 1 \in W
  <2> SUFFICES ASSUME i + 1 \in 0 .. n PROVE f[i + 1] \in Nat
    OBVIOUS
  <2>1. i + 1 \in 1 .. n /\ (i + 1) - 1 = i /\ i \in 0 .. n
    OBVIOUS
  <2>2. f[i] \in Nat /\ sizes[i + 1] \in Nat /\ f[i + 1] = f[i] + sizes[i + 1]
    BY <1>5, <2>1
  <2> QED BY <2>2
<1> HIDE DEF W
<1>8. W = Nat
  BY <1>6, <1>7, SetInduction DEF W
<1>9. \A i \in 0 .. n : f[i] \in Nat
  BY <1>8 DEF W
<1> QED BY <1>1, <1>3, <1>4, <1>5, <1>9

(* A later piece does not end earlier, and every place up to the last end   *)
(* is in a piece.                                                           *)
LEMMA EndsHold ==
  ASSUME NEW n \in Nat, NEW end,
         end[0] = 0, \A i \in 0 .. n : end[i] \in Nat, \A i \in 1 .. n : end[i - 1] <= end[i]
  PROVE  /\ \A i, j \in 0 .. n : i <= j => end[i] <= end[j]
         /\ \A p \in 1 .. end[n] : \E i \in 1 .. n : end[i - 1] < p /\ p <= end[i]
<1> DEFINE W == {m \in Nat : m \in 0 .. n =>
                   /\ \A i \in 0 .. m : end[i] <= end[m]
                   /\ \A p \in 1 .. end[m] : \E i \in 1 .. n : end[i - 1] < p /\ p <= end[i]}
<1>1. 0 \in W
  OBVIOUS
<1>2. ASSUME NEW m \in W PROVE m + 1 \in W
  <2> SUFFICES ASSUME m + 1 \in 0 .. n
               PROVE  /\ \A i \in 0 .. m + 1 : end[i] <= end[m + 1]
                      /\ \A p \in 1 .. end[m + 1] : \E i \in 1 .. n : end[i - 1] < p /\ p <= end[i]
    OBVIOUS
  <2>1. m \in 0 .. n /\ m + 1 \in 1 .. n /\ (m + 1) - 1 = m
    OBVIOUS
  <2>2. end[m] <= end[m + 1] /\ end[m] \in Nat /\ end[m + 1] \in Nat
    BY <2>1
  <2>3. /\ \A i \in 0 .. m : end[i] <= end[m]
        /\ \A p \in 1 .. end[m] : \E i \in 1 .. n : end[i - 1] < p /\ p <= end[i]
    BY <2>1
  <2>4. ASSUME NEW i \in 0 .. m + 1 PROVE end[i] <= end[m + 1]
    <3>1. CASE i = m + 1
      BY <2>2, <3>1
    <3>2. CASE i # m + 1
      <4>1. i \in 0 .. m /\ end[i] \in Nat
        BY <2>1, <3>2
      <4> QED BY <2>2, <2>3, <4>1
    <3> QED BY <3>1, <3>2
  <2>5. ASSUME NEW p \in 1 .. end[m + 1] PROVE \E i \in 1 .. n : end[i - 1] < p /\ p <= end[i]
    <3>1. CASE p <= end[m]
      BY <2>2, <2>3, <3>1
    <3>2. CASE end[m] < p
      BY <2>1, <3>2
    <3> QED BY <2>2, <3>1, <3>2
  <2> QED BY <2>4, <2>5
<1> HIDE DEF W
<1>3. W = Nat
  BY <1>1, <1>2, SetInduction DEF W
<1>4. \A m \in 0 .. n : /\ \A i \in 0 .. m : end[i] <= end[m]
                        /\ \A p \in 1 .. end[m] : \E i \in 1 .. n : end[i - 1] < p /\ p <= end[i]
  BY <1>3 DEF W
<1> QED BY <1>4

(* A part of a sequence. *)
LEMMA PartIs ==
  ASSUME NEW s, IsSequence(s), NEW from \in Nat, NEW to \in Nat, from <= to, to <= Len(s)
  PROVE  LET part == SubSeq(s, from + 1, to) IN
         /\ IsSequence(part) /\ Len(part) = to - from /\ DOMAIN part = 1 .. to - from
         /\ \A j \in 1 .. to - from : part[j] = s[from + j]
<1> DEFINE T == ToSet(s)
           part == SubSeq(s, from + 1, to)
           n == to - from
<1>1. s \in Seq(T) /\ Len(s) \in Nat /\ n \in Nat
  BY DEF IsSequence
<1>2. \A i \in from + 1 .. to : s[i] \in T
  BY <1>1, SequenceIs
<1> HIDE DEF T
<1>3. /\ part \in Seq(T)
      /\ Len(part) = IF from + 1 <= to THEN to - (from + 1) + 1 ELSE 0
      /\ \A i \in 1 .. to - (from + 1) + 1 : part[i] = s[from + 1 + i - 1]
  <2>1. from + 1 \in Int /\ to \in Int
    OBVIOUS
  <2> QED BY <1>2, <2>1, SubSeqProperties
<1>4. to - (from + 1) + 1 = n
  OBVIOUS
<1> HIDE DEF part
<1>5. Len(part) = n
  BY <1>3
<1>6. \A i \in 1 .. n : part[i] = s[from + i]
  <2> TAKE i \in 1 .. n
  <2>1. from + 1 + i - 1 = from + i
    OBVIOUS
  <2> QED BY <1>3, <1>4, <2>1
<1>7. IsSequence(part) /\ DOMAIN part = 1 .. n
  BY <1>3, <1>5, SeqIsSequence, SequenceIs
<1> QED BY <1>5, <1>6, <1>7 DEF part

-----------------------------------------------------------------------------
(* Sequences: joined, filtered, counted *)

(* c holds the elements of g and then those of h. *)
Goes(c, g, h) ==
  /\ IsSequence(c) /\ Len(g) \in Nat /\ Len(h) \in Nat /\ Len(c) = Len(g) + Len(h)
  /\ \A i \in 1 .. Len(g) : c[i] = g[i]
  /\ \A i \in 1 .. Len(h) : c[Len(g) + i] = h[i]

(* One sequence after the other. *)
LEMMA ConcatGoes ==
  ASSUME NEW g, IsSequence(g), NEW h, IsSequence(h)
  PROVE  Goes(g \o h, g, h)
<1> DEFINE T == ToSet(g) \cup ToSet(h)
           c == g \o h
<1>1. Len(g) \in Nat /\ Len(h) \in Nat
  BY SequenceIs
<1>2. g \in Seq(T) /\ h \in Seq(T)
  <2>1. g \in Seq(ToSet(g)) /\ h \in Seq(ToSet(h)) /\ ToSet(g) \subseteq T /\ ToSet(h) \subseteq T
    BY DEF IsSequence
  <2> HIDE DEF T
  <2> QED BY <2>1, SeqMonotonic
<1> HIDE DEF T
<1>3. /\ c \in Seq(T) /\ Len(c) = Len(g) + Len(h)
      /\ \A i \in 1 .. Len(c) : c[i] = IF i <= Len(g) THEN g[i] ELSE h[i - Len(g)]
  BY <1>2
<1> HIDE DEF c
<1>4. IsSequence(c)
  BY <1>3, SeqIn
<1>5. ASSUME NEW i \in 1 .. Len(g) PROVE c[i] = g[i]
  <2>1. i \in 1 .. Len(c) /\ i <= Len(g)
    BY <1>1, <1>3
  <2> QED BY <1>3, <2>1
<1>6. ASSUME NEW i \in 1 .. Len(h) PROVE c[Len(g) + i] = h[i]
  <2>1. Len(g) + i \in 1 .. Len(c) /\ ~(Len(g) + i <= Len(g)) /\ (Len(g) + i) - Len(g) = i
    BY <1>1, <1>3
  <2> QED BY <1>3, <2>1
<1>7. Goes(c, g, h)
  BY <1>1, <1>3, <1>4, <1>5, <1>6 DEF Goes
<1> QED BY <1>7 DEF c

(* s holds the elements of each of the sequences, those of f[p] up to end[p]. *)
Holds(s, f, n, end) ==
  /\ IsSequence(s) /\ Len(s) = end[n]
  /\ \A p \in 1 .. n : \A k \in 1 .. Len(f[p]) : s[end[p - 1] + k] = f[p][k]

(* Where the elements of sequences are when these are joined. *)
LEMMA FlattenPlaces ==
  ASSUME NEW n \in Nat \ {0}, NEW f, f = [p \in 1 .. n |-> f[p]], \A p \in 1 .. n : IsSequence(f[p]),
         NEW end, end[0] = 0, \A p \in 0 .. n : end[p] \in Nat,
         \A p \in 1 .. n : end[p] = end[p - 1] + Len(f[p])
  PROVE  Holds(FlattenSeq(f), f, n, end)
<1>1. Len(f) = n
  BY PlacesMake
<1>2. PICK g : Joins(g, f, n)
  BY JoinsExist
<1>3. \A m \in 1 .. n : g[m] = IF m = 1 THEN f[m] ELSE g[m-1] \o f[m]
  <2> TAKE m \in 1 .. n
  <2> QED BY <1>2, JoinsAt
<1>4. \A m \in 1 .. n : Len(f[m]) \in Nat /\ end[m - 1] \in Nat
  <2> TAKE m \in 1 .. n
  <2>1. m - 1 \in 0 .. n
    OBVIOUS
  <2> QED BY <2>1, SequenceIs
<1>5. \A i, j \in 0 .. n : i <= j => end[i] <= end[j]
  <2>1. \A p \in 1 .. n : end[p - 1] <= end[p]
    BY <1>4
  <2> QED BY <2>1, EndsHold
<1> DEFINE P(m) == /\ IsSequence(g[m]) /\ Len(g[m]) = end[m]
                   /\ \A p \in 1 .. m : \A k \in 1 .. Len(f[p]) : g[m][end[p - 1] + k] = f[p][k]
           W == {m \in Nat : m + 1 \in 1 .. n => P(m + 1)}
<1>6. 0 \in W
  <2>1. 1 \in 1 .. n /\ g[1] = f[1] /\ 1 - 1 = 0
    BY <1>3
  <2>2. IsSequence(g[1]) /\ Len(g[1]) = end[1]
    BY <1>4, <2>1
  <2>3. ASSUME NEW p \in 1 .. 1, NEW k \in 1 .. Len(f[p]) PROVE g[1][end[p - 1] + k] = f[p][k]
    <3>1. p = 1 /\ Len(f[1]) \in Nat
      BY <1>4, <2>1
    <3>2. k \in Nat /\ end[p - 1] + k = k
      BY <2>1, <3>1
    <3> QED BY <2>1, <3>1, <3>2
  <2>4. P(1)
    BY <2>2, <2>3
  <2> HIDE DEF P
  <2> QED BY <2>4
<1> HIDE DEF P
<1>7. ASSUME NEW m \in W PROVE m + 1 \in W
  <2> SUFFICES ASSUME (m + 1) + 1 \in 1 .. n PROVE P((m + 1) + 1)
    OBVIOUS
  <2> DEFINE l == (m + 1) + 1
             j == m + 1
  <2>1. j \in 1 .. n /\ l \in 1 .. n /\ l # 1 /\ l - 1 = j
    OBVIOUS
  <2>a. P(j)
    BY <2>1
  <2> HIDE DEF l, j
  <2>2. /\ IsSequence(g[j]) /\ Len(g[j]) = end[j]
        /\ \A p \in 1 .. j : \A k \in 1 .. Len(f[p]) : g[j][end[p - 1] + k] = f[p][k]
    BY <2>a DEF P
  <2>3. g[l] = g[j] \o f[l] /\ end[l] = end[j] + Len(f[l])
    BY <1>3, <2>1
  <2>4. /\ IsSequence(g[l]) /\ Len(g[l]) = end[l]
        /\ \A i \in 1 .. end[j] : g[l][i] = g[j][i]
        /\ \A i \in 1 .. Len(f[l]) : g[l][end[j] + i] = f[l][i]
    <3>1. IsSequence(g[j]) /\ IsSequence(f[l]) /\ Len(g[j]) = end[j]
      BY <2>1, <2>2
    <3>2. Goes(g[l], g[j], f[l])
      BY <2>3, <3>1, ConcatGoes
    <3> QED BY <2>3, <3>1, <3>2 DEF Goes
  <2>5. ASSUME NEW p \in 1 .. l, NEW k \in 1 .. Len(f[p]) PROVE g[l][end[p - 1] + k] = f[p][k]
    <3>1. CASE p = l
      BY <2>1, <2>4, <3>1
    <3>2. CASE p # l
      <4>1. p \in 1 .. j /\ p \in 1 .. n /\ p \in 0 .. n /\ j \in 0 .. n /\ p <= j
        BY <2>1, <3>2
      <4>2. end[p] <= end[j] /\ end[p] = end[p - 1] + Len(f[p]) /\ end[p] \in Nat /\ end[j] \in Nat
            /\ end[p - 1] \in Nat /\ Len(f[p]) \in Nat
        BY <1>4, <1>5, <4>1
      <4>3. end[p - 1] + k \in 1 .. end[j]
        BY <4>2, SMTT(20)
      <4>4. g[j][end[p - 1] + k] = f[p][k]
        BY <2>2, <4>1
      <4> QED BY <2>4, <4>3, <4>4
    <3> QED BY <3>1, <3>2
  <2>6. P(l)
    BY <2>4, <2>5 DEF P
  <2> QED BY <2>6 DEF l
<1> HIDE DEF W
<1>8. W = Nat
  BY <1>6, <1>7, SetInduction DEF W
<1>9. P(n)
  <2>1. n - 1 \in Nat /\ (n - 1) + 1 = n /\ n \in 1 .. n
    OBVIOUS
  <2> QED BY <1>8, <2>1 DEF W
<1>10. FlattenSeq(f) = g[n]
  BY <1>1, <1>2, FlattenIs
<1> QED BY <1>9, <1>10 DEF P, Holds

(* An enumeration of a set of numbers in their order. *)
Enumerates(a, n, S) ==
  /\ \A k \in 1 .. n : a[k] \in S
  /\ \A k, l \in 1 .. n : k < l => a[k] < a[l]
  /\ \A x \in S : \E k \in 1 .. n : a[k] = x

(* Of two enumerations of a set the one is the beginning of the other. *)
LEMMA EnumeratesInto ==
  ASSUME NEW S \in SUBSET Int, NEW n \in Nat, NEW m \in Nat, NEW a, NEW b,
         Enumerates(a, n, S), Enumerates(b, m, S)
  PROVE  n <= m /\ \A k \in 1 .. n : a[k] = b[k]
<1> DEFINE W == {k \in Nat : \A j \in 1 .. k : j <= n => j <= m /\ a[j] = b[j]}
<1>1. 0 \in W
  OBVIOUS
<1>2. ASSUME NEW k \in W PROVE k + 1 \in W
  <2> SUFFICES ASSUME k + 1 <= n PROVE k + 1 <= m /\ a[k + 1] = b[k + 1]
    OBVIOUS
  <2> DEFINE K == k + 1
  <2>1. K \in 1 .. n /\ \A j \in 1 .. k : j <= m /\ a[j] = b[j] /\ j < K /\ j \in 1 .. n
    OBVIOUS
  <2>2. PICK l \in 1 .. m : b[l] = a[K]
    BY <2>1 DEF Enumerates
  <2>a. k \in Nat /\ K = k + 1 /\ K \in Nat
    OBVIOUS
  <2> HIDE DEF K
  <2>3. K <= l /\ K \in 1 .. m
    <3>1. SUFFICES ASSUME l \in 1 .. k PROVE FALSE
      BY <2>a
    <3>2. a[l] = a[K] /\ a[l] < a[K] /\ a[K] \in Int
      BY <2>1, <2>2, <3>1 DEF Enumerates
    <3> QED BY <3>2
  <2>4. b[K] <= a[K]
    <3>1. b[K] \in Int /\ (K < l => b[K] < b[l])
      BY <2>3 DEF Enumerates
    <3>2. a[K] \in Int
      BY <2>1 DEF Enumerates
    <3> QED BY <2>2, <2>3, <3>1, <3>2
  <2>5. PICK q \in 1 .. n : a[q] = b[K]
    BY <2>3 DEF Enumerates
  <2>6. K <= q
    <3>1. SUFFICES ASSUME q \in 1 .. k PROVE FALSE
      BY <2>a
    <3>2. q \in 1 .. m /\ q < K /\ b[q] = b[K]
      BY <2>1, <2>5, <3>1
    <3>3. b[q] < b[K] /\ b[K] \in Int
      BY <2>3, <3>2 DEF Enumerates
    <3> QED BY <3>2, <3>3
  <2>7. a[K] <= b[K]
    <3>1. a[K] \in Int /\ (K < q => a[K] < a[q])
      BY <2>1 DEF Enumerates
    <3>2. b[K] \in Int
      BY <2>3 DEF Enumerates
    <3>3. K < q \/ K = q
      BY <2>6, <2>a
    <3>4. a[q] \in Int
      BY DEF Enumerates
    <3> QED BY <2>5, <3>1, <3>2, <3>3, <3>4
  <2>8. a[K] \in Int /\ b[K] \in Int
    BY <2>1, <2>3 DEF Enumerates
  <2> QED BY <2>3, <2>4, <2>7, <2>8 DEF K
<1> HIDE DEF W
<1>3. W = Nat
  BY <1>1, <1>2, SetInduction DEF W
<1>4. \A k \in 1 .. n : k <= m /\ a[k] = b[k]
  BY <1>3 DEF W
<1> QED BY <1>4

(* There is one enumeration only. *)
LEMMA EnumeratesOnce ==
  ASSUME NEW S \in SUBSET Int, NEW n \in Nat, NEW m \in Nat, NEW a, NEW b,
         Enumerates(a, n, S), Enumerates(b, m, S)
  PROVE  n = m /\ \A k \in 1 .. n : a[k] = b[k]
<1>1. n <= m /\ m <= n
  BY EnumeratesInto
<1> QED BY <1>1, EnumeratesInto

(* What a filter keeps is at the places it is given, one after the other. *)
LEMMA FilterKeeps ==
  ASSUME NEW s, IsSequence(s), NEW S \in SUBSET (DOMAIN s)
  PROVE  /\ IsSequence(Filtered(s, S)) /\ Len(Filtered(s, S)) \in Nat
         /\ DOMAIN Filtered(s, S) = 1 .. Len(Filtered(s, S))
         /\ S \in SUBSET Int
         /\ \E o : /\ Enumerates(o, Len(Filtered(s, S)), S)
                   /\ \A k \in 1 .. Len(Filtered(s, S)) : Filtered(s, S)[k] = s[o[k]]
<1> DEFINE T == ToSet(s)
           f == Filtered(s, S)
<1>1. s \in Seq(T)
  BY DEF IsSequence
<1>2. S \in SUBSET Int
  BY SequenceIs
<1> HIDE DEF T
<1>3. f \in Seq(T) /\ \E o : Picks(o, f, s, S)
  BY <1>1, FilteredIs
<1>4. PICK o : Picks(o, f, s, S)
  BY <1>3
<1> HIDE DEF f
<1>5. IsSequence(f) /\ Len(f) \in Nat /\ DOMAIN f = 1 .. Len(f)
  BY <1>3, SeqIn
<1>6. Enumerates(o, Len(f), S) /\ \A k \in 1 .. Len(f) : f[k] = s[o[k]]
  BY <1>4 DEF Picks, Enumerates
<1> QED BY <1>2, <1>5, <1>6 DEF f

(* Two sequences filtered alike. *)
LEMMA FilteredAlike ==
  ASSUME NEW s, IsSequence(s), NEW u, IsSequence(u), Len(s) = Len(u), NEW S \in SUBSET (DOMAIN s)
  PROVE  /\ Len(Filtered(u, S)) = Len(Filtered(s, S))
         /\ \A k \in 1 .. Len(Filtered(s, S)) :
              \E i \in S : Filtered(s, S)[k] = s[i] /\ Filtered(u, S)[k] = u[i]
<1> DEFINE n == Len(Filtered(s, S))
           m == Len(Filtered(u, S))
<1>1. S \in SUBSET (DOMAIN u)
  BY SequenceIs
<1>2. PICK o : Enumerates(o, n, S) /\ \A k \in 1 .. n : Filtered(s, S)[k] = s[o[k]]
  BY FilterKeeps
<1>3. PICK q : Enumerates(q, m, S) /\ \A k \in 1 .. m : Filtered(u, S)[k] = u[q[k]]
  BY <1>1, FilterKeeps
<1>4. n \in Nat /\ m \in Nat /\ S \in SUBSET Int
  BY <1>1, FilterKeeps
<1> HIDE DEF n, m
<1>5. n = m /\ \A k \in 1 .. n : o[k] = q[k]
  <2>1. Enumerates(o, n, S) /\ Enumerates(q, m, S)
    BY <1>2, <1>3
  <2> QED BY <1>4, <2>1, EnumeratesOnce
<1>6. \A k \in 1 .. n : o[k] \in S
  BY <1>2 DEF Enumerates
<1>7. m = n /\ \A k \in 1 .. n : \E i \in S : Filtered(s, S)[k] = s[i] /\ Filtered(u, S)[k] = u[i]
  BY <1>2, <1>3, <1>5, <1>6
<1> QED BY <1>7 DEF n, m

(* A filter that all places pass. *)
LEMMA FilteredAll ==
  ASSUME NEW s, IsSequence(s)
  PROVE  Filtered(s, DOMAIN s) = s
<1> DEFINE f == Filtered(s, DOMAIN s)
           id == [k \in 1 .. Len(s) |-> k]
<1>1. Len(s) \in Nat /\ DOMAIN s = 1 .. Len(s) /\ s = [k \in 1 .. Len(s) |-> s[k]]
  BY PlacesOf
<1>2. PICK o : Enumerates(o, Len(f), DOMAIN s) /\ \A k \in 1 .. Len(f) : f[k] = s[o[k]]
  BY FilterKeeps
<1>3. IsSequence(f) /\ Len(f) \in Nat
  BY FilterKeeps
<1> HIDE DEF f
<1>4. Enumerates(id, Len(s), DOMAIN s)
  BY <1>1 DEF Enumerates
<1> HIDE DEF id
<1>5. DOMAIN s \in SUBSET Int
  BY <1>1
<1>6. Len(f) = Len(s) /\ \A k \in 1 .. Len(f) : o[k] = id[k]
  <2> DEFINE S == DOMAIN s
  <2>1. Enumerates(o, Len(f), S) /\ Enumerates(id, Len(s), S) /\ S \in SUBSET Int
    BY <1>2, <1>4, <1>5
  <2> HIDE DEF S
  <2> QED BY <1>1, <1>3, <2>1, EnumeratesOnce
<1>7. \A k \in 1 .. Len(s) : f[k] = s[k]
  BY <1>2, <1>6 DEF id
<1>8. f = [k \in 1 .. Len(f) |-> f[k]]
  BY <1>3, PlacesOf
<1> QED BY <1>1, <1>6, <1>7, <1>8 DEF f

(* Multiplication, the exact quotient and the one that is rounded up. *)
LEMMA TimesMore ==
  ASSUME NEW a \in Int, NEW b \in Int, a <= b, NEW d \in Nat
  PROVE  a * d <= b * d
<1> DEFINE c == b - a
<1>1. c \in Nat /\ b = a + c
  OBVIOUS
<1> HIDE DEF c
<1>2. (a + c) * d = a * d + c * d
  BY <1>1, Distribute
<1>3. c * d \in Nat /\ a * d \in Int
  BY <1>1
<1> QED BY <1>1, <1>2, <1>3

LEMMA DivIs ==
  ASSUME NEW a \in Nat, NEW d \in Nat \ {0}, NEW n \in Int, n * d <= a, a < (n + 1) * d
  PROVE  a \div d = n
<1> DEFINE q == a \div d
           r == a % d
<1>1. q \in Nat /\ r \in Nat /\ r < d /\ a = d * q + r
  BY SMT
<1> HIDE DEF q, r
<1>2. q * d <= a /\ a < (q + 1) * d
  BY <1>1, SMT
<1>3. ~(q + 1 <= n)
  <2>1. q + 1 <= n => (q + 1) * d <= n * d
    BY <1>1, TimesMore
  <2> QED BY <1>1, <1>2, <2>1
<1>4. ~(n + 1 <= q)
  <2>1. n + 1 <= q => (n + 1) * d <= q * d
    BY <1>1, TimesMore
  <2> QED BY <1>1, <1>2, <2>1
<1> QED BY <1>1, <1>3, <1>4 DEF q

LEMMA CeilDivIs ==
  ASSUME NEW a \in Nat, NEW d \in Nat \ {0}, NEW n \in Int, a <= n * d, (n - 1) * d < a
  PROVE  CeilDiv(a, d) = n
<1>1. (n - 1) * d = n * d - d /\ (n + 1) * d = n * d + d
  BY Distribute
<1>2. a + d - 1 \in Nat
  OBVIOUS
<1>3. n * d \in Int
  OBVIOUS
<1>4. n * d <= a + d - 1 /\ a + d - 1 < (n + 1) * d
  BY <1>1, <1>2, <1>3
<1> QED BY <1>2, <1>4, DivIs DEF CeilDiv

-----------------------------------------------------------------------------
(* Complete playlists: timelines *)

(* Numbers some of which are given, and the others go on from them. *)
RunningSum(f, n, given, at, a) == f = [k \in 1 .. n |-> IF k \in given THEN at[k] ELSE f[k-1] + a[k-1]]

(* There is such a sum, over any number of places. *)
LEMMA RunningSumExists ==
  ASSUME NEW n \in Nat, NEW given, 1 \in given, NEW at, NEW a
  PROVE  \E f : RunningSum(f, n, given, at, a)
<1> DEFINE S == {m \in Nat : \E f : RunningSum(f, m, given, at, a)}
<1>1. 0 \in S
  <2>1. RunningSum([i \in 1 .. 0 |-> 0], 0, given, at, a)
    BY DEF RunningSum
  <2> QED BY <2>1
<1>2. ASSUME NEW m \in S PROVE m + 1 \in S
  <2>1. PICK g : RunningSum(g, m, given, at, a)
    OBVIOUS
  <2> DEFINE h == [k \in 1 .. m + 1 |-> IF k = m + 1
                                        THEN IF k \in given THEN at[k] ELSE g[m] + a[m] ELSE g[k]]
  <2>2. m \in Nat
    OBVIOUS
  <2>3. \A k \in 1 .. m : h[k] = g[k]
    BY <2>2
  <2>4. \A k \in 1 .. m : g[k] = IF k \in given THEN at[k] ELSE g[k-1] + a[k-1]
    BY <2>1 DEF RunningSum
  <2>5. \A k \in 1 .. m + 1 : h[k] = IF k \in given THEN at[k] ELSE h[k-1] + a[k-1]
    <3> TAKE k \in 1 .. m + 1
    <3>1. CASE k = m + 1
      <4>1. k \notin given => h[k - 1] = g[m] /\ k - 1 = m
        BY <2>2, <2>3, <3>1
      <4> QED BY <3>1, <4>1
    <3>2. CASE k # m + 1
      <4>1. k \in 1 .. m /\ (k \notin given => k - 1 \in 1 .. m)
        BY <2>2, <3>2
      <4> QED BY <2>3, <2>4, <4>1
    <3> QED BY <3>1, <3>2
  <2> HIDE DEF h
  <2>6. h = [k \in 1 .. m + 1 |-> h[k]]
    BY DEF h
  <2>7. RunningSum(h, m + 1, given, at, a)
    BY <2>5, <2>6 DEF RunningSum
  <2> QED BY <2>2, <2>7
<1> HIDE DEF S
<1>3. S = Nat
  BY <1>1, <1>2, SetInduction DEF S
<1> QED BY <1>3 DEF S

(* Where the segments of the S elements end. *)
LEMMA TimelineEnds ==
  ASSUME NEW S, IsSequence(S), \A s \in ToSet(S) : s.r \in Nat,
         NEW end, end = Ends([n \in DOMAIN S |-> S[n].r + 1])
  PROVE  /\ end[0] = 0 /\ \A n \in 0 .. Len(S) : end[n] \in Nat
         /\ \A n \in 1 .. Len(S) : end[n] = end[n - 1] + (S[n].r + 1) /\ S[n].r \in Nat
         /\ \A i \in 1 .. end[Len(S)] : \E n \in 1 .. Len(S) : i \in end[n - 1] + 1 .. end[n]
<1> DEFINE sizes == [n \in DOMAIN S |-> S[n].r + 1]
<1>1. Len(S) \in Nat /\ DOMAIN S = 1 .. Len(S) /\ \A n \in 1 .. Len(S) : S[n].r \in Nat
  BY SequenceIs
<1>2. sizes = [n \in 1 .. Len(S) |-> sizes[n]] /\ \A n \in 1 .. Len(S) : sizes[n] = S[n].r + 1
  BY <1>1
<1>3. end = Ends(sizes)
  OBVIOUS
<1> HIDE DEF sizes
<1>4. \A n \in 1 .. Len(S) : sizes[n] \in Nat
  BY <1>1, <1>2
<1>5. /\ end[0] = 0 /\ \A n \in 0 .. Len(S) : end[n] \in Nat
      /\ \A n \in 1 .. Len(S) : end[n] = end[n - 1] + sizes[n]
  BY <1>1, <1>2, <1>3, <1>4, EndsAre, ZenonT(40)
<1>6. \A n \in 1 .. Len(S) : end[n - 1] <= end[n] /\ end[n - 1] \in Nat /\ end[n] \in Nat
  <2> TAKE n \in 1 .. Len(S)
  <2>1. n - 1 \in 0 .. Len(S) /\ n \in 0 .. Len(S)
    BY <1>1
  <2>2. end[n - 1] \in Nat /\ end[n] \in Nat
    BY <1>5, <2>1
  <2> QED BY <1>4, <1>5, <2>2
<1>7. \A i \in 1 .. end[Len(S)] : \E n \in 1 .. Len(S) : end[n - 1] < i /\ i <= end[n]
  BY <1>1, <1>5, <1>6, EndsHold
<1>8. \A i \in 1 .. end[Len(S)] : \E n \in 1 .. Len(S) : i \in end[n - 1] + 1 .. end[n]
  <2> TAKE i \in 1 .. end[Len(S)]
  <2>1. PICK n \in 1 .. Len(S) : end[n - 1] < i /\ i <= end[n]
    BY <1>7
  <2>2. i \in end[n - 1] + 1 .. end[n]
    BY <1>6, <2>1
  <2> QED BY <2>2
<1> QED BY <1>1, <1>2, <1>5, <1>8

(* Entries of which each goes on from the one before where its S element    *)
(* does not say when it begins.                                             *)
Expands(es, S, end, first) ==
  /\ IsSequence(es) /\ Len(es) = end[Len(S)]
  /\ \A n \in 1 .. Len(S) : \A i \in end[n - 1] + 1 .. end[n] :
       /\ es[i].number = first + (i - 1) /\ es[i].time \in Nat
       /\ i > end[n - 1] + 1 => es[i].time = es[i - 1].time + S[n].d
       /\ ~(i > end[n - 1] + 1) =>
            /\ S[n].t # None => es[i].time = S[n].t
            /\ S[n].t = None /\ n = 1 => es[i].time = 0
            /\ S[n].t = None /\ n # 1 => es[i].time = es[i - 1].time + S[n - 1].d

(* preprocess_timeline expands S elements of any repeats so. *)
LEMMA TimelineExpands ==
  ASSUME NEW S, IsSequence(S), \A s \in ToSet(S) : s.r \in Nat /\ s.d \in Nat /\ (s.t # None => s.t \in Nat),
         NEW first \in Nat, NEW start, NEW pto,
         NEW end, end = Ends([n \in DOMAIN S |-> S[n].r + 1])
  PROVE  Expands(PreprocessTimeline(S, first, start, pto), S, end, first)
<1> DEFINE n == Len(S)
           copies == [m \in DOMAIN S |-> 1 + AtLeast(S[m].r, 0)]
           From == CHOOSE f : f = [m \in DOMAIN S |->
                     IF S[m].t # None THEN S[m].t
                     ELSE IF m = 1 THEN 0 ELSE f[m-1] + copies[m-1] * S[m-1].d]
           Number == CHOOSE f : f = [m \in DOMAIN S |->
                     IF m = 1 THEN first ELSE f[m-1] + copies[m-1]]
           Entry(m, at, k) == [number |-> Number[m] + k - 1, time |-> at, duration |-> S[m].d,
                            start |-> start + Monus(at, pto)]
           Expand(m) == [k \in 1 .. copies[m] |-> Entry(m, From[m] + (k - 1) * S[m].d, k)]
           f == [m \in DOMAIN S |-> Expand(m)]
           es == PreprocessTimeline(S, first, start, pto)
<1>1. es = FlattenSeq(f)
  BY DEF PreprocessTimeline
<1>2. /\ n \in Nat /\ DOMAIN S = 1 .. n
      /\ \A m \in 1 .. n : /\ S[m].r \in Nat /\ S[m].d \in Nat /\ (S[m].t # None => S[m].t \in Nat)
                           /\ copies[m] = S[m].r + 1
  <2>1. n \in Nat /\ DOMAIN S = 1 .. n
        /\ \A m \in 1 .. n : S[m].r \in Nat /\ S[m].d \in Nat /\ (S[m].t # None => S[m].t \in Nat)
    BY PlacesOf
  <2> QED BY <2>1 DEF AtLeast
<1> HIDE DEF copies
<1>e. /\ end[0] = 0 /\ \A m \in 0 .. n : end[m] \in Nat
      /\ \A m \in 1 .. n : end[m] = end[m - 1] + copies[m]
  <2>1. \A s \in ToSet(S) : s.r \in Nat
    OBVIOUS
  <2> QED BY <1>2, <2>1, TimelineEnds
<1>c. \A m \in 1 .. n : /\ copies[m] \in Nat /\ copies[m] >= 1 /\ S[m].d \in Nat
                        /\ end[m - 1] \in Nat /\ end[m] \in Nat /\ end[m] = end[m - 1] + copies[m]
  <2> TAKE m \in 1 .. n
  <2>1. copies[m] = S[m].r + 1 /\ S[m].r \in Nat /\ S[m].d \in Nat
    BY <1>2
  <2>2. m - 1 \in 0 .. n /\ m \in 0 .. n
    BY <1>2
  <2>3. end[m - 1] \in Nat /\ end[m] \in Nat /\ end[m] = end[m - 1] + copies[m]
    BY <1>e, <2>2
  <2>4. copies[m] \in Nat /\ copies[m] >= 1
    BY <2>1
  <2> QED BY <2>1, <2>3, <2>4
<1>3. Number = [m \in 1 .. n |-> IF m = 1 THEN first ELSE Number[m-1] + copies[m-1]]
  <2>2. Number = CHOOSE g : Sums(g, n, first, copies)
    BY <1>2 DEF Sums
  <2> HIDE DEF Number, n
  <2>1. \E g : Sums(g, n, first, copies)
    BY <1>2, SumsExist
  <2>3. Sums(Number, n, first, copies)
    BY <2>1, <2>2
  <2> QED BY <2>3 DEF Sums
<1>4. From = [m \in 1 .. n |-> IF S[m].t # None THEN S[m].t
                               ELSE IF m = 1 THEN 0 ELSE From[m-1] + copies[m-1] * S[m-1].d]
  <2> DEFINE F(g) == g = [m \in DOMAIN S |->
                     IF S[m].t # None THEN S[m].t
                     ELSE IF m = 1 THEN 0 ELSE g[m-1] + copies[m-1] * S[m-1].d]
             given == {1} \cup {m \in 1 .. n : S[m].t # None}
             at == [m \in 1 .. n |-> IF S[m].t # None THEN S[m].t ELSE 0]
             a == [m \in 1 .. n |-> copies[m] * S[m].d]
             G(g) == RunningSum(g, n, given, at, a)
  <2>1. \E g : G(g)
    <3>1. 1 \in given
      OBVIOUS
    <3> HIDE DEF n, a, at, given
    <3> QED BY <1>2, <3>1, RunningSumExists
  <2>2. ASSUME NEW g, G(g) PROVE F(g)
    <3>1. ASSUME NEW m \in 1 .. n
          PROVE  (IF S[m].t # None THEN S[m].t
                  ELSE IF m = 1 THEN 0 ELSE g[m-1] + copies[m-1] * S[m-1].d)
                 = IF m \in given THEN at[m] ELSE g[m-1] + a[m-1]
      <4>1. (m \in given <=> m = 1 \/ S[m].t # None) /\ at[m] = IF S[m].t # None THEN S[m].t ELSE 0
        BY <1>2
      <4>2. m # 1 => a[m - 1] = copies[m - 1] * S[m - 1].d
        BY <1>2
      <4> HIDE DEF given, at, a
      <4> QED BY <4>1, <4>2
    <3> HIDE DEF given, at, a
    <3>2. g = [m \in 1 .. n |-> IF m \in given THEN at[m] ELSE g[m-1] + a[m-1]]
      BY <2>2 DEF RunningSum
    <3>3. DOMAIN S = 1 .. n
      BY <1>2
    <3> HIDE DEF n
    <3> QED BY <3>1, <3>2, <3>3
  <2>4. \E g : F(g)
    BY <2>1, <2>2
  <2>5. From = CHOOSE g : F(g)
    OBVIOUS
  <2> HIDE DEF F, From
  <2>6. F(From)
    BY <2>4, <2>5
  <2> QED BY <1>2, <2>6 DEF F
<1> HIDE DEF From, Number
<1>5. \A m \in 1 .. n : Number[m] = IF m = 1 THEN first ELSE Number[m-1] + copies[m-1]
  BY <1>3
<1>6. \A m \in 1 .. n : From[m] = IF S[m].t # None THEN S[m].t
                                  ELSE IF m = 1 THEN 0 ELSE From[m-1] + copies[m-1] * S[m-1].d
  BY <1>4
<1> DEFINE P(m) == m <= n => From[m] \in Nat /\ Number[m] = first + end[m - 1]
           W == {m \in Nat : P(m + 1)}
<1>7. \A m \in 1 .. n : P(m)
  <2>1. 0 \in W
    BY <1>2, <1>5, <1>6, <1>e
  <2>2. ASSUME NEW m \in W PROVE m + 1 \in W
    <3> SUFFICES ASSUME (m + 1) + 1 <= n PROVE P((m + 1) + 1)
      OBVIOUS
    <3> DEFINE j == m + 1
               l == (m + 1) + 1
    <3>1. j \in 1 .. n /\ l \in 1 .. n /\ l - 1 = j /\ l # 1
      BY <1>2
    <3>2. From[j] \in Nat /\ Number[j] = first + end[j - 1]
      BY <3>1
    <3> HIDE DEF j, l
    <3>3. end[j] = end[j - 1] + copies[j] /\ end[j - 1] \in Nat /\ copies[j] \in Nat /\ S[j].d \in Nat
      BY <1>c, <3>1
    <3>4. Number[l] = Number[j] + copies[j]
      BY <1>5, <3>1
    <3>5. From[l] = IF S[l].t # None THEN S[l].t ELSE From[j] + copies[j] * S[j].d
      BY <1>6, <3>1
    <3>6. copies[j] * S[j].d \in Nat /\ (S[l].t # None => S[l].t \in Nat)
      BY <1>2, <3>1, <3>3
    <3>7. From[l] \in Nat
      BY <3>2, <3>5, <3>6
    <3>8. Number[l] = first + end[l - 1]
      BY <3>1, <3>2, <3>3, <3>4
    <3> QED BY <3>7, <3>8 DEF l
  <2> HIDE DEF W, P
  <2>3. W = Nat
    BY <2>1, <2>2, SetInduction DEF W
  <2> TAKE m \in 1 .. n
  <2>4. m - 1 \in Nat /\ (m - 1) + 1 = m
    BY <1>2
  <2> QED BY <2>3, <2>4 DEF W
<1>8. \A m \in 1 .. n : From[m] \in Nat /\ Number[m] = first + end[m - 1]
  BY <1>2, <1>7
<1> HIDE DEF W, P
<1>9. ASSUME NEW m \in 1 .. n
      PROVE  /\ IsSequence(f[m]) /\ Len(f[m]) = copies[m]
             /\ \A k \in 1 .. copies[m] : /\ f[m][k].number = Number[m] + k - 1
                                          /\ f[m][k].time = From[m] + (k - 1) * S[m].d
  <2>1. f[m] = [k \in 1 .. copies[m] |-> Entry(m, From[m] + (k - 1) * S[m].d, k)]
    BY <1>2
  <2>2. copies[m] \in Nat
    BY <1>2
  <2>3. \A at, k : Entry(m, at, k).number = Number[m] + k - 1 /\ Entry(m, at, k).time = at
    OBVIOUS
  <2> DEFINE e == f[m]
  <2> HIDE DEF e, f, Entry
  <2>4. e = [k \in 1 .. copies[m] |-> e[k]]
        /\ \A k \in 1 .. copies[m] : e[k] = Entry(m, From[m] + (k - 1) * S[m].d, k)
    BY <2>1 DEF e
  <2>5. IsSequence(e) /\ Len(e) = copies[m]
    BY <2>2, <2>4, PlacesMake
  <2>6. \A k \in 1 .. copies[m] : /\ e[k].number = Number[m] + k - 1
                                  /\ e[k].time = From[m] + (k - 1) * S[m].d
    BY <2>3, <2>4
  <2> QED BY <2>5, <2>6 DEF e
<1>10. f = [m \in 1 .. n |-> f[m]]
  BY <1>2
<1> HIDE DEF f, es
<1>11. CASE n = 0
  <2>1. f = <<>>
    BY <1>10, <1>11
  <2>2. es = <<>>
    BY <1>1, <2>1 DEF FlattenSeq
  <2>3. IsSequence(es) /\ Len(es) = 0
    BY <2>2 DEF IsSequence, ToSet
  <2> QED BY <1>e, <1>11, <2>3 DEF Expands, es
<1>12. CASE n # 0
  <2> HIDE DEF n
  <2>1. /\ IsSequence(es) /\ Len(es) = end[n]
        /\ \A m \in 1 .. n : \A k \in 1 .. copies[m] : es[end[m - 1] + k] = f[m][k]
    <3>1. n \in Nat \ {0} /\ \A m \in 1 .. n : IsSequence(f[m]) /\ end[m] = end[m - 1] + Len(f[m])
      BY <1>2, <1>9, <1>12, <1>e
    <3>2. Holds(es, f, n, end)
      BY <1>1, <1>10, <1>e, <3>1, FlattenPlaces
    <3> QED BY <1>9, <3>2 DEF Holds
  <2>2. ASSUME NEW m \in 1 .. n, NEW k \in 1 .. copies[m]
        PROVE  /\ es[end[m - 1] + k].number = first + end[m - 1] + k - 1
               /\ es[end[m - 1] + k].time = From[m] + (k - 1) * S[m].d
    BY <1>8, <1>9, <2>1
  <2>3. ASSUME NEW m \in 1 .. n, NEW i \in end[m - 1] + 1 .. end[m]
        PROVE  /\ es[i].number = first + (i - 1) /\ es[i].time \in Nat
               /\ i > end[m - 1] + 1 => es[i].time = es[i - 1].time + S[m].d
               /\ ~(i > end[m - 1] + 1) =>
                    /\ S[m].t # None => es[i].time = S[m].t
                    /\ S[m].t = None /\ m = 1 => es[i].time = 0
                    /\ S[m].t = None /\ m # 1 => es[i].time = es[i - 1].time + S[m - 1].d
    <3> DEFINE k == i - end[m - 1]
               d == S[m].d
    <3>2. end[m - 1] \in Nat /\ end[m] = end[m - 1] + copies[m] /\ copies[m] \in Nat /\ d \in Nat
          /\ From[m] \in Nat
      BY <1>8, <1>c
    <3>3. k \in 1 .. copies[m] /\ i = end[m - 1] + k /\ k \in Nat /\ i \in Nat /\ k >= 1
      BY <3>2
    <3>4. es[i].number = first + end[m - 1] + k - 1 /\ es[i].time = From[m] + (k - 1) * d
      BY <2>2, <3>3
    <3> HIDE DEF k, d
    <3>5. es[i].number = first + (i - 1)
      BY <3>2, <3>3, <3>4
    <3>6. es[i].time \in Nat
      <4>1. k - 1 \in Nat
        BY <3>3
      <4>2. (k - 1) * d \in Nat
        BY <3>2, <4>1
      <4> QED BY <3>2, <3>4, <4>2
    <3>7. ASSUME i > end[m - 1] + 1 PROVE es[i].time = es[i - 1].time + S[m].d
      <4>1. k - 1 \in 1 .. copies[m] /\ i - 1 = end[m - 1] + (k - 1)
        BY <3>2, <3>3, <3>7
      <4>2. es[i - 1].time = From[m] + ((k - 1) - 1) * d
        BY <2>2, <4>1 DEF d
      <4>3. ((k - 1) - 1) * d = (k - 1) * d + (-1) * d /\ (-1) * d = -d
        <5>1. k - 1 \in Int /\ -1 \in Int /\ d \in Int /\ (k - 1) - 1 = (k - 1) + (-1)
          BY <3>2, <3>3
        <5>2. ((k - 1) + (-1)) * d = (k - 1) * d + (-1) * d
          BY <5>1, Distribute
        <5> QED BY <5>1, <5>2
      <4>4. (k - 1) * d \in Int
        BY <3>2, <3>3
      <4> QED BY <3>2, <3>4, <4>2, <4>3, <4>4 DEF d
    <3>8. ASSUME ~(i > end[m - 1] + 1)
          PROVE  /\ S[m].t # None => es[i].time = S[m].t
                 /\ S[m].t = None /\ m = 1 => es[i].time = 0
                 /\ S[m].t = None /\ m # 1 => es[i].time = es[i - 1].time + S[m - 1].d
      <4>1. k = 1 /\ i - 1 = end[m - 1]
        BY <3>2, <3>3, <3>8
      <4>2. es[i].time = From[m]
        <5>1. (k - 1) * d = 0
          BY <3>2, <4>1
        <5> QED BY <3>2, <3>4, <5>1
      <4>3. ASSUME S[m].t = None, m # 1 PROVE es[i].time = es[i - 1].time + S[m - 1].d
        <5> DEFINE l == m - 1
                   c == copies[l]
                   b == S[l].d
        <5>1. l \in 1 .. n
          BY <1>2, <4>3
        <5>2. end[l] = end[l - 1] + c /\ c \in Nat /\ c >= 1 /\ b \in Nat /\ From[l] \in Nat /\ end[l - 1] \in Nat
          BY <1>8, <1>c, <5>1
        <5>3. From[m] = From[l] + c * b
          BY <1>6, <4>3
        <5>a. i - 1 = end[l]
          BY <4>1
        <5> HIDE DEF l
        <5>4. c \in 1 .. copies[l] /\ i - 1 = end[l - 1] + c
          BY <5>2, <5>a
        <5>5. es[i - 1].time = From[l] + (c - 1) * b
          BY <2>2, <5>1, <5>4
        <5> HIDE DEF c, b
        <5>6. (c - 1) * b = c * b - b
          <6>1. c \in Int /\ -1 \in Int /\ b \in Int /\ c - 1 = c + (-1)
            BY <5>2
          <6>2. (c + (-1)) * b = c * b + (-1) * b
            BY <6>1, Distribute
          <6> QED BY <6>1, <6>2
        <5>7. c * b \in Int
          BY <5>2
        <5>8. es[i].time = es[i - 1].time + b
          BY <4>2, <5>2, <5>3, <5>5, <5>6, <5>7
        <5> QED BY <5>8 DEF b, l
      <4>4. S[m].t # None => From[m] = S[m].t
        BY <1>6
      <4>5. S[m].t = None /\ m = 1 => From[m] = 0
        BY <1>6
      <4> QED BY <4>2, <4>3, <4>4, <4>5
    <3> QED BY <3>5, <3>6, <3>7, <3>8
  <2>4. Expands(es, S, end, first)
    BY <2>1, <2>3 DEF Expands, n
  <2> QED BY <2>4 DEF es
<1> QED BY <1>11, <1>12

-----------------------------------------------------------------------------
(* The segments of a representation are the true ones *)

(* Segments are the last of those that there truly are. *)
Matches(rep, segments, part) ==
  /\ IsSequence(segments) /\ IsSequence(part) /\ Len(segments) <= Len(part)
  /\ \A i \in 1 .. Len(segments) :
       part[Len(part) - Len(segments) + i] = TrueSegment(rep, segments[i].media, segments[i].range)

(* Segments made of entries. *)
LEMMA EntriesMatch ==
  ASSUME NEW rep, NEW entries, IsSequence(entries), NEW part, IsSequence(part), Len(entries) <= Len(part),
         \A i \in 1 .. Len(entries) :
           part[Len(part) - Len(entries) + i] = TrueSegment(rep, MediaName(rep, entries[i]), None)
  PROVE  LET segments == [i \in DOMAIN entries |-> EntryToSegment(rep, entries[i])] IN
         Matches(rep, segments, part) /\ Len(segments) = Len(entries)
<1> DEFINE s == [i \in DOMAIN entries |-> EntryToSegment(rep, entries[i])]
<1>1. Len(entries) \in Nat /\ DOMAIN entries = 1 .. Len(entries)
  BY SequenceIs
<1>2. s = [i \in 1 .. Len(entries) |-> s[i]]
      /\ \A i \in 1 .. Len(entries) : s[i] = EntryToSegment(rep, entries[i])
  BY <1>1
<1> HIDE DEF s
<1>3. IsSequence(s) /\ Len(s) = Len(entries)
  BY <1>1, <1>2, PlacesMake
<1>4. \A i \in 1 .. Len(entries) : s[i].media = MediaName(rep, entries[i]) /\ s[i].range = None
  BY <1>2 DEF EntryToSegment
<1>5. Matches(rep, s, part)
  BY <1>3, <1>4 DEF Matches
<1> QED BY <1>3, <1>5 DEF s

(* The code's name is the true one if it has the same number and time, and  *)
(* the time is not 0 where it is in the name.                               *)
LEMMA NameIs ==
  ASSUME NEW rep, NEW e, NEW i, NEW time, rep.naming = "number" => e.number = StartOf(rep) + i - 1,
         rep.naming # "number" => e.time = time /\ e.time > 0
  PROVE  MediaName(rep, e) = NameFor(rep, i, time)
BY DEF MediaName, NameFor

(* Of a timeline all segments are made. *)
LEMMA TimelineMatches ==
  ASSUME NEW rep, rep.form = "timeline", TimelineListable(rep), IsSequence(rep.S),
         NEW part, IsSequence(part), TimelineTrue(rep, part), NEW doc, NEW period, NEW now
  PROVE  LET segments == FromTemplate(doc, period, rep, now) IN
         Matches(rep, segments, part) /\ Len(segments) = Len(part)
<1> DEFINE S == rep.S
           n == Len(S)
           first == StartOf(rep)
           end == Ends([m \in DOMAIN S |-> S[m].r + 1])
           Time(m, i) == IF i > end[m - 1] + 1 THEN part[i - 1].media.at + S[m].d
                         ELSE IF S[m].t # None THEN S[m].t
                         ELSE IF m = 1 THEN 0 ELSE part[i - 1].media.at + S[m - 1].d
           start == doc.avail + period.start
           es == PreprocessTimeline(S, first, start, rep.pto)
<1>1. /\ first \in Nat /\ \A s \in ToSet(S) : s.r \in Nat /\ s.d \in Nat /\ (s.t # None => s.t \in Nat /\ Timely(rep, s.t))
      /\ S # <<>> /\ S[1].t = None => Timely(rep, 0)
  BY DEF TimelineListable
<1>2. n \in Nat /\ DOMAIN S = 1 .. n
      /\ \A m \in 1 .. n : S[m].d \in Nat /\ (S[m].t # None => S[m].t \in Nat /\ Timely(rep, S[m].t))
  BY <1>1, SequenceIs
<1>3. FromTemplate(doc, period, rep, now) = [i \in DOMAIN es |-> EntryToSegment(rep, es[i])]
  BY DEF FromTemplate, StartOf
<1>4. /\ Len(part) = end[n]
      /\ \A m \in 1 .. n : \A i \in end[m - 1] + 1 .. end[m] :
           part[i] = TrueSegment(rep, NameFor(rep, i, Time(m, i)), None)
  BY <1>2 DEF TimelineTrue
<1> HIDE DEF end
<1>5. /\ end[0] = 0 /\ \A m \in 0 .. n : end[m] \in Nat
      /\ \A m \in 1 .. n : end[m] = end[m - 1] + (S[m].r + 1) /\ S[m].r \in Nat
      /\ \A i \in 1 .. end[n] : \E m \in 1 .. n : i \in end[m - 1] + 1 .. end[m]
  BY <1>1, TimelineEnds DEF end
<1>6. Expands(es, S, end, first)
  <2>1. \A s \in ToSet(S) : s.r \in Nat /\ s.d \in Nat /\ (s.t # None => s.t \in Nat)
    BY <1>1
  <2> HIDE DEF start, S, first
  <2> QED BY <1>1, <2>1, TimelineExpands DEF end, S
<1> HIDE DEF es, first
<1>7. IsSequence(es) /\ Len(es) = end[n] /\ end[n] \in Nat
  BY <1>2, <1>5, <1>6 DEF Expands
<1>8. ASSUME NEW i \in 1 .. end[n], NEW m \in 1 .. n, i \in end[m - 1] + 1 .. end[m]
      PROVE  /\ es[i].number = first + (i - 1) /\ es[i].time \in Nat
             /\ i > end[m - 1] + 1 => es[i].time = es[i - 1].time + S[m].d
             /\ ~(i > end[m - 1] + 1) =>
                  /\ S[m].t # None => es[i].time = S[m].t
                  /\ S[m].t = None /\ m = 1 => es[i].time = 0
                  /\ S[m].t = None /\ m # 1 => es[i].time = es[i - 1].time + S[m - 1].d
  BY <1>6, <1>8 DEF Expands
<1> HIDE DEF S, n
<1>9. ASSUME NEW i \in 1 .. end[n], NEW m \in 1 .. n, i \in end[m - 1] + 1 .. end[m], rep.naming # "number",
             i # 1 => part[i - 1].media.at = es[i - 1].time /\ es[i - 1].time > 0 /\ es[i - 1].time \in Nat
      PROVE  es[i].time = Time(m, i) /\ es[i].time > 0
  <2>1. end[m - 1] \in Nat /\ i \in Nat /\ i >= 1 /\ m \in Nat /\ m >= 1 /\ S[m].d \in Nat
        /\ (m # 1 => end[m - 1] >= 1 /\ S[m - 1].d \in Nat)
    <3>1. m - 1 \in 0 .. n /\ i \in Nat /\ i >= 1 /\ m \in Nat /\ m >= 1
      BY <1>2, <1>7
    <3>2. end[m - 1] \in Nat
      BY <1>5, <3>1
    <3>3. ASSUME m # 1 PROVE end[m - 1] >= 1 /\ S[m - 1].d \in Nat
      <4> DEFINE l == m - 1
      <4>1. l \in 1 .. n /\ l - 1 \in 0 .. n
        BY <1>2, <3>3
      <4> HIDE DEF l
      <4>2. end[l] = end[l - 1] + (S[l].r + 1) /\ S[l].r \in Nat /\ end[l - 1] \in Nat
        BY <1>5, <4>1
      <4>3. end[l] >= 1
        BY <4>2
      <4> QED BY <1>2, <4>1, <4>3 DEF l
    <3> QED BY <1>2, <3>1, <3>2, <3>3
  <2>2. CASE i > end[m - 1] + 1
    <3>1. i # 1 /\ es[i].time = es[i - 1].time + S[m].d /\ Time(m, i) = part[i - 1].media.at + S[m].d
      BY <1>8, <1>9, <2>1, <2>2
    <3> HIDE DEF Time
    <3> QED BY <1>9, <2>1, <3>1
  <2>3. CASE ~(i > end[m - 1] + 1) /\ S[m].t # None
    <3>1. es[i].time = S[m].t /\ Time(m, i) = S[m].t
      BY <1>8, <1>9, <2>3
    <3>2. Timely(rep, S[m].t)
      BY <1>2, <2>3
    <3> QED BY <1>9, <3>1, <3>2 DEF Timely
  <2>4. CASE ~(i > end[m - 1] + 1) /\ S[m].t = None /\ m = 1
    <3>1. S # <<>>
      BY <1>2, <2>4 DEF n
    <3> QED BY <1>1, <1>9, <2>4, <3>1 DEF Timely
  <2>5. CASE ~(i > end[m - 1] + 1) /\ S[m].t = None /\ m # 1
    <3>1. es[i].time = es[i - 1].time + S[m - 1].d /\ Time(m, i) = part[i - 1].media.at + S[m - 1].d
      BY <1>8, <1>9, <2>5
    <3>2. i # 1
      BY <1>9, <2>1, <2>5
    <3> HIDE DEF Time
    <3> QED BY <1>9, <2>1, <2>5, <3>1, <3>2
  <2> QED BY <2>2, <2>3, <2>4, <2>5
<1> DEFINE Q(i) == i \in 1 .. end[n] /\ rep.naming # "number" =>
                     part[i].media.at = es[i].time /\ es[i].time > 0 /\ es[i].time \in Nat
           W == {j \in Nat : Q(j)}
<1>10. W = Nat
  <2>1. 0 \in W
    OBVIOUS
  <2>2. ASSUME NEW j \in W PROVE j + 1 \in W
    <3> SUFFICES ASSUME j + 1 \in 1 .. end[n], rep.naming # "number"
                 PROVE  LET i == j + 1 IN part[i].media.at = es[i].time /\ es[i].time > 0 /\ es[i].time \in Nat
      OBVIOUS
    <3> DEFINE i == j + 1
    <3>1. i \in 1 .. end[n] /\ i - 1 = j /\ (i # 1 => j \in 1 .. end[n])
      BY <1>7
    <3>2. i # 1 => part[i - 1].media.at = es[i - 1].time /\ es[i - 1].time > 0 /\ es[i - 1].time \in Nat
      BY <3>1
    <3> HIDE DEF W, Q, i
    <3>3. PICK m \in 1 .. n : i \in end[m - 1] + 1 .. end[m]
      BY <1>5, <3>1
    <3>4. es[i].time = Time(m, i) /\ es[i].time > 0 /\ es[i].time \in Nat
      BY <1>8, <1>9, <3>1, <3>2, <3>3
    <3>5. part[i] = TrueSegment(rep, NameFor(rep, i, Time(m, i)), None)
      BY <1>4, <3>3
    <3> HIDE DEF Time
    <3>6. part[i].media.at = Time(m, i)
      BY <3>5 DEF TrueSegment, NameFor
    <3> QED BY <3>4, <3>6 DEF i
  <2> HIDE DEF W
  <2> QED BY <2>1, <2>2, SetInduction DEF W
<1>11. ASSUME NEW i \in 1 .. end[n] PROVE part[i] = TrueSegment(rep, MediaName(rep, es[i]), None)
  <2>1. PICK m \in 1 .. n : i \in end[m - 1] + 1 .. end[m]
    BY <1>5
  <2>2. part[i] = TrueSegment(rep, NameFor(rep, i, Time(m, i)), None)
    BY <1>4, <2>1
  <2>3. rep.naming = "number" => es[i].number = StartOf(rep) + i - 1
    <3>1. es[i].number = first + (i - 1) /\ i \in Nat
      BY <1>7, <1>8, <2>1
    <3>2. first + (i - 1) = first + i - 1
      BY <1>1, <3>1
    <3> QED BY <3>1, <3>2 DEF first
  <2>4. rep.naming # "number" => es[i].time = Time(m, i) /\ es[i].time > 0
    <3>1. i # 1 => i - 1 \in W /\ i - 1 \in 1 .. end[n]
      <4>1. i \in Nat /\ i - 1 \in Nat
        BY <1>7
      <4> HIDE DEF W
      <4> QED BY <1>7, <1>10, <4>1
    <3>2. i # 1 /\ rep.naming # "number" =>
            part[i - 1].media.at = es[i - 1].time /\ es[i - 1].time > 0 /\ es[i - 1].time \in Nat
      BY <3>1
    <3> HIDE DEF W, Q, Time
    <3> QED BY <1>9, <2>1, <3>2 DEF Time
  <2> HIDE DEF Time
  <2>5. MediaName(rep, es[i]) = NameFor(rep, i, Time(m, i))
    BY <2>3, <2>4, NameIs
  <2> QED BY <2>2, <2>5
<1>12. Len(es) = Len(part) /\ Len(part) \in Nat
  BY <1>4, <1>7
<1>13. \A i \in 1 .. Len(es) : part[Len(part) - Len(es) + i] = TrueSegment(rep, MediaName(rep, es[i]), None)
  <2> TAKE i \in 1 .. Len(es)
  <2>1. Len(part) - Len(es) + i = i /\ i \in 1 .. end[n]
    BY <1>7, <1>12
  <2> QED BY <1>11, <2>1
<1> HIDE DEF Time
<1>14. LET segments == [i \in DOMAIN es |-> EntryToSegment(rep, es[i])] IN
       Matches(rep, segments, part) /\ Len(segments) = Len(es)
  BY <1>7, <1>12, <1>13, EntriesMatch
<1> QED BY <1>3, <1>12, <1>14

(* Of a recording with one duration for all segments all of them are made, *)
(* if its period lasts as long as the whole.                                *)
LEMMA RecordingMatches ==
  ASSUME NEW doc, ~doc.live, doc.total \in Nat, NEW p, NEW period, NEW rep, rep.form = "duration",
         rep.d \in Nat, TemplateListable(doc, p, rep),
         NEW part, IsSequence(part), NEW now, TemplateTrue(doc, p, rep, part, now)
  PROVE  LET segments == FromTemplate(doc, period, rep, now) IN
         Matches(rep, segments, part) /\ Len(segments) = Len(part)
<1> DEFINE n == Len(part)
           d == rep.d
           first == StartOf(rep)
           es == VodEntries(doc.total, d, first)
<1>1. /\ d \in Nat \ {0} /\ first \in Nat /\ Timely(rep, 0) /\ DurationOf(doc, p) = doc.total
  BY DEF TemplateListable
<1>2. FromTemplate(doc, period, rep, now) = [i \in DOMAIN es |-> EntryToSegment(rep, es[i])]
  BY <1>1 DEF FromTemplate, StartOf
<1>3. /\ doc.total <= n * d /\ (n - 1) * d < doc.total
      /\ \A i \in 1 .. n : part[i] = TrueSegment(rep, NameFor(rep, i, rep.pto + (i - 1) * d), None)
  BY <1>1 DEF TemplateTrue
<1>4. n \in Nat
  BY SequenceIs
<1> HIDE DEF n
<1>5. CeilDiv(doc.total, d) = n
  <2>1. n \in Int /\ d \in Nat \ {0} /\ doc.total <= n * d /\ (n - 1) * d < doc.total
    BY <1>1, <1>3, <1>4
  <2> HIDE DEF d
  <2> QED BY <2>1, CeilDivIs, Zenon
<1>6. es = [k \in 1 .. n |-> es[k]] /\ \A k \in 1 .. n : es[k].number = first + k - 1
  BY <1>5 DEF VodEntries
<1> HIDE DEF es
<1>7. IsSequence(es) /\ Len(es) = n
  BY <1>4, <1>6, PlacesMake
<1>8. rep.naming = "number"
  BY <1>1 DEF Timely
<1>9. ASSUME NEW i \in 1 .. n PROVE part[n - n + i] = TrueSegment(rep, MediaName(rep, es[i]), None)
  <2> DEFINE time == rep.pto + (i - 1) * d
  <2>1. part[i] = TrueSegment(rep, NameFor(rep, i, time), None)
    BY <1>3
  <2>2. es[i].number = StartOf(rep) + i - 1
    BY <1>6
  <2> HIDE DEF time
  <2>3. MediaName(rep, es[i]) = NameFor(rep, i, time)
    BY <1>8, <2>2, NameIs
  <2>4. n - n + i = i
    BY <1>4
  <2> QED BY <2>1, <2>3, <2>4
<1>10. LET segments == [i \in DOMAIN es |-> EntryToSegment(rep, es[i])] IN
       Matches(rep, segments, part) /\ Len(segments) = Len(es)
  BY <1>4, <1>7, <1>9, EntriesMatch DEF n
<1> QED BY <1>2, <1>7, <1>10 DEF n

(* Of a live channel with one duration for all segments the last ones are   *)
(* made that have ended, as many as the depth asks for.                      *)
LEMMA LiveMatches ==
  ASSUME NEW doc, doc.live, doc.depth \in Nat, NEW p \in DOMAIN doc.periods, NEW period, period = doc.periods[p],
         NEW rep, rep.form = "duration", rep.d \in Nat, Len(doc.periods) = 1, p = 1,
         TemplateListable(doc, p, rep),
         NEW part, IsSequence(part), NEW now \in Nat, TemplateTrue(doc, p, rep, part, now)
  PROVE  LET segments == FromTemplate(doc, period, rep, now) IN
         Matches(rep, segments, part) /\ Len(segments) >= Floor /\ Len(segments) >= FloorTs
<1> DEFINE n == Len(part)
           d == rep.d
           first == StartOf(rep)
           avail == doc.avail + period.start
           count == CeilDiv(doc.depth, d)
           es == LiveEntries(avail, doc.depth, d, first, rep.pto, now)
<1>1. /\ d \in Nat \ {0} /\ first \in Nat /\ rep.pto \in Nat /\ Timely(rep, rep.pto) /\ avail \in Int
      /\ count * d <= 0 - avail /\ Floor <= count /\ FloorTs <= count
  BY DEF TemplateListable, Since
<1>2. FromTemplate(doc, period, rep, now) = [i \in DOMAIN es |-> EntryToSegment(rep, es[i])]
  BY <1>1 DEF FromTemplate, StartOf
<1>3. /\ n * d <= AtLeast(now - avail, 0) /\ AtLeast(now - avail, 0) < (n + 1) * d
      /\ \A i \in 1 .. n : part[i] = TrueSegment(rep, NameFor(rep, i, rep.pto + (i - 1) * d), None)
  BY DEF TemplateTrue, Since
<1>4. n \in Nat
  BY SequenceIs
<1>5. count \in Nat
  <2>1. doc.depth + d - 1 \in Nat /\ d > 0
    BY <1>1
  <2> QED BY <1>1, <2>1 DEF CeilDiv
<1> HIDE DEF avail
<1>6. AtLeast(now - avail, 0) \in Nat /\ AtLeast(now - avail, 0) >= 0 - avail
  BY <1>1 DEF AtLeast
<1> HIDE DEF n, count
<1>7. AtLeast(now - avail, 0) \div d = n
  <2> DEFINE a == AtLeast(now - avail, 0)
  <2>1. n \in Int /\ d \in Nat \ {0} /\ a \in Nat /\ n * d <= a /\ a < (n + 1) * d
    BY <1>1, <1>3, <1>4, <1>6
  <2> HIDE DEF a, d
  <2>2. a \div d = n
    BY <2>1, DivIs, Zenon
  <2> QED BY <2>2 DEF a
<1>8. count <= n
  <2>1. n + 1 <= count => (n + 1) * d <= count * d
    BY <1>1, <1>4, <1>5, TimesMore
  <2>2. count * d \in Int /\ (n + 1) * d \in Int
    BY <1>1, <1>4, <1>5
  <2> QED BY <1>1, <1>3, <1>4, <1>5, <1>6, <2>1, <2>2
<1>9. AtLeast(Monus(first + n, count), first) = first + n - count
  BY <1>1, <1>4, <1>5, <1>8 DEF AtLeast, Monus
<1>10. es = [k \in 1 .. count |->
               [number |-> first + ((first + n - count) + k - 1 - first),
                time |-> rep.pto + ((first + n - count) + k - 1 - first) * d, duration |-> d,
                start |-> avail + ((first + n - count) + k - 1 - first) * d]]
  BY <1>7, <1>9 DEF LiveEntries, count
<1> HIDE DEF es
<1>11. ASSUME NEW k \in 1 .. count
       PROVE  /\ es[k].number = first + (n - count + k) - 1
              /\ es[k].time = rep.pto + ((n - count + k) - 1) * d
              /\ (n - count + k) - 1 \in Nat
  <2> DEFINE j == (first + n - count) + k - 1 - first
  <2>1. es[k].number = first + j /\ es[k].time = rep.pto + j * d
    BY <1>10
  <2>2. j = (n - count + k) - 1 /\ (n - count + k) - 1 \in Nat /\ first + j = first + (n - count + k) - 1
    BY <1>1, <1>4, <1>5, <1>8
  <2> HIDE DEF j
  <2> QED BY <2>1, <2>2
<1>12. IsSequence(es) /\ Len(es) = count
  BY <1>5, <1>10, PlacesMake
<1>13. ASSUME NEW k \in 1 .. count PROVE part[n - count + k] = TrueSegment(rep, MediaName(rep, es[k]), None)
  <2> DEFINE i == n - count + k
             time == rep.pto + (i - 1) * d
  <2>1. i \in 1 .. n
    BY <1>4, <1>5, <1>8
  <2>2. part[i] = TrueSegment(rep, NameFor(rep, i, time), None)
    BY <1>3, <2>1
  <2>3. es[k].number = StartOf(rep) + i - 1 /\ es[k].time = time /\ i - 1 \in Nat
    BY <1>11
  <2> HIDE DEF i
  <2>4. (i - 1) * d \in Nat
    BY <1>1, <2>3
  <2>5. rep.naming # "number" => es[k].time > 0
    BY <1>1, <2>3, <2>4 DEF Timely
  <2> HIDE DEF time
  <2>6. MediaName(rep, es[k]) = NameFor(rep, i, time)
    BY <2>3, <2>5, NameIs
  <2> QED BY <2>2, <2>6 DEF i
<1>14. LET segments == [i \in DOMAIN es |-> EntryToSegment(rep, es[i])] IN
       Matches(rep, segments, part) /\ Len(segments) = Len(es)
  BY <1>8, <1>12, <1>13, EntriesMatch DEF n
<1> QED BY <1>1, <1>2, <1>12, <1>14

(* Of a SegmentList all URLs that say where their segment is are segments. *)
LEMMA ListMatches ==
  ASSUME NEW rep, ListListable(rep), IsSequence(rep.urls), NEW part, IsSequence(part), ListTrue(rep, part)
  PROVE  Matches(rep, FromList(rep), part) /\ Len(FromList(rep)) = Len(part)
<1> DEFINE urls == rep.urls
           n == Len(urls)
           S == {i \in DOMAIN urls : urls[i].media # None \/ rep.base # None}
           named == Filtered(urls, S)
           Name(u) == IF u.media # None THEN u.media ELSE rep.base
           Out(i) == [Plain(Name(named[i]), i, AtLeast(rep.d, 1)) EXCEPT !.range = named[i].range]
           made == [i \in DOMAIN named |-> Out(i)]
<1>1. FromList(rep) = made
  BY DEF FromList
<1>2. n \in Nat /\ DOMAIN urls = 1 .. n
  BY SequenceIs
<1>3. S = DOMAIN urls
  <2>1. \A i \in DOMAIN urls : urls[i] \in ToSet(urls)
    BY MemberIs
  <2> QED BY <2>1 DEF ListListable
<1>4. named = urls
  BY <1>3, FilteredAll
<1>5. \A i : Out(i).media = Name(named[i]) /\ Out(i).range = named[i].range
  BY DEF Plain
<1> HIDE DEF named, Out, S
<1>6. made = [i \in 1 .. n |-> made[i]]
      /\ \A i \in 1 .. n : made[i].media = Name(urls[i]) /\ made[i].range = urls[i].range
  BY <1>2, <1>4, <1>5
<1> HIDE DEF made
<1>7. IsSequence(made) /\ Len(made) = n
  BY <1>2, <1>6, PlacesMake
<1>8. Len(part) = n /\ \A i \in 1 .. n : part[i] = TrueSegment(rep, Name(urls[i]), urls[i].range)
  BY <1>2 DEF ListTrue
<1> HIDE DEF Name, urls, n
<1>9. \A i \in 1 .. n : part[n - n + i] = TrueSegment(rep, made[i].media, made[i].range)
  <2> TAKE i \in 1 .. n
  <2>1. n - n + i = i
    BY <1>2
  <2> QED BY <1>6, <1>8, <2>1
<1>10. Matches(rep, made, part)
  BY <1>2, <1>7, <1>8, <1>9 DEF Matches
<1> QED BY <1>1, <1>7, <1>8, <1>10

(* A fragment of a file is a range of it. *)
LEMMA FragmentsMatch ==
  ASSUME NEW rep, NEW index, rep.index # None, index # None, index.have \in Nat, IsSequence(index.refs),
         FileListable(rep, index), NEW part, FileTrue(rep, index, part)
  PROVE  LET fragments == SidxFragments(index, rep.index[1]) IN
         /\ IsSequence(fragments) /\ fragments # <<>> /\ IsSequence(part) /\ Len(fragments) = Len(part)
         /\ \A i \in 1 .. Len(fragments) :
              part[i] = TrueSegment(rep, rep.base, <<fragments[i][1], fragments[i][2]>>)
<1> DEFINE refs == index.refs
           from == AfterSidx(rep, index)
           end == Ends([i \in DOMAIN refs |-> refs[i].size])
           S == {i \in DOMAIN refs : refs[i].media}
           Fragment(i) == <<from + end[i - 1], from + end[i] - 1, refs[i].d>>
           True(i) == TrueSegment(rep, rep.base, <<from + end[i - 1], from + end[i] - 1>>)
           all == [i \in DOMAIN refs |-> Fragment(i)]
           truly == [i \in DOMAIN refs |-> True(i)]
           fragments == SidxFragments(index, rep.index[1])
<1>1. Len(refs) \in Nat /\ DOMAIN refs = 1 .. Len(refs)
  BY SequenceIs
<1>2. Upto(refs, index.have) = refs
  <2>1. (IF index.have < Len(refs) THEN index.have ELSE Len(refs)) = Len(refs)
    BY <1>1 DEF FileListable
  <2> DEFINE T == ToSet(refs)
  <2>2. refs \in Seq(T)
    BY DEF IsSequence
  <2> HIDE DEF T
  <2>3. SubSeq(refs, 1, Len(refs)) = refs
    BY <2>2
  <2> QED BY <2>1, <2>3 DEF Upto
<1>3. fragments = Filtered(all, S)
  BY <1>2 DEF SidxFragments, AfterSidx
<1>4. part = Filtered(truly, S)
  BY DEF FileTrue
<1>5. \A i : <<Fragment(i)[1], Fragment(i)[2]>> = <<from + end[i - 1], from + end[i] - 1>>
  OBVIOUS
<1>6. \A i : True(i) = TrueSegment(rep, rep.base, <<Fragment(i)[1], Fragment(i)[2]>>)
  BY <1>5
<1>7. \E i \in S : TRUE
  <2>1. PICK ref \in ToSet(refs) : ref.media
    BY DEF FileListable
  <2>2. PICK i \in 1 .. Len(refs) : ref = refs[i]
    BY PlacesOf
  <2> QED BY <1>1, <2>1, <2>2
<1>8. S \in SUBSET (1 .. Len(refs))
  BY <1>1
<1> HIDE DEF Fragment, True, S, fragments
<1>9. /\ all = [i \in 1 .. Len(refs) |-> all[i]] /\ truly = [i \in 1 .. Len(refs) |-> truly[i]]
      /\ \A i \in 1 .. Len(refs) : truly[i] = TrueSegment(rep, rep.base, <<all[i][1], all[i][2]>>)
  BY <1>1, <1>6
<1> HIDE DEF all, truly, refs
<1>10. /\ IsSequence(all) /\ Len(all) = Len(refs) /\ DOMAIN all = 1 .. Len(refs)
       /\ IsSequence(truly) /\ Len(truly) = Len(refs) /\ DOMAIN truly = 1 .. Len(refs)
  BY <1>1, <1>9, PlacesMake
<1>11. /\ Len(part) = Len(fragments)
       /\ \A k \in 1 .. Len(fragments) : \E i \in S : fragments[k] = all[i] /\ part[k] = truly[i]
  <2>1. S \in SUBSET (DOMAIN all) /\ Len(all) = Len(truly)
    BY <1>8, <1>10
  <2>2. /\ Len(Filtered(truly, S)) = Len(Filtered(all, S))
        /\ \A k \in 1 .. Len(Filtered(all, S)) :
             \E i \in S : Filtered(all, S)[k] = all[i] /\ Filtered(truly, S)[k] = truly[i]
    BY <1>10, <2>1, FilteredAlike
  <2> QED BY <1>3, <1>4, <2>2
<1>12. IsSequence(fragments) /\ IsSequence(part)
       /\ \E o : Enumerates(o, Len(fragments), S)
  BY <1>3, <1>4, <1>8, <1>10, FilterKeeps
<1>13. fragments # <<>>
  <2>1. Len(fragments) # 0
    BY <1>7, <1>12 DEF Enumerates
  <2> QED BY <2>1
<1>14. \A i \in 1 .. Len(fragments) :
         part[i] = TrueSegment(rep, rep.base, <<fragments[i][1], fragments[i][2]>>)
  BY <1>8, <1>9, <1>11
<1> QED BY <1>11, <1>12, <1>13, <1>14 DEF fragments

(* Segments that come of a file. *)
LEMMA FileMatches ==
  ASSUME NEW rep, rep.form = "base", NEW index, IndexOk(index), FileListable(rep, index),
         NEW part, FileTrue(rep, index, part), NEW doc, NEW x, x.segments = FromBase(doc, rep),
         "segments" \in DOMAIN x
  PROVE  LET e == ExpandBase(x, index) IN
         Matches(rep, e.segments, part) /\ Len(e.segments) = Len(part)
<1> DEFINE range == IF rep.initRange = None THEN None ELSE <<rep.initRange[2] + 1, 0>>
           only == [Plain(rep.base, 1, AtLeast(doc.total, 1)) EXCEPT
                      !.range = range, !.initRange = rep.initRange, !.index = rep.index]
           s == x.segments[1]
           fragments == SidxFragments(index, s.index[1])
           Out(i) == [Plain(s.media, i, fragments[i][3]) EXCEPT
                        !.range = <<fragments[i][1], fragments[i][2]>>, !.initRange = s.initRange]
           made == [i \in DOMAIN fragments |-> Out(i)]
           e == ExpandBase(x, index)
<1>1. x.segments = <<only>>
  BY DEF FromBase
<1>2. only.media = rep.base /\ only.range = range /\ only.index = rep.index
  BY DEF Plain
<1> HIDE DEF only, range
<1>3. Len(x.segments) = 1 /\ s.media = rep.base /\ s.range = range /\ s.index = rep.index
      /\ x.segments = [i \in 1 .. 1 |-> x.segments[i]]
  BY <1>1, <1>2
<1>4. CASE index = None \/ rep.index = None
  <2>1. e = x
    BY <1>3, <1>4 DEF ExpandBase
  <2>2. part = <<TrueSegment(rep, rep.base, range)>>
    BY <1>4 DEF FileTrue, range
  <2> DEFINE y == TrueSegment(rep, rep.base, range)
  <2> HIDE DEF y
  <2>3. part = [i \in 1 .. 1 |-> part[i]] /\ part[1] = y
    BY <2>2 DEF y
  <2>4. 1 \in Nat
    OBVIOUS
  <2>5. IsSequence(part) /\ Len(part) = 1 /\ IsSequence(x.segments)
    BY <1>3, <2>3, <2>4, PlacesMake
  <2>6. \A i \in 1 .. 1 : part[1 - 1 + i] = TrueSegment(rep, x.segments[i].media, x.segments[i].range)
    <3> TAKE i \in 1 .. 1
    <3>1. i = 1 /\ 1 - 1 + i = 1
      OBVIOUS
    <3> QED BY <1>3, <2>3, <3>1 DEF y
  <2>7. Matches(rep, x.segments, part)
    BY <1>3, <2>5, <2>6 DEF Matches
  <2> QED BY <1>3, <2>1, <2>5, <2>7
<1>5. CASE index # None /\ rep.index # None
  <2>1. fragments = SidxFragments(index, rep.index[1])
    BY <1>3
  <2>2. index.have \in Nat /\ IsSequence(index.refs)
    BY <1>5 DEF IndexOk
  <2> HIDE DEF fragments
  <2>3. /\ IsSequence(fragments) /\ fragments # <<>> /\ IsSequence(part) /\ Len(fragments) = Len(part)
        /\ \A i \in 1 .. Len(fragments) :
             part[i] = TrueSegment(rep, rep.base, <<fragments[i][1], fragments[i][2]>>)
    BY <1>5, <2>1, <2>2, FragmentsMatch
  <2>4. e = [x EXCEPT !.segments = made]
    BY <1>3, <1>5, <2>3 DEF ExpandBase, fragments
  <2>5. Len(fragments) \in Nat /\ DOMAIN fragments = 1 .. Len(fragments)
    BY <2>3, SequenceIs
  <2>6. \A i : Out(i).media = s.media /\ Out(i).range = <<fragments[i][1], fragments[i][2]>>
    BY DEF Plain
  <2> HIDE DEF Out
  <2>7. made = [i \in 1 .. Len(fragments) |-> made[i]]
        /\ \A i \in 1 .. Len(fragments) :
             made[i].media = rep.base /\ made[i].range = <<fragments[i][1], fragments[i][2]>>
    BY <1>3, <2>5, <2>6
  <2> HIDE DEF made
  <2>8. IsSequence(made) /\ Len(made) = Len(fragments)
    BY <2>5, <2>7, PlacesMake
  <2> DEFINE n == Len(fragments)
  <2>9. \A i \in 1 .. n : part[n - n + i] = TrueSegment(rep, made[i].media, made[i].range)
    <3> TAKE i \in 1 .. n
    <3>1. n - n + i = i
      BY <2>5
    <3> QED BY <2>3, <2>7, <3>1
  <2>10. Matches(rep, made, part)
    BY <2>3, <2>5, <2>8, <2>9 DEF Matches
  <2>11. e.segments = made
    BY <2>4
  <2> HIDE DEF e
  <2> QED BY <2>3, <2>8, <2>10, <2>11 DEF e
<1> QED BY <1>4, <1>5

-----------------------------------------------------------------------------
(* The profile that is made of a representation *)

(* Only the one segment of a file has an index. *)
Unindexed(segments) == \A i \in DOMAIN segments : segments[i].index = None

(* Those of templates and of lists are such. *)
LEMMA TemplateUnindexed ==
  ASSUME NEW doc, NEW period, NEW rep, NEW now
  PROVE  Unindexed(FromTemplate(doc, period, rep, now))
<1> DEFINE segments == FromTemplate(doc, period, rep, now)
           avail == doc.avail + period.start
           number == IF rep.number = None THEN 1 ELSE rep.number
           es == IF rep.form = "timeline" THEN PreprocessTimeline(rep.S, number, avail, rep.pto)
                 ELSE IF rep.d = 0 THEN <<>>
                 ELSE IF doc.live THEN LiveEntries(avail, doc.depth, rep.d, number, rep.pto, now)
                 ELSE VodEntries(doc.total, rep.d, number)
<1>1. segments = [i \in DOMAIN es |-> EntryToSegment(rep, es[i])]
  BY DEF FromTemplate
<1> HIDE DEF segments, es
<1>2. \A i \in DOMAIN es : segments[i].index = None
  BY <1>1 DEF EntryToSegment
<1>3. DOMAIN segments = DOMAIN es
  BY <1>1
<1>4. Unindexed(segments)
  BY <1>2, <1>3 DEF Unindexed
<1> QED BY <1>4 DEF segments

LEMMA ListUnindexed ==
  ASSUME NEW rep
  PROVE  Unindexed(FromList(rep))
<1> DEFINE S == {i \in DOMAIN rep.urls : rep.urls[i].media # None \/ rep.base # None}
           named == Filtered(rep.urls, S)
           Name(u) == IF u.media # None THEN u.media ELSE rep.base
           Out(i) == [Plain(Name(named[i]), i, AtLeast(rep.d, 1)) EXCEPT !.range = named[i].range]
           made == [i \in DOMAIN named |-> Out(i)]
<1>1. FromList(rep) = made
  BY DEF FromList
<1>2. \A i : Out(i).index = None
  BY DEF Plain
<1> HIDE DEF Out, named
<1>3. DOMAIN made = DOMAIN named /\ \A i \in DOMAIN named : made[i] = Out(i)
  OBVIOUS
<1> HIDE DEF made
<1>4. Unindexed(made)
  BY <1>2, <1>3 DEF Unindexed
<1> QED BY <1>1, <1>4

(* Without an index a profile stays. *)
LEMMA StaysUnindexed ==
  ASSUME NEW x, NEW index, Unindexed(x.segments), IsSequence(x.segments)
  PROVE  ExpandBase(x, index) = x
<1>1. Len(x.segments) # 1 \/ x.segments[1].index = None
  <2> SUFFICES ASSUME Len(x.segments) = 1 PROVE x.segments[1].index = None
    OBVIOUS
  <2>1. 1 \in DOMAIN x.segments
    BY SequenceIs
  <2> QED BY <2>1 DEF Unindexed
<1> QED BY <1>1 DEF ExpandBase

(* What the standard calls the init segment is what compute_init_url gives. *)
LEMMA InitIs ==
  ASSUME NEW rep, rep.form \in {"timeline", "duration", "list", "base"},
         rep.form \in {"timeline", "duration"} => rep.init # None
  PROVE  InitOf(rep) = InitFor(rep)
<1>1. CASE rep.form \in {"timeline", "duration"}
  <2>1. InitOf(rep) = <<rep.init, None>>
    BY <1>1 DEF InitOf
  <2> QED BY <1>1, <2>1 DEF InitFor
<1>2. CASE rep.form = "list" /\ rep.init # None
  <2>1. InitOf(rep) = <<rep.init, None>>
    BY <1>2 DEF InitOf
  <2> QED BY <1>2, <2>1 DEF InitFor
<1>3. CASE rep.form = "list" /\ rep.init = None
  <2>1. InitOf(rep) = <<rep.base, rep.initRange>>
    BY <1>3 DEF InitOf
  <2> QED BY <1>3, <2>1 DEF InitFor
<1>4. CASE rep.form = "base"
  <2>1. InitOf(rep) = <<rep.base, rep.initRange>>
    BY <1>4 DEF InitOf
  <2> QED BY <1>4, <2>1 DEF InitFor
<1> QED BY <1>1, <1>2, <1>3, <1>4

(* A segment of a profile and its init segment are the true ones. *)
Shows(s, x, seg) ==
  /\ s.media = seg.media /\ s.range = seg.range
  /\ x.init = seg.init
  /\ (IF s.initRange # None THEN s.initRange ELSE x.initRange) = seg.initRange

(* Where not all are listed the channel is live and enough are. *)
Enough(doc, shows, all) ==
  shows # all => doc.live /\ Len(doc.periods) = 1 /\ Floor <= shows /\ FloorTs <= shows

(* The segments of a profile are the last of those that there are. *)
Lists(doc, x, part) ==
  /\ IsSequence(x.segments) /\ IsSequence(part)
  /\ Len(x.segments) <= Len(part) /\ Enough(doc, Len(x.segments), Len(part))
  /\ \A i \in 1 .. Len(x.segments) :
       Shows(x.segments[i], x, part[Len(part) - Len(x.segments) + i])

(* From the segments to their names. *)
LEMMA GeneratedMatch ==
  ASSUME NEW c, NEW doc, doc.depth \in Nat, doc.total \in Nat, IsSequence(doc.periods),
         NEW p \in DOMAIN doc.periods, NEW rep, Typed(rep),
         NEW index, index = Index(c), IndexOk(index), NEW now \in Nat, RepListable(c, doc, p, rep),
         NEW part, IsSequence(part), RepTrue(c, doc, p, rep, part, now),
         NEW x, x.segments = GenerateSegments(doc, doc.periods[p], rep, now), "segments" \in DOMAIN x
  PROVE  LET e == ExpandBase(x, index) IN
         Matches(rep, e.segments, part) /\ Enough(doc, Len(e.segments), Len(part))
<1> DEFINE period == doc.periods[p]
           e == ExpandBase(x, index)
<1>1. CASE rep.form = "timeline"
  <2>1. TimelineListable(rep) /\ TimelineTrue(rep, part) /\ x.segments = FromTemplate(doc, period, rep, now)
    BY <1>1 DEF RepListable, RepTrue, GenerateSegments
  <2>2. IsSequence(rep.S)
    BY DEF Typed
  <2> HIDE DEF period
  <2>3. Matches(rep, x.segments, part) /\ Len(x.segments) = Len(part)
    BY <1>1, <2>1, <2>2, TimelineMatches
  <2>4. e = x
    BY <2>1, <2>3, TemplateUnindexed, StaysUnindexed DEF Matches
  <2> QED BY <2>3, <2>4 DEF Enough
<1>2. CASE rep.form = "duration" /\ ~doc.live
  <2>1. TemplateListable(doc, p, rep) /\ TemplateTrue(doc, p, rep, part, now)
        /\ x.segments = FromTemplate(doc, period, rep, now) /\ rep.d \in Nat
    BY <1>2 DEF RepListable, RepTrue, GenerateSegments, Typed
  <2> HIDE DEF period
  <2>2. Matches(rep, x.segments, part) /\ Len(x.segments) = Len(part)
    BY <1>2, <2>1, RecordingMatches
  <2>3. e = x
    BY <2>1, <2>2, TemplateUnindexed, StaysUnindexed DEF Matches
  <2> QED BY <2>2, <2>3 DEF Enough
<1>3. CASE rep.form = "duration" /\ doc.live
  <2>1. TemplateListable(doc, p, rep) /\ TemplateTrue(doc, p, rep, part, now)
        /\ x.segments = FromTemplate(doc, period, rep, now) /\ rep.d \in Nat
    BY <1>3 DEF RepListable, RepTrue, GenerateSegments, Typed
  <2>2. Len(doc.periods) = 1 /\ p = 1
    <3>1. Len(doc.periods) = 1
      BY <1>3, <2>1 DEF TemplateListable
    <3>2. DOMAIN doc.periods = 1 .. 1
      BY <3>1, SequenceIs
    <3> QED BY <3>1, <3>2
  <2>a. period = doc.periods[p]
    OBVIOUS
  <2> HIDE DEF period
  <2>3. Matches(rep, x.segments, part) /\ Len(x.segments) >= Floor /\ Len(x.segments) >= FloorTs
    BY <1>3, <2>1, <2>2, <2>a, LiveMatches
  <2>4. e = x
    BY <2>1, <2>3, TemplateUnindexed, StaysUnindexed DEF Matches
  <2>5. Len(x.segments) \in Nat /\ Floor \in Nat /\ FloorTs \in Nat
    BY <2>3, SequenceIs, DashTypes DEF Matches
  <2> HIDE DEF e
  <2>6. Enough(doc, Len(x.segments), Len(part))
    BY <1>3, <2>2, <2>3, <2>5 DEF Enough
  <2> QED BY <2>3, <2>4, <2>6 DEF e
<1>4. CASE rep.form = "list"
  <2>1. ListListable(rep) /\ ListTrue(rep, part) /\ x.segments = FromList(rep) /\ IsSequence(rep.urls)
    BY <1>4 DEF RepListable, RepTrue, GenerateSegments, Typed
  <2>2. Matches(rep, x.segments, part) /\ Len(x.segments) = Len(part)
    BY <2>1, ListMatches
  <2>3. e = x
    BY <2>1, <2>2, ListUnindexed, StaysUnindexed DEF Matches
  <2> QED BY <2>2, <2>3 DEF Enough
<1>5. CASE rep.form = "base"
  <2>1. FileListable(rep, index) /\ FileTrue(rep, index, part) /\ x.segments = FromBase(doc, rep)
    BY <1>5 DEF RepListable, RepTrue, GenerateSegments
  <2>2. Matches(rep, e.segments, part) /\ Len(e.segments) = Len(part)
    BY <1>5, <2>1, FileMatches
  <2> QED BY <2>2 DEF Enough
<1>6. CASE rep.form = "none"
  <2>1. part = <<>> /\ x.segments = <<>>
    BY <1>6 DEF RepTrue, GenerateSegments
  <2>2. Len(x.segments) = 0 /\ IsSequence(x.segments) /\ Len(part) = 0
    BY <2>1
  <2>3. e = x
    <3>1. Len(x.segments) # 1
      BY <2>2
    <3> QED BY <3>1 DEF ExpandBase
  <2>4. Matches(rep, x.segments, part)
    BY <2>2 DEF Matches
  <2> QED BY <2>2, <2>3, <2>4 DEF Enough
<1> QED BY <1>1, <1>2, <1>3, <1>4, <1>5, <1>6 DEF Typed

(* What the handler makes of a representation lists its segments. *)
LEMMA ProfileLists ==
  ASSUME NEW c, NEW doc, doc.depth \in Nat, doc.total \in Nat, IsSequence(doc.periods),
         NEW p \in DOMAIN doc.periods, NEW rep, Typed(rep),
         NEW index, index = Index(c), IndexOk(index), NEW now \in Nat, RepListable(c, doc, p, rep),
         NEW part, IsSequence(part), RepTrue(c, doc, p, rep, part, now)
  PROVE  Lists(doc, ExpandBase(Profile(doc, doc.periods[p], rep, IdOf(rep), now), index), part)
<1> DEFINE period == doc.periods[p]
           x == Profile(doc, period, rep, IdOf(rep), now)
           e == ExpandBase(x, index)
           range == InitOf(rep)[2]
<1>1. x.segments = GenerateSegments(doc, period, rep, now) /\ x.init = InitOf(rep)[1] /\ x.initRange = range
      /\ {"init", "initRange", "segments"} \subseteq DOMAIN x
  BY DEF Profile, IdOf
<1> HIDE DEF x, range
<1>2. Initialized(x.segments, x.initRange)
  <2> HIDE DEF period
  <2> QED BY <1>1, GeneratedIs DEF range
<1>3. e.init = x.init /\ e.initRange = x.initRange /\ Initialized(e.segments, x.initRange)
  BY <1>1, <1>2, ExpandedIs
<1>4. Matches(rep, e.segments, part) /\ Enough(doc, Len(e.segments), Len(part))
  BY <1>1, GeneratedMatch
<1> DEFINE s == e.segments
           n == Len(s)
<1>5. /\ IsSequence(s) /\ n <= Len(part)
      /\ \A i \in 1 .. n : part[Len(part) - n + i] = TrueSegment(rep, s[i].media, s[i].range)
  BY <1>4 DEF Matches
<1>6. \A i \in 1 .. n : s[i].initRange \in {None, e.initRange}
  <2>1. \A i \in 1 .. n : s[i] \in ToSet(s)
    BY <1>5, SequenceIs
  <2> QED BY <1>3, <2>1 DEF Initialized
<1>7. 1 \in 1 .. n => InitOf(rep) = InitFor(rep)
  <2> SUFFICES ASSUME 1 \in 1 .. n PROVE InitOf(rep) = InitFor(rep)
    OBVIOUS
  <2>1. rep.form # "none"
    <3> SUFFICES ASSUME rep.form = "none" PROVE FALSE
      OBVIOUS
    <3>1. part = <<>>
      BY DEF RepTrue
    <3>2. Len(part) = 0 /\ n \in Nat
      BY <1>5, <3>1, SequenceIs
    <3> HIDE DEF s
    <3> QED BY <1>5, <3>2
  <2>2. rep.form \in {"timeline", "duration"} => rep.init # None
    BY DEF RepListable, TimelineListable, TemplateListable
  <2> QED BY <2>1, <2>2, InitIs DEF Typed
<1> HIDE DEF e
<1>8. ASSUME NEW i \in 1 .. n PROVE Shows(s[i], e, part[Len(part) - n + i])
  <2> DEFINE seg == part[Len(part) - n + i]
  <2>1. n \in Nat
    BY <1>5, SequenceIs
  <2>2. seg = TrueSegment(rep, s[i].media, s[i].range)
    BY <1>5
  <2>3. InitOf(rep) = InitFor(rep)
    BY <1>7, <2>1
  <2>4. seg.media = s[i].media /\ seg.range = s[i].range
        /\ seg.init = InitFor(rep)[1] /\ seg.initRange = InitFor(rep)[2]
    BY <2>2 DEF TrueSegment
  <2>5. e.init = seg.init /\ e.initRange = seg.initRange
    BY <1>1, <1>3, <2>3, <2>4 DEF range
  <2> HIDE DEF seg
  <2>6. s[i].initRange \in {None, e.initRange}
    BY <1>6
  <2>7. Shows(s[i], e, seg)
    BY <2>4, <2>5, <2>6 DEF Shows
  <2> QED BY <2>7 DEF seg
<1>9. Lists(doc, e, part)
  BY <1>4, <1>5, <1>8 DEF Lists
<1> QED BY <1>9 DEF e, x

-----------------------------------------------------------------------------
(* One profile of each period *)

(* m holds an element with this id of each of the pieces h. *)
OneOfEach(m, h, f, n, id) ==
  /\ IsSequence(m) /\ Len(m) = Len(h)
  /\ \A k \in 1 .. Len(m) :
       h[k] \in 1 .. n /\ \E j \in 1 .. Len(f[h[k]]) : m[k] = f[h[k]][j] /\ m[k].id = id

(* The pieces that have an element with an id. *)
WithId(f, n, id) == {p \in 1 .. n : \E j \in 1 .. Len(f[p]) : f[p][j].id = id}

(* Of pieces with one such element at most, those with the id come in order. *)
LEMMA OneOfEachIs ==
  ASSUME NEW n \in Nat \ {0}, NEW f, f = [p \in 1 .. n |-> f[p]], \A p \in 1 .. n : IsSequence(f[p]),
         NEW id,
         \A p \in 1 .. n : \A i, j \in 1 .. Len(f[p]) : f[p][i].id = id /\ f[p][j].id = id => i = j
  PROVE  LET s == FlattenSeq(f)
             S == {i \in DOMAIN s : s[i].id = id}
             H == WithId(f, n, id)
         IN  OneOfEach(Filtered(s, S), Filtered([p \in 1 .. n |-> p], H), f, n, id)
<1> DEFINE s == FlattenSeq(f)
           S == {i \in DOMAIN s : s[i].id = id}
           H == WithId(f, n, id)
           m == Filtered(s, S)
           places == [p \in 1 .. n |-> p]
           h == Filtered(places, H)
           sizes == [p \in 1 .. n |-> Len(f[p])]
           end == Ends(sizes)
<1>1. \A p \in 1 .. n : sizes[p] = Len(f[p]) /\ Len(f[p]) \in Nat
  BY SequenceIs
<1>2. sizes = [p \in 1 .. n |-> sizes[p]]
  OBVIOUS
<1> HIDE DEF sizes
<1>3. end[0] = 0 /\ (\A p \in 0 .. n : end[p] \in Nat) /\ \A p \in 1 .. n : end[p] = end[p - 1] + Len(f[p])
  <2>1. \A p \in 1 .. n : sizes[p] \in Nat
    BY <1>1
  <2>2. end[0] = 0 /\ (\A p \in 0 .. n : end[p] \in Nat) /\ \A p \in 1 .. n : end[p] = end[p - 1] + sizes[p]
    BY <1>2, <2>1, EndsAre
  <2> HIDE DEF end
  <2> QED BY <1>1, <2>2
<1> HIDE DEF end
<1>4. Holds(s, f, n, end)
  BY <1>3, FlattenPlaces
<1>5. \A p \in 1 .. n : end[p - 1] \in Nat /\ end[p - 1] <= end[p]
  <2> TAKE p \in 1 .. n
  <2>1. p - 1 \in 0 .. n
    OBVIOUS
  <2> QED BY <1>1, <1>3, <2>1
<1>6. /\ \A i, j \in 0 .. n : i <= j => end[i] <= end[j]
      /\ \A i \in 1 .. end[n] : \E p \in 1 .. n : end[p - 1] < i /\ i <= end[p]
  BY <1>3, <1>5, EndsHold
<1> HIDE DEF s
<1>7. IsSequence(s) /\ DOMAIN s = 1 .. end[n]
  BY <1>4, SequenceIs DEF Holds
<1>8. S \in SUBSET (DOMAIN s) /\ \A i \in DOMAIN s : i \in S <=> s[i].id = id
  OBVIOUS
<1> HIDE DEF S
<1>9. IsSequence(m) /\ Len(m) \in Nat
  BY <1>7, <1>8, FilterKeeps
<1>10. PICK o : Enumerates(o, Len(m), S) /\ \A k \in 1 .. Len(m) : m[k] = s[o[k]]
  BY <1>7, <1>8, FilterKeeps, ZenonT(40)
<1> HIDE DEF m
<1> DEFINE In(i, p) == end[p - 1] < i /\ i <= end[p]
           per == [k \in 1 .. Len(m) |-> CHOOSE p \in 1 .. n : In(o[k], p)]
           at == [k \in 1 .. Len(m) |-> o[k] - end[per[k] - 1]]
           L(k) == /\ o[k] \in 1 .. end[n] /\ per[k] \in 1 .. n /\ In(o[k], per[k])
                   /\ at[k] = o[k] - end[per[k] - 1] /\ at[k] \in 1 .. Len(f[per[k]])
                   /\ s[o[k]] = f[per[k]][at[k]] /\ s[o[k]].id = id
<1>11. ASSUME NEW k \in 1 .. Len(m) PROVE L(k)
  <2>1. o[k] \in 1 .. end[n] /\ s[o[k]].id = id
    BY <1>7, <1>8, <1>10 DEF Enumerates
  <2>2. \E p \in 1 .. n : In(o[k], p)
    BY <1>6, <2>1
  <2>3. per[k] \in 1 .. n /\ In(o[k], per[k]) /\ at[k] = o[k] - end[per[k] - 1]
    BY <2>2
  <2> HIDE DEF per, at
  <2>4. at[k] \in 1 .. Len(f[per[k]]) /\ o[k] = end[per[k] - 1] + at[k]
    <3>1. end[per[k]] = end[per[k] - 1] + Len(f[per[k]]) /\ end[per[k] - 1] \in Nat /\ Len(f[per[k]]) \in Nat
      BY <1>1, <1>3, <1>5, <2>3
    <3>2. o[k] \in Nat
      BY <1>3, <2>1
    <3> QED BY <2>3, <3>1, <3>2
  <2>5. s[o[k]] = f[per[k]][at[k]]
    BY <1>4, <2>3, <2>4 DEF Holds
  <2> QED BY <2>1, <2>3, <2>4, <2>5
<1> HIDE DEF per, at, L
<1>12. ASSUME NEW i \in Nat, NEW j \in Nat, i <= j, NEW p \in 1 .. n, In(i, p), NEW q \in 1 .. n, In(j, q)
       PROVE  p <= q
  <2> SUFFICES ASSUME q < p PROVE FALSE
    OBVIOUS
  <2>1. q \in 0 .. n /\ p - 1 \in 0 .. n /\ q <= p - 1
    OBVIOUS
  <2>2. end[q] <= end[p - 1] /\ end[q] \in Nat /\ end[p - 1] \in Nat
    BY <1>3, <1>6, <2>1
  <2> QED BY <1>12, <2>2
<1>13. ASSUME NEW k \in 1 .. Len(m) PROVE per[k] \in H
  <2>1. L(k)
    BY <1>11
  <2> QED BY <2>1 DEF L, WithId
<1>14. ASSUME NEW k \in 1 .. Len(m), NEW l \in 1 .. Len(m), k < l PROVE per[k] < per[l]
  <2>a. L(k) /\ L(l) /\ n \in 0 .. n
    BY <1>11
  <2>b. o[k] < o[l]
    BY <1>10, <1>14 DEF Enumerates
  <2>1. o[k] < o[l] /\ o[k] \in Nat /\ o[l] \in Nat
    BY <1>3, <2>a, <2>b DEF L
  <2>2. per[k] <= per[l]
    <3>1. o[k] <= o[l] /\ per[k] \in 1 .. n /\ per[l] \in 1 .. n /\ In(o[k], per[k]) /\ In(o[l], per[l])
      BY <2>a, <2>1 DEF L
    <3> HIDE DEF In
    <3> QED BY <1>12, <2>1, <3>1
  <2>3. per[k] # per[l]
    <3> SUFFICES ASSUME per[k] = per[l] PROVE FALSE
      OBVIOUS
    <3>1. at[k] = at[l]
      BY <2>a DEF L
    <3>2. end[per[k] - 1] \in Nat
      BY <1>5, <2>a DEF L
    <3> QED BY <2>a, <2>1, <3>1, <3>2 DEF L
  <2>4. per[k] \in Int /\ per[l] \in Int
    BY <2>a DEF L
  <2> QED BY <2>2, <2>3, <2>4
<1>15. ASSUME NEW p \in H PROVE \E k \in 1 .. Len(m) : per[k] = p
  <2>1. PICK j \in 1 .. Len(f[p]) : f[p][j].id = id
    BY DEF WithId
  <2> DEFINE i == end[p - 1] + j
  <2>2. p \in 1 .. n /\ end[p - 1] \in Nat /\ end[p] = end[p - 1] + Len(f[p]) /\ Len(f[p]) \in Nat
        /\ p \in 0 .. n /\ n \in 0 .. n
    BY <1>1, <1>3, <1>5 DEF WithId
  <2>3. end[p] <= end[n] /\ end[p] \in Nat /\ end[n] \in Nat
    BY <1>3, <1>6, <2>2
  <2>4. i \in 1 .. end[n] /\ In(i, p) /\ i \in Nat
    BY <2>2, <2>3
  <2>5. s[i] = f[p][j]
    BY <1>4, <2>2 DEF Holds
  <2>6. i \in S
    BY <1>7, <1>8, <2>1, <2>4, <2>5
  <2> HIDE DEF i
  <2>7. PICK k \in 1 .. Len(m) : o[k] = i
    BY <1>10, <2>6 DEF Enumerates
  <2>8. In(i, per[k]) /\ per[k] \in 1 .. n
    BY <1>11, <2>7 DEF L
  <2>9. p <= per[k]
    <3>1. In(i, p) /\ In(i, per[k]) /\ p \in 1 .. n /\ per[k] \in 1 .. n /\ i \in Nat
      BY <2>2, <2>4, <2>8
    <3> QED BY <1>12, <3>1
  <2>10. per[k] <= p
    <3>1. In(i, p) /\ In(i, per[k]) /\ p \in 1 .. n /\ per[k] \in 1 .. n /\ i \in Nat
      BY <2>2, <2>4, <2>8
    <3> QED BY <1>12, <3>1
  <2> QED BY <2>2, <2>8, <2>9, <2>10
<1>16. Enumerates(per, Len(m), H)
  BY <1>13, <1>14, <1>15 DEF Enumerates
<1>17. H \in SUBSET (1 .. n) /\ H \in SUBSET Int
  BY DEF WithId
<1> HIDE DEF H
<1>18. IsSequence(places) /\ DOMAIN places = 1 .. n /\ \A p \in 1 .. n : places[p] = p
  <2>1. places = [p \in 1 .. n |-> places[p]] /\ n \in Nat /\ \A p \in 1 .. n : places[p] = p
    OBVIOUS
  <2> HIDE DEF places
  <2> QED BY <2>1, PlacesMake
<1> HIDE DEF places
<1>19. PICK q : Enumerates(q, Len(h), H) /\ \A k \in 1 .. Len(h) : h[k] = places[q[k]]
  BY <1>17, <1>18, FilterKeeps
<1>20. Len(h) \in Nat
  BY <1>17, <1>18, FilterKeeps
<1> HIDE DEF h
<1>21. Len(m) = Len(h) /\ \A k \in 1 .. Len(m) : per[k] = q[k]
  <2> DEFINE a == Len(m)
             b == Len(h)
  <2>1. a \in Nat /\ b \in Nat /\ Enumerates(per, a, H) /\ Enumerates(q, b, H) /\ H \in SUBSET Int
    BY <1>9, <1>16, <1>17, <1>19, <1>20
  <2> HIDE DEF a, b
  <2>2. a = b /\ \A k \in 1 .. a : per[k] = q[k]
    BY <2>1, EnumeratesOnce
  <2> QED BY <2>2 DEF a, b
<1>22. ASSUME NEW k \in 1 .. Len(m)
       PROVE  h[k] \in 1 .. n /\ \E j \in 1 .. Len(f[h[k]]) : m[k] = f[h[k]][j] /\ m[k].id = id
  <2>0. L(k)
    BY <1>11
  <2>1. h[k] = per[k]
    BY <1>18, <1>19, <1>21, <2>0 DEF L
  <2>2. m[k] = s[o[k]]
    BY <1>10
  <2> QED BY <2>0, <2>1, <2>2 DEF L
<1>23. OneOfEach(m, h, f, n, id)
  BY <1>9, <1>21, <1>22 DEF OneOfEach
<1> QED BY <1>23 DEF m, h, s, S, H, places

(* In no period do two representations have the same id. *)
UniqueIds(doc) ==
  \A p \in DOMAIN doc.periods :
    LET reps == doc.periods[p].reps IN
    \A i, j \in DOMAIN reps :
      reps[i].kind \in {"video", "audio"} /\ Plays(reps[j], IdOf(reps[i])) => i = j

(* The profile of each period that has the id. *)
ProfileOfEach(matching, doc, id, now) ==
  /\ IsSequence(matching) /\ Len(matching) = Len(Having(doc, id))
  /\ \A k \in 1 .. Len(matching) :
       LET p == Having(doc, id)[k] IN
       /\ p \in DOMAIN doc.periods
       /\ \E rep \in ToSet(doc.periods[p].reps) :
            Plays(rep, id) /\ matching[k] = Profile(doc, doc.periods[p], rep, id, now)

(* The profiles of an MPD that a playlist is asked of are those. *)
LEMMA MatchingIs ==
  ASSUME NEW doc, IsSequence(doc.periods), \A p \in DOMAIN doc.periods : IsSequence(doc.periods[p].reps),
         UniqueIds(doc), NEW id, NEW now, doc.periods # <<>>
  PROVE  LET profiles == ParseMpd(doc, id, now) IN
         ProfileOfEach(Filtered(profiles, {i \in DOMAIN profiles : profiles[i].id = id}), doc, id, now)
<1> DEFINE periods == doc.periods
           n == Len(periods)
           Kept(p) == {i \in DOMAIN periods[p].reps : periods[p].reps[i].kind \in {"video", "audio"}}
           played(p) == Filtered(periods[p].reps, Kept(p))
           Out(p) == [i \in DOMAIN played(p) |-> Profile(doc, periods[p], played(p)[i], id, now)]
           f == [p \in DOMAIN periods |-> Out(p)]
           profiles == ParseMpd(doc, id, now)
           having == Having(doc, id)
<1>1. profiles = FlattenSeq(f)
  BY DEF ParseMpd
<1>2. n \in Nat \ {0} /\ DOMAIN periods = 1 .. n
  <2> DEFINE T == ToSet(periods)
  <2>1. periods \in Seq(T)
    BY DEF IsSequence
  <2> HIDE DEF T
  <2>2. Len(periods) # 0
    BY <2>1, EmptySeq
  <2> QED BY <2>2, SequenceIs
<1>3. f = [p \in 1 .. n |-> f[p]] /\ \A p \in 1 .. n : f[p] = Out(p)
  BY <1>2
<1>a. \A p, r : Profile(doc, periods[p], r, id, now).id = IdOf(r)
  BY DEF Profile, IdOf
<1> HIDE DEF f
<1>4. ASSUME NEW p \in 1 .. n
      PROVE  /\ IsSequence(f[p])
             /\ \E o : Enumerates(o, Len(f[p]), Kept(p)) /\ Kept(p) \in SUBSET Int
                       /\ \A i \in 1 .. Len(f[p]) :
                            f[p][i] = Profile(doc, periods[p], periods[p].reps[o[i]], id, now)
  <2>1. IsSequence(periods[p].reps) /\ Kept(p) \in SUBSET (DOMAIN periods[p].reps)
    BY <1>2
  <2> DEFINE r == periods[p].reps
             K == Kept(p)
             w == Filtered(r, K)
  <2>2. Out(p) = [i \in DOMAIN w |-> Profile(doc, periods[p], w[i], id, now)]
    OBVIOUS
  <2>a. IsSequence(r) /\ K \in SUBSET (DOMAIN r)
    BY <2>1
  <2> HIDE DEF K, Out
  <2>3. Len(w) \in Nat /\ DOMAIN w = 1 .. Len(w) /\ K \in SUBSET Int
    BY <2>a, FilterKeeps
  <2>4. PICK o : Enumerates(o, Len(w), K) /\ \A k \in 1 .. Len(w) : w[k] = r[o[k]]
    BY <2>a, FilterKeeps
  <2> HIDE DEF w
  <2>5. f[p] = [i \in 1 .. Len(w) |-> f[p][i]]
        /\ \A i \in 1 .. Len(w) : f[p][i] = Profile(doc, periods[p], w[i], id, now)
    BY <1>3, <2>2, <2>3
  <2>6. IsSequence(f[p]) /\ Len(f[p]) = Len(w)
    BY <2>3, <2>5, PlacesMake
  <2>7. Enumerates(o, Len(f[p]), K) /\ K \in SUBSET Int
        /\ \A i \in 1 .. Len(f[p]) : f[p][i] = Profile(doc, periods[p], r[o[i]], id, now)
    BY <2>3, <2>4, <2>5, <2>6
  <2> QED BY <2>6, <2>7 DEF K, r
<1>5. ASSUME NEW p \in 1 .. n, NEW i \in 1 .. Len(f[p]), f[p][i].id = id
      PROVE  \E o : /\ Enumerates(o, Len(f[p]), Kept(p)) /\ Kept(p) \in SUBSET Int
                    /\ o[i] \in DOMAIN periods[p].reps
                    /\ Plays(periods[p].reps[o[i]], id)
  <2>1. PICK o : /\ Enumerates(o, Len(f[p]), Kept(p)) /\ Kept(p) \in SUBSET Int
                 /\ \A j \in 1 .. Len(f[p]) :
                      f[p][j] = Profile(doc, periods[p], periods[p].reps[o[j]], id, now)
    BY <1>4
  <2>2. o[i] \in Kept(p)
    BY <2>1 DEF Enumerates
  <2>3. f[p][i].id = IdOf(periods[p].reps[o[i]])
    <3>1. f[p][i] = Profile(doc, periods[p], periods[p].reps[o[i]], id, now)
      BY <2>1
    <3> QED BY <1>a, <3>1
  <2> QED BY <1>5, <2>1, <2>2, <2>3 DEF Plays
<1>6. ASSUME NEW p \in 1 .. n, NEW i \in 1 .. Len(f[p]), NEW j \in 1 .. Len(f[p]),
             f[p][i].id = id, f[p][j].id = id
      PROVE  i = j
  <2>1. PICK o : /\ Enumerates(o, Len(f[p]), Kept(p)) /\ Kept(p) \in SUBSET Int
                 /\ \A k \in 1 .. Len(f[p]) :
                      f[p][k] = Profile(doc, periods[p], periods[p].reps[o[k]], id, now)
    BY <1>4
  <2>2. o[i] \in Kept(p) /\ o[j] \in Kept(p)
    BY <2>1 DEF Enumerates
  <2>3. IdOf(periods[p].reps[o[i]]) = id /\ IdOf(periods[p].reps[o[j]]) = id
    BY <1>6, <1>a, <2>1
  <2>4. o[i] = o[j]
    BY <1>2, <2>2, <2>3 DEF UniqueIds, Plays
  <2>5. (i < j => o[i] < o[j]) /\ (j < i => o[j] < o[i]) /\ o[i] \in Int /\ o[j] \in Int
    BY <2>1, <2>2 DEF Enumerates
  <2>6. i \in Int /\ j \in Int
    BY <1>4, SequenceIs
  <2> QED BY <2>4, <2>5, <2>6
<1>7. WithId(f, n, id) = {p \in DOMAIN periods : HasId(periods[p], id)}
  <2>1. ASSUME NEW p \in 1 .. n, NEW j \in 1 .. Len(f[p]), f[p][j].id = id PROVE HasId(periods[p], id)
    <3>1. PICK o : o[j] \in DOMAIN periods[p].reps /\ Plays(periods[p].reps[o[j]], id)
      BY <1>5, <2>1
    <3> QED BY <3>1, MemberIs DEF HasId
  <2>2. ASSUME NEW p \in 1 .. n, HasId(periods[p], id) PROVE \E j \in 1 .. Len(f[p]) : f[p][j].id = id
    <3>1. PICK rep \in ToSet(periods[p].reps) : Plays(rep, id)
      BY <2>2 DEF HasId
    <3>2. PICK x \in DOMAIN periods[p].reps : rep = periods[p].reps[x]
      BY <1>2, PlacesOf
    <3>3. x \in Kept(p)
      BY <3>1, <3>2 DEF Plays
    <3>4. PICK o : /\ Enumerates(o, Len(f[p]), Kept(p))
                   /\ \A k \in 1 .. Len(f[p]) :
                        f[p][k] = Profile(doc, periods[p], periods[p].reps[o[k]], id, now)
      BY <1>4
    <3>5. PICK j \in 1 .. Len(f[p]) : o[j] = x
      BY <3>3, <3>4 DEF Enumerates
    <3>6. f[p][j].id = id
      <4>1. f[p][j] = Profile(doc, periods[p], rep, id, now)
        BY <3>2, <3>4, <3>5
      <4>2. IdOf(rep) = id
        BY <3>1 DEF Plays
      <4>3. Profile(doc, periods[p], rep, id, now).id = IdOf(rep)
        BY <1>a
      <4> QED BY <4>1, <4>2, <4>3
    <3> QED BY <3>6
  <2> QED BY <1>2, <2>1, <2>2 DEF WithId
<1>8. having = Filtered([p \in 1 .. n |-> p], WithId(f, n, id))
  BY <1>2, <1>7 DEF Having
<1> HIDE DEF having
<1>9. \A p \in 1 .. n : IsSequence(f[p])
  BY <1>4
<1> DEFINE S == {i \in DOMAIN profiles : profiles[i].id = id}
           matching == Filtered(profiles, S)
<1> HIDE DEF n, Kept, Out
<1>10. OneOfEach(matching, having, f, n, id)
  <2>1. LET s == FlattenSeq(f)
            R == {i \in DOMAIN s : s[i].id = id}
        IN  OneOfEach(Filtered(s, R), Filtered([p \in 1 .. n |-> p], WithId(f, n, id)), f, n, id)
    BY <1>2, <1>3, <1>6, <1>9, OneOfEachIs
  <2> QED BY <1>1, <1>8, <2>1
<1> HIDE DEF matching
<1>11. ASSUME NEW k \in 1 .. Len(matching)
       PROVE  /\ having[k] \in DOMAIN periods
              /\ \E rep \in ToSet(periods[having[k]].reps) :
                   Plays(rep, id) /\ matching[k] = Profile(doc, periods[having[k]], rep, id, now)
  <2> DEFINE p == having[k]
  <2>1. p \in 1 .. n
    BY <1>10 DEF OneOfEach
  <2>2. PICK j \in 1 .. Len(f[p]) : matching[k] = f[p][j] /\ matching[k].id = id
    BY <1>10 DEF OneOfEach
  <2> HIDE DEF p
  <2>3. PICK o : /\ Enumerates(o, Len(f[p]), Kept(p)) /\ Kept(p) \in SUBSET Int
                 /\ \A i \in 1 .. Len(f[p]) :
                      f[p][i] = Profile(doc, periods[p], periods[p].reps[o[i]], id, now)
    BY <1>4, <2>1
  <2>4. o[j] \in Kept(p)
    BY <2>3 DEF Enumerates
  <2> DEFINE rep == periods[p].reps[o[j]]
  <2>5. rep \in ToSet(periods[p].reps) /\ rep.kind \in {"video", "audio"}
    BY <2>4, MemberIs DEF Kept
  <2>6. matching[k] = Profile(doc, periods[p], rep, id, now)
    BY <2>2, <2>3
  <2>7. IdOf(rep) = id
    BY <1>a, <2>2, <2>6
  <2>8. Plays(rep, id)
    BY <2>5, <2>7 DEF Plays
  <2> QED BY <1>2, <2>1, <2>5, <2>6, <2>8 DEF p
<1>12. ProfileOfEach(matching, doc, id, now)
  BY <1>10, <1>11 DEF OneOfEach, ProfileOfEach, having
<1> QED BY <1>12 DEF matching

-----------------------------------------------------------------------------
(* The segments of all periods *)

(* The segments of profiles, one after the other, are the last true ones. *)
ListsAll(doc, merged, whole) ==
  /\ IsSequence(merged) /\ IsSequence(whole)
  /\ Len(merged) <= Len(whole) /\ Enough(doc, Len(merged), Len(whole))
  /\ \A i \in 1 .. Len(merged) :
       Shows(merged[i].segment, merged[i].profile, whole[Len(whole) - Len(merged) + i])

(* Profiles that list the parts of what there is. *)
ListParts(doc, xs, m, whole, cut) ==
  /\ cut[0] = 0 /\ cut[m] = Len(whole) /\ \A k \in 0 .. m : cut[k] \in 0 .. Len(whole)
  /\ \A k \in 1 .. m : cut[k - 1] <= cut[k] /\ Lists(doc, xs[k], SubSeq(whole, cut[k - 1] + 1, cut[k]))

(* A segment goes with its own profile. *)
LEMMA PairsAre ==
  ASSUME NEW x, IsSequence(x.segments)
  PROVE  /\ IsSequence(Pairs(x)) /\ Len(Pairs(x)) = Len(x.segments)
         /\ \A i \in 1 .. Len(x.segments) : Pairs(x)[i].segment = x.segments[i] /\ Pairs(x)[i].profile = x
<1> DEFINE s == Pairs(x)
           n == Len(x.segments)
<1>1. n \in Nat /\ DOMAIN x.segments = 1 .. n
  BY SequenceIs
<1>2. s = [i \in 1 .. n |-> s[i]] /\ \A i \in 1 .. n : s[i] = [segment |-> x.segments[i], profile |-> x]
  BY <1>1 DEF Pairs
<1> HIDE DEF s, n
<1>3. IsSequence(s) /\ Len(s) = n
  BY <1>1, <1>2, PlacesMake
<1>4. \A i \in 1 .. n : s[i].segment = x.segments[i] /\ s[i].profile = x
  BY <1>2
<1> QED BY <1>3, <1>4 DEF s, n

(* Where all parts are listed in whole. *)
LEMMA AllParts ==
  ASSUME NEW doc, NEW m \in Nat \ {0}, NEW xs, xs = [k \in 1 .. m |-> xs[k]],
         NEW whole, IsSequence(whole), NEW cut, ListParts(doc, xs, m, whole, cut),
         \A k \in 1 .. m : Len(xs[k].segments) = Len(SubSeq(whole, cut[k - 1] + 1, cut[k]))
  PROVE  ListsAll(doc, Merged(xs), whole)
<1> DEFINE f == [k \in DOMAIN xs |-> Pairs(xs[k])]
           merged == FlattenSeq(f)
           N == Len(whole)
<1>1. Merged(xs) = merged
  BY DEF Merged
<1>2. f = [k \in 1 .. m |-> f[k]] /\ \A k \in 1 .. m : f[k] = Pairs(xs[k])
  OBVIOUS
<1> HIDE DEF f
<1>3. N \in Nat
  BY SequenceIs
<1> HIDE DEF N
<1>4. /\ cut[0] = 0 /\ cut[m] = N
      /\ \A k \in 0 .. m : cut[k] \in Nat /\ cut[k] <= N
      /\ \A k \in 1 .. m : /\ cut[k - 1] \in Nat /\ cut[k - 1] <= cut[k]
                           /\ Lists(doc, xs[k], SubSeq(whole, cut[k - 1] + 1, cut[k]))
  <2>1. \A k \in 0 .. m : cut[k] \in Nat /\ cut[k] <= N
    BY <1>3 DEF ListParts, N
  <2>2. \A k \in 1 .. m : k - 1 \in 0 .. m
    OBVIOUS
  <2>3. \A k \in 1 .. m : cut[k - 1] <= cut[k] /\ Lists(doc, xs[k], SubSeq(whole, cut[k - 1] + 1, cut[k]))
    BY DEF ListParts
  <2>4. cut[0] = 0 /\ cut[m] = N
    BY DEF ListParts, N
  <2> QED BY <2>1, <2>2, <2>3, <2>4
<1>5. ASSUME NEW k \in 1 .. m
      PROVE  /\ IsSequence(f[k]) /\ Len(f[k]) = cut[k] - cut[k - 1]
             /\ \A j \in 1 .. cut[k] - cut[k - 1] :
                  Shows(f[k][j].segment, f[k][j].profile, whole[cut[k - 1] + j])
  <2> DEFINE part == SubSeq(whole, cut[k - 1] + 1, cut[k])
             x == xs[k]
             n == cut[k] - cut[k - 1]
  <2>1. k \in 0 .. m
    OBVIOUS
  <2>2. cut[k - 1] \in Nat /\ cut[k] \in Nat /\ cut[k - 1] <= cut[k] /\ cut[k] <= Len(whole)
    BY <1>4, <2>1 DEF N
  <2>3. Len(part) = n /\ \A j \in 1 .. n : part[j] = whole[cut[k - 1] + j]
    <3> DEFINE a == cut[k - 1]
               b == cut[k]
    <3>1. a \in Nat /\ b \in Nat /\ a <= b /\ b <= Len(whole) /\ IsSequence(whole)
      BY <1>1, <2>2
    <3> HIDE DEF a, b
    <3>2. LET p == SubSeq(whole, a + 1, b) IN Len(p) = b - a /\ \A j \in 1 .. b - a : p[j] = whole[a + j]
      BY ONLY <3>1, PartIs
    <3> QED BY <3>2 DEF a, b
  <2>4. Lists(doc, x, part) /\ Len(x.segments) = Len(part)
    BY <1>4
  <2>5. n \in Nat
    BY <2>2
  <2> HIDE DEF part, n
  <2>6. IsSequence(x.segments) /\ Len(x.segments) = n
        /\ \A j \in 1 .. n : Shows(x.segments[j], x, part[n - n + j])
    BY <2>3, <2>4 DEF Lists
  <2>7. f[k] = Pairs(x)
    BY <1>2
  <2> HIDE DEF x
  <2>8. IsSequence(f[k]) /\ Len(f[k]) = n
        /\ \A j \in 1 .. n : f[k][j].segment = x.segments[j] /\ f[k][j].profile = x
    BY <2>6, <2>7, PairsAre
  <2>9. ASSUME NEW j \in 1 .. n PROVE Shows(f[k][j].segment, f[k][j].profile, whole[cut[k - 1] + j])
    <3>1. n - n + j = j
      BY <2>5
    <3>2. Shows(x.segments[j], x, whole[cut[k - 1] + j])
      BY <2>3, <2>6, <3>1
    <3> QED BY <2>8, <3>2
  <2> QED BY <2>8, <2>9 DEF n
<1>6. \A k \in 1 .. m : IsSequence(f[k]) /\ cut[k] = cut[k - 1] + Len(f[k])
  <2> TAKE k \in 1 .. m
  <2>1. k \in 0 .. m
    OBVIOUS
  <2>2. cut[k - 1] \in Nat /\ cut[k] \in Nat
    BY <1>4, <2>1
  <2> QED BY <1>5, <2>2
<1>7. Holds(merged, f, m, cut)
  BY <1>2, <1>4, <1>6, FlattenPlaces
<1> HIDE DEF merged
<1>8. IsSequence(merged) /\ Len(merged) = N
  BY <1>4, <1>7 DEF Holds
<1>9. ASSUME NEW i \in 1 .. N PROVE Shows(merged[i].segment, merged[i].profile, whole[N - N + i])
  <2>1. PICK k \in 1 .. m : cut[k - 1] < i /\ i <= cut[k]
    <3>1. \A k \in 0 .. m : cut[k] \in Nat
      BY <1>4
    <3>2. \A k \in 1 .. m : cut[k - 1] <= cut[k]
      BY <1>4
    <3>3. \A j \in 1 .. cut[m] : \E k \in 1 .. m : cut[k - 1] < j /\ j <= cut[k]
      BY <1>4, <3>1, <3>2, EndsHold
    <3> QED BY <1>4, <3>3
  <2> DEFINE j == i - cut[k - 1]
  <2>2. cut[k] \in Nat /\ cut[k - 1] \in Nat /\ i \in Nat
    <3>1. k \in 0 .. m
      OBVIOUS
    <3> QED BY <1>3, <1>4, <3>1
  <2>3. j \in 1 .. cut[k] - cut[k - 1] /\ cut[k - 1] + j = i /\ N - N + i = i
    BY <1>3, <2>1, <2>2
  <2> HIDE DEF j
  <2>4. Len(f[k]) = cut[k] - cut[k - 1]
    BY <1>5
  <2>5. merged[i] = f[k][j]
    BY <1>7, <2>3, <2>4 DEF Holds
  <2> QED BY <1>5, <2>3, <2>5
<1>10. ListsAll(doc, merged, whole)
  BY <1>3, <1>8, <1>9 DEF ListsAll, Enough, N
<1> QED BY <1>1, <1>10

(* Where there is one part. *)
LEMMA OnePart ==
  ASSUME NEW doc, NEW xs, IsSequence(xs), Len(xs) = 1,
         NEW whole, IsSequence(whole), NEW m, m = 1, NEW cut, ListParts(doc, xs, m, whole, cut)
  PROVE  ListsAll(doc, Merged(xs), whole)
<1> DEFINE f == [k \in DOMAIN xs |-> Pairs(xs[k])]
           x == xs[1]
           n == Len(x.segments)
           N == Len(whole)
           part == SubSeq(whole, 0 + 1, N)
<1>0. DOMAIN xs = 1 .. 1
  BY SequenceIs
<1>1. f = [k \in 1 .. 1 |-> f[k]] /\ f[1] = Pairs(x)
  BY <1>0
<1> HIDE DEF f
<1>2. Merged(xs) = Pairs(x)
  BY <1>1, FlattenOne DEF Merged, f
<1>3. N \in Nat
  BY SequenceIs
<1>4. Len(part) = N /\ \A j \in 1 .. N : part[j] = whole[0 + j]
  <2>1. N - 0 = N
    BY <1>3
  <2>2. 0 \in Nat /\ 0 <= N /\ N <= Len(whole)
    BY <1>3
  <2>3. LET p == SubSeq(whole, 0 + 1, N) IN Len(p) = N - 0 /\ \A j \in 1 .. N - 0 : p[j] = whole[0 + j]
    <3> HIDE DEF N
    <3> QED BY <1>3, <2>2, PartIs
  <2> QED BY <2>1, <2>3
<1>5. Lists(doc, x, part)
  <2>1. 1 \in 1 .. 1 /\ 1 - 1 = 0
    OBVIOUS
  <2>2. Lists(doc, xs[1], SubSeq(whole, cut[1 - 1] + 1, cut[1])) /\ cut[0] = 0 /\ cut[1] = N
    BY <2>1 DEF ListParts
  <2> QED BY <2>1, <2>2
<1> HIDE DEF part, N
<1>6. /\ IsSequence(x.segments) /\ n <= N /\ Enough(doc, n, N)
      /\ \A i \in 1 .. n : Shows(x.segments[i], x, part[N - n + i])
  BY <1>4, <1>5 DEF Lists
<1>7. n \in Nat
  BY <1>6, SequenceIs
<1> HIDE DEF x
<1>8. /\ IsSequence(Pairs(x)) /\ Len(Pairs(x)) = n
      /\ \A i \in 1 .. n : Pairs(x)[i].segment = x.segments[i] /\ Pairs(x)[i].profile = x
  BY <1>6, PairsAre
<1> HIDE DEF n
<1>9. ASSUME NEW i \in 1 .. n PROVE Shows(Pairs(x)[i].segment, Pairs(x)[i].profile, whole[N - n + i])
  <2> DEFINE j == N - n + i
  <2>1. j \in 1 .. N /\ 0 + j = j
    BY <1>3, <1>6, <1>7
  <2> HIDE DEF j
  <2>2. part[j] = whole[j]
    BY <1>4, <2>1
  <2>3. Shows(x.segments[i], x, part[j])
    BY <1>6 DEF j
  <2> QED BY <1>8, <2>2, <2>3 DEF j
<1>10. ListsAll(doc, Pairs(x), whole)
  BY <1>6, <1>8, <1>9 DEF ListsAll, N
<1> QED BY <1>2, <1>10

(* What Truthful and Listable say of an MPD and one of its ids. *)
Listed(c, doc, id, now, whole) ==
  /\ doc.depth \in Nat /\ doc.total \in Nat /\ IsSequence(doc.periods)
  /\ \A p \in DOMAIN doc.periods :
       /\ IsSequence(doc.periods[p].reps)
       /\ \A rep \in ToSet(doc.periods[p].reps) :
            Typed(rep) /\ (Plays(rep, id) => RepListable(c, doc, p, rep))
  /\ UniqueIds(doc) /\ IsSequence(whole) /\ TrueTo(c, doc, id, now, whole)

(* The segments of an MPD for an id are the last of those the channel has. *)
LEMMA MergedLists ==
  ASSUME NEW c, NEW doc, NEW id, NEW now \in Nat, NEW whole, Listed(c, doc, id, now, whole),
         NEW index, index = Index(c), IndexOk(index),
         NEW matching, ProfileOfEach(matching, doc, id, now), matching # <<>>
  PROVE  ListsAll(doc, Merged([k \in DOMAIN matching |-> ExpandBase(matching[k], index)]), whole)
<1> DEFINE having == Having(doc, id)
           m == Len(having)
           xs == [k \in DOMAIN matching |-> ExpandBase(matching[k], index)]
<1>1. /\ IsSequence(matching) /\ Len(matching) = m
      /\ \A k \in 1 .. m :
           /\ having[k] \in DOMAIN doc.periods
           /\ \E rep \in ToSet(doc.periods[having[k]].reps) :
                Plays(rep, id) /\ matching[k] = Profile(doc, doc.periods[having[k]], rep, id, now)
  BY DEF ProfileOfEach
<1>2. m \in Nat \ {0} /\ DOMAIN matching = 1 .. m
  <2> DEFINE T == ToSet(matching)
  <2>1. matching \in Seq(T)
    BY <1>1 DEF IsSequence
  <2> HIDE DEF T
  <2>2. Len(matching) # 0
    BY <2>1, EmptySeq
  <2> QED BY <1>1, <2>2, SequenceIs
<1>3. PICK cut \in [0 .. m -> 0 .. Len(whole)] :
        /\ cut[0] = 0 /\ cut[m] = Len(whole)
        /\ \A k \in 1 .. m :
             /\ cut[k - 1] <= cut[k]
             /\ \A rep \in ToSet(doc.periods[having[k]].reps) : Plays(rep, id) =>
                  RepTrue(c, doc, having[k], rep, SubSeq(whole, cut[k - 1] + 1, cut[k]), now)
  BY DEF Listed, TrueTo
<1>4. xs = [k \in 1 .. m |-> xs[k]] /\ \A k \in 1 .. m : xs[k] = ExpandBase(matching[k], index)
  BY <1>2
<1> HIDE DEF xs, having
<1>5. Len(whole) \in Nat /\ IsSequence(whole)
  BY SequenceIs DEF Listed
<1>6. ASSUME NEW k \in 1 .. m PROVE Lists(doc, xs[k], SubSeq(whole, cut[k - 1] + 1, cut[k]))
  <2> DEFINE part == SubSeq(whole, cut[k - 1] + 1, cut[k])
             p == having[k]
  <2>1. k \in 0 .. m /\ k - 1 \in 0 .. m
    BY <1>2
  <2>2. cut[k] \in 0 .. Len(whole) /\ cut[k - 1] \in 0 .. Len(whole) /\ cut[k - 1] <= cut[k]
    BY <1>3, <2>1
  <2>3. IsSequence(part)
    <3>1. cut[k] \in Nat /\ cut[k - 1] \in Nat /\ cut[k] <= Len(whole)
      BY <1>5, <2>2
    <3> QED BY <1>5, <2>2, <3>1, PartIs
  <2>4. PICK rep \in ToSet(doc.periods[p].reps) :
          Plays(rep, id) /\ matching[k] = Profile(doc, doc.periods[p], rep, id, now)
    BY <1>1
  <2>5. RepTrue(c, doc, p, rep, part, now) /\ p \in DOMAIN doc.periods
    BY <1>1, <1>3, <2>4
  <2> HIDE DEF part, p
  <2>6. Typed(rep) /\ RepListable(c, doc, p, rep) /\ doc.depth \in Nat /\ doc.total \in Nat
        /\ IsSequence(doc.periods)
    BY <2>4, <2>5 DEF Listed
  <2>7. Lists(doc, ExpandBase(Profile(doc, doc.periods[p], rep, IdOf(rep), now), index), part)
    BY <2>3, <2>5, <2>6, ProfileLists
  <2>8. IdOf(rep) = id
    BY <2>4 DEF Plays
  <2> QED BY <1>4, <2>4, <2>7, <2>8 DEF part
<1> HIDE DEF m
<1>7. ListParts(doc, xs, m, whole, cut)
  BY <1>3, <1>6 DEF ListParts
<1>8. CASE \A k \in 1 .. m : Len(xs[k].segments) = Len(SubSeq(whole, cut[k - 1] + 1, cut[k]))
  <2>1. ListsAll(doc, Merged(xs), whole)
    BY <1>2, <1>4, <1>5, <1>7, <1>8, AllParts
  <2> QED BY <2>1 DEF xs
<1>9. CASE \E k \in 1 .. m : Len(xs[k].segments) # Len(SubSeq(whole, cut[k - 1] + 1, cut[k]))
  <2>1. Len(doc.periods) = 1
    BY <1>6, <1>9 DEF Lists, Enough
  <2>2. m = 1
    <3> DEFINE places == [p \in DOMAIN doc.periods |-> p]
               H == {p \in DOMAIN doc.periods : HasId(doc.periods[p], id)}
    <3>1. having = Filtered(places, H)
      BY DEF having, Having
    <3>2. DOMAIN doc.periods = 1 .. 1
      BY <2>1, SequenceIs DEF Listed
    <3>3. places = [p \in 1 .. 1 |-> places[p]] /\ 1 \in Nat /\ H \in SUBSET (1 .. 1)
      BY <3>2
    <3> HIDE DEF places, H
    <3>4. IsSequence(places) /\ DOMAIN places = 1 .. 1
      BY <3>3, PlacesMake
    <3>5. H \in SUBSET (DOMAIN places) /\ \A i, j \in H : i = j
      BY <3>3, <3>4
    <3>6. Filtered(places, H) # <<>>
      <4>1. Len(having) # 0
        BY <1>2 DEF m
      <4> QED BY <3>1, <4>1
    <3>7. Len(Filtered(places, H)) = 1
      BY <3>4, <3>5, <3>6, OneOf
    <3> QED BY <3>1, <3>7 DEF m
  <2>3. IsSequence(xs) /\ Len(xs) = 1 /\ ListParts(doc, xs, 1, whole, cut)
    BY <1>2, <1>4, <1>7, <2>2, PlacesMake
  <2>4. ListsAll(doc, Merged(xs), whole)
    BY <1>5, <2>3, OnePart
  <2> QED BY <2>4 DEF xs
<1> QED BY <1>8, <1>9

-----------------------------------------------------------------------------
(* The window and the lines *)

(* The least number of segments in a live window. *)
FloorOf(ts) == IF ts THEN FloorTs ELSE Floor

(* A live window that leaves segments out has as many as the depth asks for. *)
LEMMA WindowCuts ==
  ASSUME NEW live, NEW merged, IsSequence(merged), NEW params, QueryOk(params)
  PROVE  \E start \in 0 .. Len(merged) :
           /\ Window(live, merged, params, Configured) = SubSeq(merged, start + 1, Len(merged))
           /\ start # 0 => live /\ FloorOf(params.ts) <= Len(merged) - start
<1> DEFINE offset == IF params.offset # None THEN params.offset
                     ELSE IF live THEN -DefaultOffset ELSE 0
           segs == [i \in DOMAIN merged |-> merged[i].segment]
           timed == Timed(segs)
           depth == LiveDepth(params.ts, offset, Configured, timed)
           start == IF live THEN Monus(Len(merged), depth) ELSE 0
           w == SubSeq(merged, start + 1, Len(merged))
<1>1. Window(live, merged, params, Configured) = w
  BY DEF Window
<1>2. Len(merged) \in Nat /\ DOMAIN merged = 1 .. Len(merged)
  BY SequenceIs
<1>3. offset \in Int
  BY DashTypes DEF QueryOk
<1>4. IsSequence(timed) /\ \A x \in ToSet(timed) : x.extinf \in Nat \ {0}
  <2> DEFINE S == {i \in DOMAIN segs : segs[i].extinf \in Nat \ {0}}
  <2>1. segs = [i \in 1 .. Len(merged) |-> segs[i]]
    BY <1>2
  <2>2. timed = Filtered(segs, S) /\ S \in SUBSET (DOMAIN segs)
    BY DEF Timed
  <2>3. \A i \in S : segs[i].extinf \in Nat \ {0}
    OBVIOUS
  <2> HIDE DEF segs, S
  <2>4. IsSequence(segs)
    BY <1>2, <2>1, PlacesMake
  <2>5. IsSequence(Filtered(segs, S)) /\ \A x \in ToSet(Filtered(segs, S)) : \E i \in S : x = segs[i]
    BY <2>2, <2>4, FilteredSeq
  <2> HIDE DEF timed
  <2> QED BY <2>2, <2>3, <2>5
<1> HIDE DEF offset, timed
<1>5. depth \in Nat
  BY <1>3, <1>4, DepthIs
<1>6. FloorOf(params.ts) <= depth
  <2> DEFINE floor == AtLeast(Configured, FloorOf(params.ts))
             typical == IF timed = <<>> THEN 4 ELSE Median(timed)
             behind == CeilDiv(-offset, typical) + (IF params.ts THEN SafetyTs ELSE Safety)
  <2>1. FloorOf(params.ts) \in Nat /\ Configured \in Nat
    BY DashTypes DEF FloorOf
  <2>2. floor \in Nat /\ FloorOf(params.ts) <= floor
    BY <2>1 DEF AtLeast
  <2>3. depth = IF offset < 0 THEN AtLeast(floor, behind) ELSE floor
    BY DEF LiveDepth, FloorOf
  <2> HIDE DEF floor, behind, depth
  <2>4. AtLeast(floor, behind) = floor \/ (floor < behind /\ AtLeast(floor, behind) = behind)
    BY DEF AtLeast
  <2>5. depth = floor \/ (floor < depth)
    BY <2>3, <2>4
  <2> QED BY <1>5, <2>1, <2>2, <2>5
<1> HIDE DEF depth
<1>7. /\ start \in 0 .. Len(merged)
      /\ start # 0 => live /\ Len(merged) - start = depth
  <2> DEFINE cut == Monus(Len(merged), depth)
  <2>0. cut \in 0 .. Len(merged) /\ (cut # 0 => Len(merged) - cut = depth)
    BY <1>2, <1>5 DEF Monus
  <2>1. CASE live
    <3>1. start = cut
      BY <2>1
    <3> HIDE DEF start, cut
    <3> QED BY <2>0, <2>1, <3>1, Zenon
  <2>2. CASE ~live
    BY <1>2, <2>2
  <2> QED BY <2>1, <2>2
<1> HIDE DEF start
<1>8. start # 0 => live /\ FloorOf(params.ts) <= Len(merged) - start
  BY <1>6, <1>7
<1> QED BY <1>1, <1>7, <1>8

(* A list of an MPD has the last segments of the whole. *)
Completes(doc, list, ts, whole) ==
  LET skipped == Len(whole) - Len(list.lines) IN
  /\ skipped >= 0
  /\ skipped > 0 => doc.live /\ Len(list.lines) >= FloorOf(ts)
  /\ \A i \in DOMAIN list.lines :
       LET seg  == whole[skipped + i]
           link == list.lines[i].link
       IN  /\ link.media = seg.media /\ link.range = seg.range
           /\ InitAnswer(link) = <<seg.init, seg.initRange>>

(* A line links to the segment it stands for. *)
LEMMA LinesAre ==
  ASSUME NEW live, NEW kept, IsSequence(kept), NEW params
  PROVE  LET lines == Lines(live, kept, params).lines IN
         /\ DOMAIN lines = 1 .. Len(kept) /\ Len(lines) = Len(kept)
         /\ \A i \in 1 .. Len(kept) :
              lines[i].link = SegmentLink(kept[i].segment, kept[i].profile, params)
<1> DEFINE Map(i) == IF NewInit(kept, i, params.ts) /\ kept[i].profile.init # None
                     THEN InitLink(kept[i].profile) ELSE None
           Link(i) == SegmentLink(kept[i].segment, kept[i].profile, params)
           Line(i) == [discontinuity |-> NewInit(kept, i, params.ts) /\ i > 1,
                       map |-> Map(i), link |-> Link(i)]
           n == Len(kept)
           lines == Lines(live, kept, params).lines
<1>1. n \in Nat /\ DOMAIN kept = 1 .. n
  BY SequenceIs
<1>2. CASE kept = <<>>
  <2>1. lines = <<>>
    BY <1>2 DEF Lines
  <2>2. Len(lines) = 0 /\ n = 0 /\ DOMAIN lines = 1 .. 0
    BY <1>2, <2>1
  <2> QED BY <2>2
<1>3. CASE kept # <<>>
  <2>1. lines = [i \in DOMAIN kept |-> Line(i)]
    BY <1>3 DEF Lines
  <2>2. \A i : Line(i).link = Link(i)
    OBVIOUS
  <2> HIDE DEF Line, lines
  <2>3. lines = [i \in 1 .. n |-> lines[i]] /\ \A i \in 1 .. n : lines[i].link = Link(i)
    BY <1>1, <2>1, <2>2
  <2> HIDE DEF n, Link
  <2>4. DOMAIN lines = 1 .. n /\ Len(lines) = n
    BY <1>1, <2>3, PlacesMake
  <2> QED BY <2>3, <2>4 DEF lines, n, Link
<1> QED BY <1>2, <1>3

(* A link shows what its segment does. *)
LEMMA LinkShows ==
  ASSUME NEW s, NEW x, NEW seg, Shows(s, x, seg), NEW params
  PROVE  LET link == SegmentLink(s, x, params) IN
         /\ link.media = seg.media /\ link.range = seg.range
         /\ InitAnswer(link) = <<seg.init, seg.initRange>>
BY DEF Shows, SegmentLink, InitAnswer

(* What is left of the segments in the window is complete. *)
LEMMA WindowCompletes ==
  ASSUME NEW doc, NEW merged, NEW whole, ListsAll(doc, merged, whole), NEW params, QueryOk(params)
  PROVE  Completes(doc, Lines(doc.live, Window(doc.live, merged, params, Configured), params),
                   params.ts, whole)
<1> DEFINE n == Len(merged)
           N == Len(whole)
           kept == Window(doc.live, merged, params, Configured)
           list == Lines(doc.live, kept, params)
<1>1. /\ IsSequence(merged) /\ IsSequence(whole) /\ n <= N /\ Enough(doc, n, N)
      /\ \A i \in 1 .. n : Shows(merged[i].segment, merged[i].profile, whole[N - n + i])
  BY DEF ListsAll
<1>2. n \in Nat /\ N \in Nat
  BY <1>1, SequenceIs
<1>3. PICK start \in 0 .. n :
        /\ kept = SubSeq(merged, start + 1, n)
        /\ start # 0 => doc.live /\ FloorOf(params.ts) <= n - start
  BY <1>1, WindowCuts
<1> DEFINE K == n - start
<1>4. IsSequence(kept) /\ Len(kept) = K /\ \A j \in 1 .. K : kept[j] = merged[start + j]
  <2>1. start \in Nat /\ n \in Nat /\ start <= n /\ n <= Len(merged)
    BY <1>2
  <2>2. LET p == SubSeq(merged, start + 1, n) IN
        IsSequence(p) /\ Len(p) = n - start /\ \A j \in 1 .. n - start : p[j] = merged[start + j]
    <3> HIDE DEF n
    <3> QED BY <1>1, <2>1, PartIs DEF n
  <2> QED BY <1>3, <2>2
<1>5. /\ DOMAIN list.lines = 1 .. K /\ Len(list.lines) = K
      /\ \A i \in 1 .. K : list.lines[i].link = SegmentLink(kept[i].segment, kept[i].profile, params)
  <2>1. IsSequence(kept) /\ Len(kept) = K
    BY <1>4
  <2> HIDE DEF kept, K
  <2> QED BY <2>1, LinesAre
<1> HIDE DEF kept, list, n, N
<1>6. K \in Nat /\ N - K \in Nat /\ N - K = (N - n) + start /\ FloorOf(params.ts) \in Nat
  BY <1>1, <1>2, DashTypes DEF FloorOf
<1>7. N - K > 0 => doc.live /\ K >= FloorOf(params.ts)
  <2>1. CASE start # 0
    BY <1>2, <1>3, <1>6, <2>1
  <2>2. CASE start = 0 /\ n # N
    <3>1. doc.live /\ Floor <= n /\ FloorTs <= n
      BY <1>1, <2>2 DEF Enough
    <3> QED BY <1>2, <2>2, <3>1 DEF FloorOf
  <2>3. CASE start = 0 /\ n = N
    BY <1>2, <2>3
  <2> QED BY <2>1, <2>2, <2>3
<1>8. ASSUME NEW i \in 1 .. K
      PROVE  LET seg  == whole[(N - K) + i]
                 link == list.lines[i].link
             IN  /\ link.media = seg.media /\ link.range = seg.range
                 /\ InitAnswer(link) = <<seg.init, seg.initRange>>
  <2> DEFINE j == start + i
  <2>1. j \in 1 .. n /\ N - n + j = (N - K) + i
    BY <1>2, <1>6
  <2>2. kept[i] = merged[j]
    BY <1>4
  <2> HIDE DEF j, K
  <2>3. Shows(kept[i].segment, kept[i].profile, whole[(N - K) + i])
    BY <1>1, <2>1, <2>2
  <2>4. list.lines[i].link = SegmentLink(kept[i].segment, kept[i].profile, params)
    BY <1>5
  <2> QED BY <2>3, <2>4, LinkShows
<1> HIDE DEF K
<1>9. Completes(doc, list, params.ts, whole)
  <2> DEFINE skipped == Len(whole) - Len(list.lines)
  <2>1. skipped = N - K /\ Len(list.lines) = K
    BY <1>5 DEF N
  <2> HIDE DEF skipped
  <2>2. skipped >= 0
    BY <1>6, <2>1
  <2>3. skipped > 0 => doc.live /\ Len(list.lines) >= FloorOf(params.ts)
    BY <1>7, <2>1
  <2>4. ASSUME NEW i \in DOMAIN list.lines
        PROVE  LET seg  == whole[skipped + i]
                   link == list.lines[i].link
               IN  /\ link.media = seg.media /\ link.range = seg.range
                   /\ InitAnswer(link) = <<seg.init, seg.initRange>>
    <3>1. i \in 1 .. K
      BY <1>5
    <3> QED BY <1>8, <2>1, <3>1
  <2> QED BY <2>2, <2>3, <2>4, Zenon DEF Completes, skipped
<1> QED BY <1>9 DEF list, kept

(* The channels the code makes complete playlists of. *)
Presumed == {c \in Channel : Truthful(c) /\ Listable(c)}

(* What that says of an MPD and one of its ids. *)
LEMMA PresumedListed ==
  ASSUME NEW c \in Presumed, NEW t \in 0 .. MaxTime, NEW now \in 0 .. MaxTime, NEW id,
         NEW rep \in PlayedReps(Publish(c, t)), IdOf(rep) = id
  PROVE  Listed(c, Publish(c, t), id, now, Truth(c, id, t, now))
<1> DEFINE doc == Publish(c, t)
           whole == Truth(c, id, t, now)
<1>1. c \in Channel /\ Truthful(c) /\ Listable(c)
  BY DEF Presumed
<1>2. IsSequence(whole) /\ TrueTo(c, doc, id, now, whole)
  BY <1>1 DEF Truthful
<1>3. /\ doc.depth \in Nat /\ doc.total \in Nat
      /\ \A x \in Reps(doc) : Typed(x)
  BY <1>1, DashTypes DEF Typed, IsSequence
<1>4. /\ IsSequence(doc.periods)
      /\ \A period \in ToSet(doc.periods) : IsSequence(period.reps)
  BY <1>1, DashDocuments DEF IsSequence
<1>5. \A p \in DOMAIN doc.periods : LET reps == doc.periods[p].reps IN
        \A i \in DOMAIN reps : reps[i].kind \in {"video", "audio"} =>
          /\ RepListable(c, doc, p, reps[i])
          /\ \A j \in DOMAIN reps : Plays(reps[j], IdOf(reps[i])) => i = j
  BY <1>1 DEF Listable
<1> HIDE DEF doc, whole
<1>6. UniqueIds(doc)
  BY <1>5 DEF UniqueIds
<1>7. ASSUME NEW p \in DOMAIN doc.periods
      PROVE  /\ IsSequence(doc.periods[p].reps)
             /\ \A r \in ToSet(doc.periods[p].reps) :
                  Typed(r) /\ (Plays(r, id) => RepListable(c, doc, p, r))
  <2>1. doc.periods[p] \in ToSet(doc.periods)
    BY MemberIs
  <2>2. IsSequence(doc.periods[p].reps)
    BY <1>4, <2>1
  <2>3. ASSUME NEW r \in ToSet(doc.periods[p].reps) PROVE Typed(r) /\ (Plays(r, id) => RepListable(c, doc, p, r))
    <3>1. r \in Reps(doc)
      BY <2>1, <2>3 DEF Reps
    <3>2. PICK i \in DOMAIN doc.periods[p].reps : r = doc.periods[p].reps[i]
      BY <2>2, PlacesOf
    <3>3. Plays(r, id) => RepListable(c, doc, p, r)
      BY <1>5, <3>2 DEF Plays
    <3> QED BY <1>3, <3>1, <3>3
  <2> QED BY <2>2, <2>3
<1>8. Listed(c, doc, id, now, whole)
  BY <1>2, <1>3, <1>4, <1>6, <1>7 DEF Listed
<1> QED BY <1>8 DEF doc, whole

(* What the handler makes of an MPD for a profile. *)
LEMMA PlaylistCompletes ==
  ASSUME NEW c \in Presumed, NEW t \in 0 .. MaxTime, dashNow \in 0 .. MaxTime, NEW query, QueryOk(query),
         IndexOk(Index(c)), Playlist(Publish(c, t), query, Index(c)) # None
  PROVE  Completes(Publish(c, t), Playlist(Publish(c, t), query, Index(c)), query.ts,
                   Truth(c, query.profile, t, dashNow))
<1> DEFINE doc == Publish(c, t)
           id == query.profile
           index == Index(c)
           profiles == ParseMpd(doc, id, dashNow)
           S == {i \in DOMAIN profiles : profiles[i].id = id}
           matching == Filtered(profiles, S)
           expanded == [i \in DOMAIN matching |-> ExpandBase(matching[i], index)]
           list == Playlist(doc, query, index)
           whole == Truth(c, id, t, dashNow)
<1>1. list = IF matching = <<>> THEN None ELSE MediaPlaylist(doc.live, expanded, query, Configured)
  BY DEF Playlist
<1>2. matching # <<>> /\ list = MediaPlaylist(doc.live, expanded, query, Configured)
  BY <1>1
<1>3. c \in Channel /\ dashNow \in Nat
  BY DashDocuments DEF Presumed
<1>4. profiles \in Seq(ProfilesOf(doc, id, dashNow))
  BY <1>3, DashDocuments, ParsedIn
<1>5. PICK rep \in PlayedReps(doc) : IdOf(rep) = id
  <2> DEFINE T == ProfilesOf(doc, id, dashNow)
  <2> HIDE DEF T, profiles
  <2>a. IsSequence(profiles) /\ S \in SUBSET (DOMAIN profiles)
    BY <1>4, SeqIn DEF T
  <2>1. \E i \in S : TRUE
    <3> SUFFICES ASSUME S = {} PROVE FALSE
      OBVIOUS
    <3>a. S \in SUBSET (DOMAIN profiles)
      OBVIOUS
    <3> HIDE DEF S
    <3>1. IsSequence(matching) /\ \A x \in ToSet(matching) : \E i \in S : x = profiles[i]
      BY <2>a, <3>a, FilteredSeq
    <3>2. ToSet(matching) = {}
      BY <3>1
    <3>3. Len(matching) = 0
      <4> DEFINE n == Len(matching)
      <4>1. n \in Nat /\ \A i \in 1 .. n : matching[i] \in ToSet(matching)
        BY <3>1, SequenceIs
      <4>2. ~(1 \in 1 .. n)
        BY <3>2, <4>1
      <4> HIDE DEF n
      <4>3. n = 0
        BY <4>1, <4>2
      <4> QED BY <4>3 DEF n
    <3> DEFINE U == ToSet(matching)
    <3>4. matching \in Seq(U)
      BY <3>1 DEF IsSequence
    <3> HIDE DEF U, matching
    <3>5. matching = <<>>
      BY <3>3, <3>4, EmptySeq
    <3> QED BY <1>2, <3>5
  <2>2. PICK i \in DOMAIN profiles : profiles[i].id = id
    BY <2>1
  <2>3. profiles[i] \in T
    BY <1>4, <2>2 DEF T
  <2>4. PICK period \in ToSet(doc.periods) :
          \E r \in ToSet(period.reps) :
            r.kind \in {"video", "audio"} /\ profiles[i] = Profile(doc, period, r, id, dashNow)
    BY <2>3 DEF T, ProfilesOf
  <2>5. PICK r \in ToSet(period.reps) :
          r.kind \in {"video", "audio"} /\ profiles[i] = Profile(doc, period, r, id, dashNow)
    BY <2>4
  <2>6. Profile(doc, period, r, id, dashNow).id = IdOf(r)
    BY DEF Profile, IdOf
  <2>7. r \in PlayedReps(doc)
    BY <2>4, <2>5 DEF PlayedReps, Reps
  <2> QED BY <2>2, <2>5, <2>6, <2>7
<1>6. Listed(c, doc, id, dashNow, whole)
  BY <1>5, PresumedListed
<1> HIDE DEF doc, whole, id, index, list
<1>7. /\ IsSequence(doc.periods) /\ \A p \in DOMAIN doc.periods : IsSequence(doc.periods[p].reps)
      /\ UniqueIds(doc) /\ doc.periods # <<>>
  <2>1. doc.periods # <<>>
    <3>1. \E period \in ToSet(doc.periods) : TRUE
      BY <1>5 DEF PlayedReps, Reps
    <3> QED BY <3>1 DEF ToSet
  <2> QED BY <1>6, <2>1 DEF Listed
<1>8. ProfileOfEach(matching, doc, id, dashNow)
  BY <1>7, MatchingIs
<1> HIDE DEF matching
<1>9. ListsAll(doc, Merged([k \in DOMAIN matching |-> ExpandBase(matching[k], index)]), whole)
  <2>1. index = Index(c) /\ IndexOk(index)
    BY DEF index
  <2> QED BY <1>2, <1>3, <1>6, <1>8, <2>1, MergedLists
<1> DEFINE merged == Merged(expanded)
<1>10. MediaPlaylist(doc.live, expanded, query, Configured) =
         Lines(doc.live, Window(doc.live, merged, query, Configured), query)
  BY DEF MediaPlaylist, Merged, Pairs
<1>11. ListsAll(doc, merged, whole)
  BY <1>9
<1> HIDE DEF merged, expanded
<1>12. Completes(doc, Lines(doc.live, Window(doc.live, merged, query, Configured), query), query.ts, whole)
  BY <1>11, WindowCompletes
<1>13. Completes(doc, list, query.ts, whole)
  BY <1>2, <1>10, <1>12
<1> QED BY <1>13 DEF list, doc, whole, index, id

-----------------------------------------------------------------------------
(* Playlists stay complete *)

(* The invariant: what a player was shown last is complete. *)
ListedInv == channel \in Presumed => PlaylistComplete

(* A playlist that is served is complete, from whatever MPD it is made. *)
LEMMA ServedComplete ==
  ASSUME NEW query, QueryOk(query), NEW at \in 0 .. MaxTime, Serve(query, at), TimesInv, ListedInv,
         UNCHANGED channel
  PROVE  ListedInv'
<1>1. CASE query.profile = None
  <2>1. shown' = [query |-> query, at |-> at, now |-> dashNow, indexed |-> FALSE,
                  body |-> Master(Publish(channel, at), query)]
    BY <1>1 DEF Serve
  <2>2. shown'.query = query
    BY <2>1
  <2>3. ~IsList'
    BY <1>1, <2>2 DEF IsList
  <2> QED BY <2>3 DEF ListedInv, PlaylistComplete
<1>2. CASE query.profile # None
  <2>1. PICK index \in {None, Index(channel)} :
          \E list \in {Playlist(Publish(channel, at), query, index)} :
            IF list = None THEN UNCHANGED <<shown, numbering>>
            ELSE shown' = [query |-> query, at |-> at, now |-> dashNow,
                           indexed |-> index # None, body |-> list]
    BY <1>2, Zenon DEF Serve
  <2> DEFINE list == Playlist(Publish(channel, at), query, index)
  <2>2. CASE list = None
    <3>1. UNCHANGED <<shown, channel>>
      BY <2>1, <2>2
    <3> QED BY <3>1 DEF ListedInv, PlaylistComplete, IsList, Unexpanded, Skipped, Origin
  <2>3. CASE list # None
    <3>1. shown' = [query |-> query, at |-> at, now |-> dashNow, indexed |-> index # None, body |-> list]
      BY <2>1, <2>3
    <3>2. /\ shown'.query = query /\ shown'.at = at /\ shown'.now = dashNow /\ shown'.body = list
          /\ shown'.indexed <=> index # None
      <4> HIDE DEF list
      <4>1. shown'.query = query /\ shown'.at = at /\ shown'.now = dashNow /\ shown'.body = list
        BY <3>1
      <4>2. shown'.indexed <=> index # None
        BY <3>1, Zenon
      <4> QED BY <4>1, <4>2
    <3> SUFFICES ASSUME (channel \in Presumed)', IsList', ~Unexpanded'
                 PROVE  PlaylistComplete'
      BY DEF ListedInv, PlaylistComplete
    <3>3. channel \in Presumed /\ dashNow \in 0 .. MaxTime /\ channel \in Channel
      BY DEF TimesInv
    <3>4. index = Index(channel)
      BY <2>1, <3>2 DEF Unexpanded
    <3>5. IndexOk(Index(channel))
      BY <3>3, DashTypes DEF IndexOk, IsSequence
    <3>6. Completes(Publish(channel, at), list, query.ts, Truth(channel, query.profile, at, dashNow))
      BY <2>3, <3>3, <3>4, <3>5, PlaylistCompletes
    <3> HIDE DEF list
    <3>7. /\ Origin' = Truth(channel, query.profile, at, dashNow)
          /\ Skipped' = Len(Truth(channel, query.profile, at, dashNow)) - Len(list.lines)
          /\ Publish(channel, shown.at)' = Publish(channel, at)
      BY <3>2 DEF Origin, Skipped
    <3> QED BY <3>2, <3>6, <3>7 DEF PlaylistComplete, Completes, FloorOf
  <2> QED BY <2>2, <2>3
<1> QED BY <1>1, <1>2

(* So is one that is served from the cache, and a request that must fetch   *)
(* leaves the last one shown.                                               *)
LEMMA AskComplete ==
  ASSUME TimesInv, ListedInv, NEW p, NEW query, QueryOk(query), Ask(p, query)
  PROVE  ListedInv'
<1>1. UNCHANGED channel
  BY DEF Ask
<1>2. CASE Cached
  <2>1. Serve(query, mpdCache.at)
    BY <1>2 DEF Ask
  <2>2. mpdCache.at \in 0 .. MaxTime
    BY <1>2 DEF Cached, TimesInv
  <2> QED BY <1>1, <2>1, <2>2, ServedComplete
<1>3. CASE ~Cached
  <2>1. UNCHANGED shown
    BY <1>3 DEF Ask
  <2> QED BY <1>1, <2>1 DEF ListedInv, PlaylistComplete, IsList, Unexpanded, Skipped, Origin
<1> QED BY <1>2, <1>3

(* Every step keeps the invariant. *)
LEMMA ListedStep ==
  ASSUME TimesInv, ListInv, ListedInv, [DashNext]_dashVars
  PROVE  ListedInv'
<1>1. ASSUME NEW p \in Player, AskFirst(p) PROVE ListedInv'
  <2>1. PICK query \in Query(channel) : Ask(p, query)
    BY <1>1 DEF AskFirst
  <2>2. QueryOk(query)
    BY DashTypes DEF QueryOk, TimesInv
  <2> QED BY <2>1, <2>2, AskComplete
<1>2. ASSUME NEW p \in Player, AskLinked(p) PROVE ListedInv'
  <2>1. PICK id : Ask(p, PlaylistQuery(shown.query, id))
    BY <1>2 DEF AskLinked
  <2>2. QueryOk(PlaylistQuery(shown.query, id))
    BY DEF QueryOk, PlaylistQuery
  <2> QED BY <2>1, <2>2, AskComplete
<1>3. ASSUME NEW p \in Player, Refresh(p) PROVE ListedInv'
  <2>1. shown # None /\ Ask(p, shown.query)
    BY <1>3 DEF Refresh
  <2>2. QueryOk(shown.query)
    BY <2>1 DEF ListInv
  <2> QED BY <2>1, <2>2, AskComplete
<1>4. ASSUME NEW p \in Player, FetchEnds(p) PROVE ListedInv'
  <2>1. /\ job[p] # None /\ job[p].at # None /\ Serve(job[p].query, job[p].at)
        /\ UNCHANGED channel
    BY <1>4 DEF FetchEnds
  <2>2. job[p].at \in 0 .. MaxTime /\ QueryOk(job[p].query)
    BY <2>1 DEF TimesInv, ListInv
  <2> QED BY <2>1, <2>2, ServedComplete
<1>5. CASE UNCHANGED <<channel, shown>>
  BY <1>5 DEF ListedInv, PlaylistComplete, IsList, Unexpanded, Skipped, Origin
<1>6. ASSUME NEW p \in Player, UpstreamAnswers(p) \/ UpstreamDown(p) PROVE UNCHANGED <<channel, shown>>
  BY <1>6 DEF UpstreamAnswers, UpstreamDown
<1>7. ASSUME NEW i \in 1 .. MaxLines, Play(i) PROVE UNCHANGED <<channel, shown>>
  BY <1>7 DEF Play
<1>8. Tick \/ UNCHANGED dashVars => UNCHANGED <<channel, shown>>
  BY DEF Tick, dashVars
<1> QED BY <1>1, <1>2, <1>3, <1>4, <1>5, <1>6, <1>7, <1>8 DEF DashNext

(* Whatever MPD a playlist is made of, from the cache or not, and whatever  *)
(* window and start offset, it lists the segments of its profile under      *)
(* their own names, ranges and init segments, all of them or as many of the *)
(* newest as the depth asks for, if the channel consists of what its MPD    *)
(* says by the standard and the MPD is as the code presumes.                *)
THEOREM PlaylistsStayComplete ==
  DashSpec => [](Truthful(channel) /\ Listable(channel) => PlaylistComplete)
<1>1. DashInit => ListedInv
  BY DEF DashInit, ListedInv, PlaylistComplete, IsList
<1>2. MasterInv /\ ListInv /\ ListedInv /\ [DashNext]_dashVars => ListedInv'
  BY ListedStep DEF MasterInv
<1>3. MasterInv /\ ListedInv => (Truthful(channel) /\ Listable(channel) => PlaylistComplete)
  BY DEF MasterInv, TimesInv, ListedInv, Presumed
<1> QED BY <1>1, <1>2, <1>3, MasterInvariant, ListInvariant, PTL DEF DashSpec

(* So the segments of such a channel reach their players after their own    *)
(* init segments and are decrypted with them.                               *)
THEOREM SegmentsStayDecodable ==
  DashSpec => [](Truthful(channel) /\ Listable(channel) /\ OwnInits(channel) => SegmentDecodable)
BY PlaylistsStayComplete, CompleteIsDecodable, PTL

=============================================================================
