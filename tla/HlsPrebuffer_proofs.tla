-------------------------- MODULE HlsPrebuffer_proofs --------------------------
(***************************************************************************)
(* Theorems about HlsPrebuffer, for all sets of playlists, segments,        *)
(* headers, calls and prefetchers, and every number of segments ahead.      *)
(***************************************************************************)
EXTENDS HlsPrebuffer, SequenceTheorems, TLAPS

----------------------------------------------------------------------------
(* Queues. *)

(* The elements of a sequence over S are in S. *)
LEMMA ElemsType ==
  ASSUME NEW S, NEW q \in Seq(S)
  PROVE  Elems(q) \subseteq S
  BY DEF Elems

(* What pop_batch_with_headers takes off a queue, and what it leaves. *)
LEMMA SplitQueue ==
  ASSUME NEW S, NEW q \in Seq(S), NEW n \in 0 .. Len(q)
  PROVE  /\ SubSeq(q, 1, n) \in Seq(S)
         /\ SubSeq(q, n + 1, Len(q)) \in Seq(S)
         /\ Elems(SubSeq(q, 1, n)) \subseteq Elems(q)
         /\ Elems(SubSeq(q, n + 1, Len(q))) \subseteq Elems(q)
<1>1. /\ SubSeq(q, 1, n) \in Seq(S)
      /\ Len(SubSeq(q, 1, n)) = n
      /\ \A i \in 1 .. n : SubSeq(q, 1, n)[i] = q[i]
  BY SubSeqProperties
<1>2. /\ SubSeq(q, n + 1, Len(q)) \in Seq(S)
      /\ Len(SubSeq(q, n + 1, Len(q))) = Len(q) - n
      /\ \A i \in 1 .. Len(q) - n : SubSeq(q, n + 1, Len(q))[i] = q[n + i]
  <2>1. \A i \in n + 1 .. Len(q) : q[i] \in S
    OBVIOUS
  <2>2. n + 1 \in Int /\ Len(q) \in Int
    OBVIOUS
  <2>3. /\ SubSeq(q, n + 1, Len(q)) \in Seq(S)
        /\ Len(SubSeq(q, n + 1, Len(q))) =
             IF n + 1 <= Len(q) THEN Len(q) - (n + 1) + 1 ELSE 0
        /\ \A i \in 1 .. Len(q) - (n + 1) + 1 :
             SubSeq(q, n + 1, Len(q))[i] = q[n + 1 + i - 1]
    BY <2>1, <2>2, SubSeqProperties
  <2> QED
    BY <2>3
<1>3. Elems(SubSeq(q, 1, n)) \subseteq Elems(q)
  BY <1>1 DEF Elems
<1>4. Elems(SubSeq(q, n + 1, Len(q))) \subseteq Elems(q)
  <2> SUFFICES ASSUME NEW i \in 1 .. Len(q) - n
               PROVE  SubSeq(q, n + 1, Len(q))[i] \in Elems(q)
    BY <1>2 DEF Elems
  <2> QED
    BY <1>2 DEF Elems
<1> QED
  BY <1>1, <1>2, <1>3, <1>4

(* A concatenation has no elements but those of its parts. *)
LEMMA ConcatElems ==
  ASSUME NEW S, NEW q \in Seq(S), NEW r \in Seq(S)
  PROVE  q \o r \in Seq(S) /\ Elems(q \o r) \subseteq Elems(q) \cup Elems(r)
<1>1. /\ q \o r \in Seq(S)
      /\ Len(q \o r) = Len(q) + Len(r)
      /\ \A i \in 1 .. Len(q) + Len(r) :
           (q \o r)[i] = IF i <= Len(q) THEN q[i] ELSE r[i - Len(q)]
  BY ConcatProperties
<1>2. ASSUME NEW i \in 1 .. Len(q) + Len(r)
      PROVE  (q \o r)[i] \in Elems(q) \cup Elems(r)
  <2>1. CASE i <= Len(q)
    BY <1>1, <2>1 DEF Elems
  <2>2. CASE i > Len(q)
    BY <1>1, <2>2 DEF Elems
  <2> QED
    BY <2>1, <2>2
<1> QED
  BY <1>1, <1>2 DEF Elems

(* Putting u in front adds no element but u. *)
LEMMA FrontQueue ==
  ASSUME NEW S, NEW q \in Seq(S), NEW u \in S
  PROVE  /\ <<u>> \o q \in Seq(S)
         /\ Elems(<<u>> \o q) \subseteq Elems(q) \cup {u}
<1>1. <<u>> \in Seq(S) /\ Elems(<<u>>) = {u}
  BY DEF Elems
<1> QED
  BY <1>1, ConcatElems

(* Taking out one element adds none. *)
LEMMA WithoutQueue ==
  ASSUME NEW S, NEW q \in Seq(S), NEW i \in DOMAIN q
  PROVE  Without(q, i) \in Seq(S) /\ Elems(Without(q, i)) \subseteq Elems(q)
<1>1. i - 1 \in 0 .. Len(q) /\ i \in 0 .. Len(q)
  OBVIOUS
<1> DEFINE a == SubSeq(q, 1, i - 1)
           b == SubSeq(q, i + 1, Len(q))
<1>2. /\ a \in Seq(S) /\ Elems(a) \subseteq Elems(q)
      /\ b \in Seq(S) /\ Elems(b) \subseteq Elems(q)
  BY <1>1, SplitQueue
<1>3. Without(q, i) = a \o b
  BY DEF Without
<1> HIDE DEF a, b
<1>4. a \o b \in Seq(S) /\ Elems(a \o b) \subseteq Elems(a) \cup Elems(b)
  BY <1>2, ConcatElems
<1> QED
  BY <1>2, <1>3, <1>4

----------------------------------------------------------------------------
(* Types. *)

(* The context of a call that has none is well typed. *)
LEMMA NoJobType == SomeHeaders \in Headers /\ NoJob \in Job
  BY HlsAssumption DEF SomeHeaders, NoJob, Job

(* The initial state has the right types. *)
LEMMA InitType == Init => TypeOK
  BY NoJobType DEF Init, TypeOK, Pcs, WorkerPcs

(* What a call was given is well typed, so that its parts can be used. *)
LEMMA JobParts ==
  ASSUME TypeOK, JobOk, NEW t \in Task
  PROVE  /\ job[t].urls \in Seq(Segment)
         /\ job[t].headers \in Headers
         /\ Elems(job[t].urls) \subseteq Segment
         /\ pc[t] \in {"replace", "promote"} =>
              /\ job[t].urls[1] \in Segment
              /\ job[t].urls[1] \in Elems(job[t].urls)
<1>1. job[t].urls \in Seq(Segment) /\ job[t].headers \in Headers
  BY DEF TypeOK, Job
<1>2. pc[t] \in {"replace", "promote"} => 1 \in DOMAIN job[t].urls
  BY <1>1, EmptySeq DEF JobOk
<1> QED
  BY <1>1, <1>2, ElemsType DEF Elems

(* Registering a list offers each of its urls. *)
LEMMA OfferType ==
  ASSUME NEW x \in Prefetcher, NEW h \in Headers, NEW q \in Seq(Segment)
  PROVE  {<<x, u, h>> : u \in Elems(q)} \subseteq Prefetcher \X Segment \X Headers
<1>1. Elems(q) \subseteq Segment
  BY ElemsType
<1> QED
  BY <1>1

(* A call that returns leaves no context behind. *)
LEMMA ReturnType ==
  ASSUME TypeOK, NEW t \in Task, Return(t)
  PROVE  pc' \in [Task -> Pcs] /\ job' \in [Task -> Job]
         /\ target' \in [Task -> Prefetcher \cup {None}]
  BY NoJobType DEF TypeOK, Return, Goto, Pcs

(* Every step of every call and of every worker keeps the types. *)
LEMMA NextType == TypeOK /\ JobOk /\ Guarded /\ [Next]_vars => TypeOK'
<1> SUFFICES ASSUME TypeOK, JobOk, Guarded, [Next]_vars PROVE TypeOK'
  OBVIOUS
<1> USE DEF TypeOK
<1>1. ASSUME NEW t \in Task, NEW p \in Playlist, NEW urls \in Queues,
             NEW h \in Headers, RegisterNew(t, p, urls, h)
      PROVE  TypeOK'
  <2>1. urls \in Seq(Segment)
    BY HlsAssumption
  <2>2. PICK x \in Prefetcher :
          /\ entry' = [entry EXCEPT ![p] = x]
          /\ key' = [key EXCEPT ![x] = p]
          /\ queue' = [queue EXCEPT ![x] = urls]
          /\ headers' = [headers EXCEPT ![x] = h]
          /\ worker' = [worker EXCEPT ![x] = "check"]
          /\ offered' = offered \cup {<<x, u, h>> : u \in Elems(urls)}
    BY <1>1 DEF RegisterNew
  <2>3. offered' \subseteq Prefetcher \X Segment \X Headers
    BY <2>1, <2>2, OfferType
  <2>4. pc' \in [Task -> Pcs] /\ worker' \in [Prefetcher -> WorkerPcs]
    BY <1>1, <2>2 DEF RegisterNew, Goto, Pcs, WorkerPcs
  <2> QED
    BY <1>1, <2>1, <2>2, <2>3, <2>4 DEF RegisterNew
<1>2. ASSUME NEW t \in Task, NEW p \in Playlist, NEW urls \in Queues,
             NEW h \in Headers, RegisterKnown(t, p, urls, h)
      PROVE  TypeOK'
  <2>1. [playlist |-> p, urls |-> urls, headers |-> h] \in Job
    BY HlsAssumption DEF Job
  <2>2. entry[p] \in Prefetcher \cup {None}
    OBVIOUS
  <2>3. pc' \in [Task -> Pcs]
    BY <1>2 DEF RegisterKnown, Goto, Pcs, Updating
  <2> QED
    BY <1>2, <2>1, <2>2, <2>3 DEF RegisterKnown, state
<1>3. ASSUME NEW t \in Task, NEW p \in Playlist, RequestUnknown(t, p)
      PROVE  TypeOK'
  BY <1>3 DEF RequestUnknown, Goto, Pcs, state
<1>4. ASSUME NEW t \in Task, NEW p \in Playlist, NEW u \in Segment,
             RequestKnown(t, p, u)
      PROVE  TypeOK'
  <2>1. Asks(p, u) \in Job
    BY NoJobType DEF Asks, Job
  <2>2. entry[p] \in Prefetcher \cup {None}
    OBVIOUS
  <2>3. pc' \in [Task -> Pcs]
    BY <1>4 DEF RequestKnown, Goto, Pcs, Promoting
  <2>4. job' \in [Task -> Job]
    BY <1>4, <2>1 DEF RequestKnown
  <2> QED
    BY <1>4, <2>2, <2>3, <2>4 DEF RequestKnown, state
<1>5. ASSUME NEW t \in Task, Replace(t) PROVE TypeOK'
  <2>1. target[t] \in Prefetcher
    BY <1>5 DEF Replace, Guarded, Updating
  <2>2. offered' \subseteq Prefetcher \X Segment \X Headers
    BY <1>5, <2>1, JobParts, OfferType DEF Replace
  <2>3. pc' \in [Task -> Pcs]
    BY <1>5 DEF Replace, Goto, Pcs, Updating
  <2> QED
    BY <1>5, <2>1, <2>2, <2>3, JobParts DEF Replace
<1>6. ASSUME NEW t \in Task, Stamp(t) PROVE TypeOK'
  BY <1>6 DEF Stamp, Goto, Pcs, Updating
<1>7. ASSUME NEW t \in Task, Notify(t) PROVE TypeOK'
  BY <1>7, ReturnType DEF Notify
<1>8. ASSUME NEW t \in Task, Promote(t) PROVE TypeOK'
  <2> DEFINE x == target[t]
             u == job[t].urls[1]
  <2>1. x \in Prefetcher /\ u \in Segment /\ queue[x] \in Seq(Segment)
    BY <1>8, JobParts DEF Promote, Guarded, Promoting
  <2>2. <<u>> \o queue[x] \in Seq(Segment)
    BY <2>1, FrontQueue
  <2>3. \A i \in DOMAIN queue[x] : <<u>> \o Without(queue[x], i) \in Seq(Segment)
    BY <2>1, FrontQueue, WithoutQueue
  <2>4. queue' \in [Prefetcher -> Seq(Segment)]
    BY <1>8, <2>2, <2>3, ZenonT(60) DEF Promote
  <2>5. pc' \in [Task -> Pcs] /\ requested' \subseteq Prefetcher \X Segment
    BY <1>8, <2>1 DEF Promote, Goto, Pcs, Promoting
  <2> QED
    BY <1>8, <2>4, <2>5 DEF Promote
<1>9. ASSUME NEW t \in Task, Ring(t) PROVE TypeOK'
  BY <1>9 DEF Ring, Goto, Pcs, Promoting
<1>10. ASSUME NEW t \in Task, Mark(t) \/ DropRequest(t) PROVE TypeOK'
  BY <1>10, ReturnType DEF Mark, DropRequest, state
<1>11. ASSUME NEW x \in Prefetcher, CheckIdle(x) \/ Woken(x) \/ WaitTimesOut(x)
       PROVE  TypeOK'
  BY <1>11 DEF CheckIdle, Woken, WaitTimesOut, WorkerGoto, WorkerPcs, calls
<1>12. ASSUME NEW x \in Prefetcher, Evict(x) PROVE TypeOK'
  BY <1>12 DEF Evict, WorkerGoto, WorkerPcs, calls
<1>13. ASSUME NEW x \in Prefetcher, PopBatch(x) PROVE TypeOK'
  <2> DEFINE n == IF Len(queue[x]) < Ahead THEN Len(queue[x]) ELSE Ahead
  <2>1. queue[x] \in Seq(Segment) /\ n \in 0 .. Len(queue[x])
    BY HlsAssumption
  <2>2. /\ SubSeq(queue[x], n + 1, Len(queue[x])) \in Seq(Segment)
        /\ Elems(SubSeq(queue[x], 1, n)) \subseteq Segment
    BY <2>1, SplitQueue, ElemsType
  <2>3. queue' \in [Prefetcher -> Seq(Segment)]
    BY <1>13, <2>2 DEF PopBatch
  <2>4. batch' \in [Prefetcher -> [urls : SUBSET Segment, headers : Headers]]
    BY <1>13, <2>2 DEF PopBatch
  <2>5. worker' \in [Prefetcher -> WorkerPcs]
    BY <1>13 DEF PopBatch, WorkerGoto, WorkerPcs
  <2> QED
    BY <1>13, <2>3, <2>4, <2>5 DEF PopBatch, calls
<1>14. ASSUME NEW x \in Prefetcher, SkipCached(x) PROVE TypeOK'
  BY <1>14 DEF SkipCached, WorkerGoto, WorkerPcs, calls
<1>15. ASSUME NEW x \in Prefetcher, NEW ok \in SUBSET Segment, Fetched(x, ok)
       PROVE  TypeOK'
  BY <1>15 DEF Fetched, WorkerGoto, WorkerPcs, calls
<1>16. ASSUME NEW x \in Prefetcher, GoIdle(x) PROVE TypeOK'
  BY <1>16 DEF GoIdle, calls
<1>17. ASSUME NEW k \in cache, CacheDrops(k) PROVE TypeOK'
  BY <1>17 DEF CacheDrops, calls
<1>18. CASE UNCHANGED vars
  BY <1>18 DEF vars, state, calls
<1> QED
  BY <1>1, <1>2, <1>3, <1>4, <1>5, <1>6, <1>7, <1>8, <1>9, <1>10, <1>11,
     <1>12, <1>13, <1>14, <1>15, <1>16, <1>17, <1>18
  DEF Next, TaskStarts, TaskContinues, WorkerStep

----------------------------------------------------------------------------
(* Guards, registration and wake-ups. *)

(* No call runs and no prefetcher is registered at first. *)
LEMMA InitInv ==
  Init => Registered /\ Guarded /\ JobOk /\ NoLostWakeup
  BY DEF Init, Registered, Guarded, JobOk, NoLostWakeup, Alive, Updating,
         Promoting

(* Only calls with urls get to replace or promote. *)
LEMMA NextJobOk == TypeOK /\ JobOk /\ [Next]_vars => JobOk'
<1> SUFFICES ASSUME TypeOK, JobOk, [Next]_vars PROVE JobOk'
  OBVIOUS
<1> USE DEF JobOk, TypeOK
<1>1. ASSUME NEW t \in Task, NEW p \in Playlist, NEW urls \in Queues,
             NEW h \in Headers,
             RegisterNew(t, p, urls, h) \/ RegisterKnown(t, p, urls, h)
      PROVE  JobOk'
  <2>1. urls # <<>>
    BY HlsAssumption
  <2>2. CASE RegisterNew(t, p, urls, h)
    BY <2>2 DEF RegisterNew, Goto
  <2>3. CASE RegisterKnown(t, p, urls, h)
    BY <2>1, <2>3 DEF RegisterKnown, Goto
  <2> QED
    BY <1>1, <2>2, <2>3
<1>2. ASSUME NEW t \in Task, NEW p \in Playlist, RequestUnknown(t, p)
      PROVE  JobOk'
  BY <1>2 DEF RequestUnknown, Goto
<1>3. ASSUME NEW t \in Task, NEW p \in Playlist, NEW u \in Segment,
             RequestKnown(t, p, u)
      PROVE  JobOk'
  <2>1. Asks(p, u).urls # <<>>
    BY DEF Asks
  <2> QED
    BY <1>3, <2>1 DEF RequestKnown, Goto
<1>4. ASSUME NEW t \in Task, TaskContinues(t) \/ DropRequest(t) PROVE JobOk'
  BY <1>4 DEF TaskContinues, Replace, Stamp, Notify, Promote, Ring, Mark,
              DropRequest, Return, Goto
<1>5. ASSUME NEW x \in Prefetcher, WorkerStep(x) \/ GoIdle(x) PROVE JobOk'
  BY <1>5 DEF WorkerStep, CheckIdle, Evict, PopBatch, SkipCached, Fetched,
              Woken, WaitTimesOut, GoIdle, calls
<1>6. ASSUME NEW k \in cache, CacheDrops(k) PROVE JobOk'
  BY <1>6 DEF CacheDrops, calls
<1>7. CASE UNCHANGED vars
  BY <1>7 DEF vars, calls
<1> QED
  BY <1>1, <1>2, <1>3, <1>4, <1>5, <1>6, <1>7 DEF Next, TaskStarts

(* An entry is not inserted over another and not removed under a guard. *)
LEMMA NextGuarded == TypeOK /\ Registered /\ Guarded /\ [Next]_vars => Guarded'
<1> SUFFICES ASSUME TypeOK, Registered, Guarded, [Next]_vars PROVE Guarded'
  OBVIOUS
<1> USE DEF Guarded, TypeOK
<1>1. ASSUME NEW t \in Task, NEW p \in Playlist, NEW urls \in Queues,
             NEW h \in Headers, RegisterNew(t, p, urls, h)
      PROVE  Guarded'
  BY <1>1, HlsAssumption DEF RegisterNew, Goto, Updating, Promoting
<1>2. ASSUME NEW t \in Task, NEW p \in Playlist, NEW urls \in Queues,
             NEW h \in Headers, RegisterKnown(t, p, urls, h)
      PROVE  Guarded'
  BY <1>2 DEF RegisterKnown, Goto, state
<1>3. ASSUME NEW t \in Task, NEW p \in Playlist, RequestUnknown(t, p)
      PROVE  Guarded'
  BY <1>3 DEF RequestUnknown, Goto, state, Updating, Promoting
<1>4. ASSUME NEW t \in Task, NEW p \in Playlist, NEW u \in Segment,
             RequestKnown(t, p, u)
      PROVE  Guarded'
  <2>1. Asks(p, u).playlist = p
    BY DEF Asks
  <2> QED
    BY <1>4, <2>1 DEF RequestKnown, Goto, state
<1>5. ASSUME NEW t \in Task, TaskContinues(t) \/ DropRequest(t) PROVE Guarded'
  <2>1. entry' = entry
    BY <1>5 DEF TaskContinues, Replace, Stamp, Notify, Promote, Ring, Mark,
                DropRequest, state
  <2>2. CASE Replace(t) \/ Stamp(t) \/ Promote(t) \/ Ring(t)
    <3>1. /\ pc[t] \in Updating \cup Promoting
          /\ job' = job /\ target' = target
          /\ \A s \in Task \ {t} : pc'[s] = pc[s]
      BY <2>2 DEF Replace, Stamp, Promote, Ring, Goto, Updating, Promoting
    <3> QED
      BY <2>1, <3>1
  <2>3. CASE Notify(t) \/ Mark(t) \/ DropRequest(t)
    <3>1. /\ pc'[t] \notin Updating \cup Promoting
          /\ \A s \in Task \ {t} : /\ pc'[s] = pc[s]
                                    /\ job'[s] = job[s]
                                    /\ target'[s] = target[s]
      BY <2>3 DEF Notify, Mark, DropRequest, Return, Goto, Updating, Promoting
    <3> QED
      BY <2>1, <3>1
  <2> QED
    BY <1>5, <2>2, <2>3 DEF TaskContinues
<1>6. ASSUME NEW x \in Prefetcher, Evict(x) PROVE Guarded'
  <2>1. key[x] \in Playlist /\ Unlocked(key[x])
    BY <1>6 DEF Evict, Registered, Alive
  <2>2. ASSUME NEW t \in Task, pc[t] \in Updating \cup Promoting
        PROVE  job[t].playlist # key[x]
    BY <2>1, <2>2 DEF Unlocked, WriteLocked, ReadLocked
  <2> QED
    BY <1>6, <2>1, <2>2 DEF Evict, calls
<1>7. ASSUME NEW x \in Prefetcher,
             \/ CheckIdle(x) \/ PopBatch(x) \/ SkipCached(x)
             \/ \E ok \in SUBSET Segment : Fetched(x, ok)
             \/ Woken(x) \/ WaitTimesOut(x) \/ GoIdle(x)
      PROVE  Guarded'
  BY <1>7 DEF CheckIdle, PopBatch, SkipCached, Fetched,
              Woken, WaitTimesOut, GoIdle, calls
<1>8. ASSUME NEW k \in cache, CacheDrops(k) PROVE Guarded'
  BY <1>8 DEF CacheDrops, calls
<1>9. CASE UNCHANGED vars
  BY <1>9 DEF vars, calls, state
<1> QED
  BY <1>1, <1>2, <1>3, <1>4, <1>5, <1>6, <1>7, <1>8, <1>9
  DEF Next, TaskStarts, WorkerStep

(* Registration and eviction keep map and workers together. *)
LEMMA NextRegistered ==
  TypeOK /\ JobOk /\ Registered /\ Guarded /\ [Next]_vars => Registered'
<1> SUFFICES ASSUME TypeOK, JobOk, Registered, Guarded, [Next]_vars
             PROVE  Registered'
  OBVIOUS
<1> USE DEF Registered, TypeOK, Alive
<1>1. ASSUME NEW t \in Task, NEW p \in Playlist, NEW urls \in Queues,
             NEW h \in Headers, RegisterNew(t, p, urls, h)
      PROVE  Registered'
  <2>1. PICK x \in Prefetcher :
          /\ worker[x] = "none"
          /\ entry' = [entry EXCEPT ![p] = x]
          /\ key' = [key EXCEPT ![x] = p]
          /\ headers' = [headers EXCEPT ![x] = h]
          /\ worker' = [worker EXCEPT ![x] = "check"]
          /\ offered' = offered \cup {<<x, u, h>> : u \in Elems(urls)}
    BY <1>1 DEF RegisterNew
  <2>2. PICK v \in Segment : v \in Elems(urls)
    <3>1. urls \in Seq(Segment) /\ urls # <<>>
      BY HlsAssumption
    <3>2. 1 \in DOMAIN urls
      BY <3>1, EmptySeq
    <3> QED
      BY <3>1, <3>2 DEF Elems
  <2>3. <<x, v, headers'[x]>> \in offered'
    BY <2>1, <2>2
  <2>4. ASSUME NEW q \in Playlist, entry'[q] # None
        PROVE  worker'[entry'[q]] \notin {"none", "gone"} /\ key'[entry'[q]] = q
    BY <2>1, <2>4
  <2>5. ASSUME NEW y \in Prefetcher, y # x, Alive(y)'
        PROVE  /\ key'[y] \in Playlist
               /\ entry'[key'[y]] = y
               /\ \E w \in Segment : <<y, w, headers'[y]>> \in offered'
    <3>1. Alive(y) /\ key[y] \in Playlist /\ entry[key[y]] = y
      BY <2>1, <2>5
    <3>2. key[y] # p
      BY <1>1, <3>1, HlsAssumption DEF RegisterNew
    <3> QED
      BY <2>1, <2>5, <3>1, <3>2
  <2>6. key'[x] = p /\ entry'[p] = x
    BY <2>1
  <2>7. /\ key'[x] \in Playlist
        /\ entry'[key'[x]] = x
        /\ \E w \in Segment : <<x, w, headers'[x]>> \in offered'
    BY <2>3, <2>6
  <2> QED
    BY <2>4, <2>5, <2>7
<1>2. ASSUME NEW t \in Task, NEW p \in Playlist,
             \/ RequestUnknown(t, p)
             \/ \E u \in Segment : RequestKnown(t, p, u)
             \/ \E urls \in Queues, h \in Headers : RegisterKnown(t, p, urls, h)
      PROVE  Registered'
  BY <1>2 DEF RequestUnknown, RequestKnown, RegisterKnown, state
<1>3. ASSUME NEW t \in Task, Replace(t) PROVE Registered'
  <2> DEFINE x == target[t]
  <2>1. x \in Prefetcher
    BY <1>3 DEF Replace, Guarded, Updating
  <2>2. <<x, job[t].urls[1], headers'[x]>> \in offered' /\ job[t].urls[1] \in Segment
    BY <1>3, <2>1, JobParts DEF Replace
  <2> HIDE DEF x
  <2>3. /\ offered \subseteq offered' /\ entry' = entry
        /\ key' = key /\ worker' = worker
        /\ \A y \in Prefetcher \ {x} : headers'[y] = headers[y]
    BY <1>3 DEF Replace, x
  <2> QED
    BY <2>2, <2>3
<1>4. ASSUME NEW t \in Task,
             \/ Stamp(t) \/ Notify(t) \/ Promote(t) \/ Ring(t) \/ Mark(t)
             \/ DropRequest(t)
      PROVE  Registered'
  BY <1>4 DEF Stamp, Notify, Promote, Ring, Mark, DropRequest, state
<1>5. ASSUME NEW x \in Prefetcher, Evict(x) PROVE Registered'
  <2>1. key[x] \in Playlist /\ entry[key[x]] = x
    BY <1>5 DEF Evict
  <2>2. /\ entry' = [entry EXCEPT ![key[x]] = None]
        /\ worker' = [worker EXCEPT ![x] = "gone"]
        /\ UNCHANGED <<key, headers, offered>>
    BY <1>5 DEF Evict, WorkerGoto
  <2>3. ASSUME NEW q \in Playlist, entry'[q] # None
        PROVE  worker'[entry'[q]] \notin {"none", "gone"} /\ key'[entry'[q]] = q
    <3>1. q # key[x] /\ entry'[q] = entry[q]
      BY <2>1, <2>2, <2>3
    <3>2. key[entry[q]] = q /\ entry[q] # x
      BY <2>3, <3>1
    <3> QED
      BY <2>2, <2>3, <3>1, <3>2
  <2>4. ASSUME NEW y \in Prefetcher, Alive(y)'
        PROVE  /\ key'[y] \in Playlist
               /\ entry'[key'[y]] = y
               /\ \E w \in Segment : <<y, w, headers'[y]>> \in offered'
    <3>1. y # x /\ Alive(y)
      BY <2>2, <2>4
    <3>2. key[y] # key[x]
      BY <2>1, <3>1
    <3> QED
      BY <2>2, <3>1, <3>2
  <2> QED
    BY <2>3, <2>4
<1>6. ASSUME NEW x \in Prefetcher,
             \/ CheckIdle(x) \/ PopBatch(x) \/ SkipCached(x)
             \/ \E ok \in SUBSET Segment : Fetched(x, ok)
             \/ Woken(x) \/ WaitTimesOut(x)
      PROVE  Registered'
  <2>1. UNCHANGED <<entry, key, headers, offered>>
    BY <1>6 DEF CheckIdle, PopBatch, SkipCached, Fetched, Woken, WaitTimesOut
  <2>2. \A y \in Prefetcher : Alive(y)' <=> Alive(y)
    BY <1>6 DEF CheckIdle, PopBatch, SkipCached, Fetched, Woken, WaitTimesOut,
                WorkerGoto
  <2> QED
    BY <2>1, <2>2, SMTT(60)
<1>7. ASSUME NEW x \in Prefetcher, GoIdle(x) PROVE Registered'
  BY <1>7 DEF GoIdle
<1>8. ASSUME NEW k \in cache, CacheDrops(k) PROVE Registered'
  BY <1>8 DEF CacheDrops
<1>9. CASE UNCHANGED vars
  BY <1>9 DEF vars, state
<1> QED
  BY <1>1, <1>2, <1>3, <1>4, <1>5, <1>6, <1>7, <1>8, <1>9
  DEF Next, TaskStarts, TaskContinues, WorkerStep

(* For each prefetcher x a step keeps the promise if it leaves the worker   *)
(* and its queue alone and neither takes a permit nor ends a call to x.     *)
LEMMA PromiseKept ==
  ASSUME NoLostWakeup,
         \A x \in Prefetcher :
           worker'[x] = "wait" /\ queue'[x] # <<>> =>
             \/ wake'[x]
             \/ \E t \in Task : target'[t] = x /\ pc'[t] \in {"stamp", "notify", "ring"}
             \/ /\ worker[x] = "wait" /\ queue[x] # <<>>
                /\ wake[x] => wake'[x]
                /\ \A t \in Task :
                     target[t] = x /\ pc[t] \in {"stamp", "notify", "ring"} =>
                       target'[t] = x /\ pc'[t] \in {"stamp", "notify", "ring"}
  PROVE  NoLostWakeup'
  BY DEF NoLostWakeup

(* No wake-up is lost: the worker goes to wait only with an empty queue, and *)
(* a call that fills it is not done before it has notified.                  *)
LEMMA NextNoLostWakeup ==
  TypeOK /\ NoLostWakeup /\ [Next]_vars => NoLostWakeup'
<1> SUFFICES ASSUME TypeOK, NoLostWakeup, [Next]_vars PROVE NoLostWakeup'
  OBVIOUS
<1> USE DEF TypeOK
<1>1. ASSUME NEW t \in Task, NEW p \in Playlist, NEW urls \in Queues,
             NEW h \in Headers, RegisterNew(t, p, urls, h)
      PROVE  NoLostWakeup'
  <2>1. PICK x \in Prefetcher :
          /\ \A y \in Prefetcher \ {x} :
               worker'[y] = worker[y] /\ queue'[y] = queue[y]
          /\ worker'[x] = "check"
    BY <1>1 DEF RegisterNew
  <2>2. /\ UNCHANGED <<wake, target>>
        /\ pc[t] = "idle"
        /\ \A s \in Task \ {t} : pc'[s] = pc[s]
    BY <1>1 DEF RegisterNew, Goto
  <2> QED
    BY <2>1, <2>2, PromiseKept
<1>2. ASSUME NEW t \in Task, NEW p \in Playlist,
             \/ RequestUnknown(t, p)
             \/ \E u \in Segment : RequestKnown(t, p, u)
             \/ \E urls \in Queues, h \in Headers : RegisterKnown(t, p, urls, h)
      PROVE  NoLostWakeup'
  <2>1. /\ UNCHANGED <<worker, queue, wake>>
        /\ pc[t] = "idle"
        /\ \A s \in Task \ {t} : pc'[s] = pc[s] /\ target'[s] = target[s]
    BY <1>2 DEF RequestUnknown, RequestKnown, RegisterKnown, Goto, state
  <2> QED
    BY <2>1, PromiseKept
<1>3. ASSUME NEW t \in Task, Replace(t) PROVE NoLostWakeup'
  <2>1. /\ UNCHANGED <<worker, wake, target>>
        /\ \A y \in Prefetcher \ {target[t]} : queue'[y] = queue[y]
        /\ pc[t] = "replace" /\ pc'[t] = "stamp"
        /\ \A s \in Task \ {t} : pc'[s] = pc[s]
    BY <1>3 DEF Replace, Goto
  <2> QED
    BY <2>1, PromiseKept
<1>4. ASSUME NEW t \in Task, Promote(t) PROVE NoLostWakeup'
  <2>1. /\ UNCHANGED <<worker, wake, target>>
        /\ \A y \in Prefetcher \ {target[t]} : queue'[y] = queue[y]
        /\ pc[t] = "promote" /\ pc'[t] = "ring"
        /\ \A s \in Task \ {t} : pc'[s] = pc[s]
    BY <1>4 DEF Promote, Goto
  <2> QED
    BY <2>1, PromiseKept
<1>5. ASSUME NEW t \in Task, Stamp(t) PROVE NoLostWakeup'
  <2>1. /\ UNCHANGED <<worker, queue, wake, target>>
        /\ pc'[t] = "notify"
        /\ \A s \in Task \ {t} : pc'[s] = pc[s]
    BY <1>5 DEF Stamp, Goto
  <2> QED
    BY <2>1, PromiseKept
<1>6. ASSUME NEW t \in Task, Notify(t) \/ Ring(t) PROVE NoLostWakeup'
  <2>1. /\ UNCHANGED <<worker, queue>>
        /\ \A y \in Prefetcher : wake[y] => wake'[y]
        /\ target[t] \in Prefetcher => wake'[target[t]]
        /\ \A s \in Task \ {t} : pc'[s] = pc[s] /\ target'[s] = target[s]
    BY <1>6 DEF Notify, Ring, Return, Goto
  <2> QED
    BY <2>1, PromiseKept
<1>7. ASSUME NEW t \in Task, Mark(t) \/ DropRequest(t) PROVE NoLostWakeup'
  <2>1. /\ UNCHANGED <<worker, queue, wake>>
        /\ pc[t] \in {"promote", "mark"}
        /\ \A s \in Task \ {t} : pc'[s] = pc[s] /\ target'[s] = target[s]
    BY <1>7 DEF Mark, DropRequest, Return, Goto, state
  <2> QED
    BY <2>1, PromiseKept
<1>8. ASSUME NEW x \in Prefetcher, PopBatch(x) PROVE NoLostWakeup'
  <2>1. /\ UNCHANGED <<wake, pc, target>>
        /\ \A y \in Prefetcher \ {x} :
             worker'[y] = worker[y] /\ queue'[y] = queue[y]
    BY <1>8 DEF PopBatch, WorkerGoto, calls
  <2>2. worker'[x] = "wait" => queue'[x] = <<>>
    <3>1. CASE Len(queue[x]) = 0
      <4>1. queue'[x] = SubSeq(queue[x], 1, 0)
        BY <1>8, <3>1, HlsAssumption DEF PopBatch
      <4> QED
        BY <4>1, SubSeqEmpty
    <3>2. CASE Len(queue[x]) # 0
      BY <1>8, <3>2, HlsAssumption DEF PopBatch, WorkerGoto
    <3> QED
      BY <3>1, <3>2
  <2> QED
    BY <2>1, <2>2, PromiseKept
<1>9. ASSUME NEW x \in Prefetcher,
             \/ CheckIdle(x) \/ Evict(x) \/ SkipCached(x)
             \/ \E ok \in SUBSET Segment : Fetched(x, ok)
             \/ Woken(x) \/ WaitTimesOut(x)
      PROVE  NoLostWakeup'
  <2>1. /\ UNCHANGED <<queue, pc, target>>
        /\ worker'[x] # "wait"
        /\ \A y \in Prefetcher \ {x} :
             worker'[y] = worker[y] /\ wake'[y] = wake[y]
    BY <1>9 DEF CheckIdle, Evict, SkipCached, Fetched, Woken, WaitTimesOut,
                WorkerGoto, calls
  <2> QED
    BY <2>1, PromiseKept
<1>10. ASSUME NEW x \in Prefetcher, GoIdle(x) PROVE NoLostWakeup'
  BY <1>10, PromiseKept DEF GoIdle, calls
<1>11. ASSUME NEW k \in cache, CacheDrops(k) PROVE NoLostWakeup'
  BY <1>11, PromiseKept DEF CacheDrops, calls
<1>12. CASE UNCHANGED vars
  BY <1>12, PromiseKept DEF vars, state, calls
<1> QED
  BY <1>1, <1>2, <1>3, <1>4, <1>5, <1>6, <1>7, <1>8, <1>9, <1>10, <1>11, <1>12
  DEF Next, TaskStarts, TaskContinues, WorkerStep

----------------------------------------------------------------------------
(* Headers. *)

(* At first nothing is queued, fetched or cached. *)
LEMMA InitFetched == Init => FetchedUnderOwnHeaders
<1> SUFFICES ASSUME Init PROVE FetchedUnderOwnHeaders
  OBVIOUS
<1>1. \A x \in Prefetcher : Elems(queue[x]) = {} /\ worker[x] = "none"
  BY DEF Init, Elems
<1>2. cache = {}
  BY DEF Init
<1> QED
  BY <1>1, <1>2 DEF FetchedUnderOwnHeaders

(* What is admitted stays admitted. *)
LEMMA AdmittedGrows ==
  ASSUME offered \subseteq offered', requested \subseteq requested',
         NEW x \in Prefetcher, NEW u, NEW h, Admitted(x, u, h)
  PROVE  Admitted(x, u, h)'
  BY DEF Admitted

(* A step keeps FetchedUnderOwnHeaders when, for each prefetcher, the queue  *)
(* and the batch gain only admitted urls, and so does the cache.             *)
LEMMA FetchedKept ==
  ASSUME FetchedUnderOwnHeaders,
         offered \subseteq offered', requested \subseteq requested',
         \A x \in Prefetcher :
           \A u \in Elems(queue'[x]) :
             \/ u \in Elems(queue[x]) /\ headers'[x] = headers[x]
             \/ Admitted(x, u, headers[x])',
         \A x \in Prefetcher :
           worker'[x] \in {"filter", "fetch"} =>
             \A u \in batch'[x].urls :
               \/ /\ worker[x] \in {"filter", "fetch"}
                  /\ u \in batch[x].urls
                  /\ batch'[x].headers = batch[x].headers
               \/ Admitted(x, u, batch[x].headers)',
         \A k \in cache' :
           k \in cache \/ \E x \in Prefetcher : Admitted(x, k[1], k[2])'
  PROVE  FetchedUnderOwnHeaders'
<1>1. ASSUME NEW x \in Prefetcher, NEW u \in Elems(queue'[x])
      PROVE  Admitted(x, u, headers[x])'
  <2>1. CASE u \in Elems(queue[x]) /\ headers'[x] = headers[x]
    BY <1>1, <2>1 DEF FetchedUnderOwnHeaders, Admitted
  <2> QED
    BY <1>1, <2>1
<1>2. ASSUME NEW x \in Prefetcher, worker'[x] \in {"filter", "fetch"},
             NEW u \in batch'[x].urls
      PROVE  Admitted(x, u, batch[x].headers)'
  <2>1. CASE /\ worker[x] \in {"filter", "fetch"}
             /\ u \in batch[x].urls
             /\ batch'[x].headers = batch[x].headers
    BY <1>2, <2>1 DEF FetchedUnderOwnHeaders, Admitted
  <2> QED
    BY <1>2, <2>1
<1>3. ASSUME NEW k \in cache'
      PROVE  \E x \in Prefetcher : Admitted(x, k[1], k[2])'
  <2>1. CASE k \in cache
    BY <1>3, <2>1 DEF FetchedUnderOwnHeaders, Admitted
  <2> QED
    BY <1>3, <2>1
<1> QED
  BY <1>1, <1>2, <1>3 DEF FetchedUnderOwnHeaders

(* Queue and headers change together, and a batch keeps its own headers. *)
LEMMA NextFetched ==
  IInv /\ [Next]_vars => FetchedUnderOwnHeaders'
<1> SUFFICES ASSUME IInv, [Next]_vars PROVE FetchedUnderOwnHeaders'
  OBVIOUS
<1>0. TypeOK /\ Registered /\ Guarded /\ JobOk /\ FetchedUnderOwnHeaders
  BY DEF IInv
<1>1. ASSUME NEW t \in Task, NEW p \in Playlist, NEW urls \in Queues,
             NEW h \in Headers, RegisterNew(t, p, urls, h)
      PROVE  FetchedUnderOwnHeaders'
  <2>1. PICK x \in Prefetcher :
          /\ queue' = [queue EXCEPT ![x] = urls]
          /\ headers' = [headers EXCEPT ![x] = h]
          /\ worker' = [worker EXCEPT ![x] = "check"]
          /\ offered' = offered \cup {<<x, u, h>> : u \in Elems(urls)}
    BY <1>1 DEF RegisterNew
  <2>2. batch' = batch /\ cache' = cache /\ requested' = requested
    BY <1>1 DEF RegisterNew
  <2>3. \A u \in Elems(queue'[x]) : Admitted(x, u, headers[x])'
    BY <1>0, <2>1 DEF TypeOK, Admitted
  <2>4. \A y \in Prefetcher \ {x} :
          /\ queue'[y] = queue[y] /\ headers'[y] = headers[y]
          /\ worker'[y] = worker[y]
    BY <1>0, <2>1 DEF TypeOK
  <2>5. worker'[x] = "check"
    BY <1>0, <2>1 DEF TypeOK
  <2> QED
    BY <1>0, <2>1, <2>2, <2>3, <2>4, <2>5, FetchedKept
<1>2. ASSUME NEW t \in Task, NEW p \in Playlist,
             \/ RequestUnknown(t, p)
             \/ \E u \in Segment : RequestKnown(t, p, u)
             \/ \E urls \in Queues, h \in Headers : RegisterKnown(t, p, urls, h)
      PROVE  FetchedUnderOwnHeaders'
  BY <1>0, <1>2, FetchedKept DEF RequestUnknown, RequestKnown, RegisterKnown, state
<1>3. ASSUME NEW t \in Task, Replace(t) PROVE FetchedUnderOwnHeaders'
  <2>1. PICK x \in Prefetcher : x = target[t]
    BY <1>0, <1>3 DEF Replace, Guarded, Updating
  <2>2. \A u \in Elems(queue'[x]) : Admitted(x, u, headers[x])'
    BY <1>0, <1>3, <2>1 DEF Replace, TypeOK, Admitted
  <2>3. \A y \in Prefetcher \ {x} :
          queue'[y] = queue[y] /\ headers'[y] = headers[y]
    BY <1>0, <1>3, <2>1 DEF Replace, TypeOK
  <2>4. /\ UNCHANGED <<worker, batch, cache, requested>>
        /\ offered \subseteq offered'
    BY <1>3 DEF Replace
  <2> QED
    BY <1>0, <2>2, <2>3, <2>4, FetchedKept
<1>4. ASSUME NEW t \in Task, Promote(t) PROVE FetchedUnderOwnHeaders'
  <2>0. PICK x \in Prefetcher, u \in Segment :
          x = target[t] /\ u = job[t].urls[1]
    BY <1>0, <1>4, JobParts DEF Promote, Guarded, Promoting
  <2>1. queue[x] \in Seq(Segment) /\ queue \in [Prefetcher -> Seq(Segment)]
    BY <1>0 DEF TypeOK
  <2>2. Admitted(x, u, headers[x])'
    <3>1. Alive(x)
      BY <1>0, <1>4, <2>0, HlsAssumption
      DEF Promote, Guarded, Promoting, Registered
    <3>2. \E v \in Segment : <<x, v, headers[x]>> \in offered
      BY <1>0, <2>1, <3>1 DEF Registered
    <3> QED
      BY <1>4, <2>0, <3>2 DEF Promote, Admitted
  <2>3. Elems(queue'[x]) \subseteq Elems(queue[x]) \cup {u}
    <3>1. CASE queue' = [queue EXCEPT ![x] = <<u>> \o @]
      <4>1. queue'[x] = <<u>> \o queue[x]
        BY <2>1, <3>1
      <4> QED
        BY <2>1, <4>1, FrontQueue
    <3>2. ASSUME NEW i \in DOMAIN queue[x],
                 queue' = [queue EXCEPT ![x] = <<u>> \o Without(@, i)]
          PROVE  Elems(queue'[x]) \subseteq Elems(queue[x]) \cup {u}
      <4>1. queue'[x] = <<u>> \o Without(queue[x], i)
        BY <2>1, <3>2
      <4>2. /\ Without(queue[x], i) \in Seq(Segment)
            /\ Elems(Without(queue[x], i)) \subseteq Elems(queue[x])
        BY <2>1, WithoutQueue
      <4> QED
        BY <2>1, <4>1, <4>2, FrontQueue
    <3> QED
      BY <1>4, <2>0, <3>1, <3>2 DEF Promote
  <2>4. /\ UNCHANGED <<headers, worker, batch, cache, offered>>
        /\ requested \subseteq requested'
        /\ \A y \in Prefetcher \ {x} : queue'[y] = queue[y]
    BY <1>0, <1>4, <2>0 DEF Promote, TypeOK
  <2> QED
    BY <1>0, <2>2, <2>3, <2>4, FetchedKept
<1>5. ASSUME NEW t \in Task,
             Stamp(t) \/ Notify(t) \/ Ring(t) \/ Mark(t) \/ DropRequest(t)
      PROVE  FetchedUnderOwnHeaders'
  BY <1>0, <1>5, FetchedKept DEF Stamp, Notify, Ring, Mark, DropRequest, state
<1>6. ASSUME NEW x \in Prefetcher, PopBatch(x) PROVE FetchedUnderOwnHeaders'
  <2> DEFINE n == IF Len(queue[x]) < Ahead THEN Len(queue[x]) ELSE Ahead
  <2>1. queue[x] \in Seq(Segment) /\ n \in 0 .. Len(queue[x])
    BY <1>0, HlsAssumption DEF TypeOK
  <2>2. /\ queue'[x] = SubSeq(queue[x], n + 1, Len(queue[x]))
        /\ batch'[x].urls = Elems(SubSeq(queue[x], 1, n))
        /\ batch'[x].headers = headers[x]
    BY <1>0, <1>6 DEF PopBatch, TypeOK
  <2>3. /\ Elems(queue'[x]) \subseteq Elems(queue[x])
        /\ batch'[x].urls \subseteq Elems(queue[x])
    BY <2>1, <2>2, SplitQueue
  <2>4. /\ UNCHANGED <<headers, cache, offered, requested>>
        /\ \A y \in Prefetcher \ {x} :
             /\ queue'[y] = queue[y] /\ batch'[y] = batch[y]
             /\ worker'[y] = worker[y]
    BY <1>0, <1>6 DEF PopBatch, WorkerGoto, TypeOK
  <2>5. \A u \in batch'[x].urls : Admitted(x, u, batch[x].headers)'
    BY <1>0, <2>2, <2>3, <2>4 DEF FetchedUnderOwnHeaders, Admitted
  <2> QED
    BY <1>0, <2>3, <2>4, <2>5, FetchedKept
<1>7. ASSUME NEW x \in Prefetcher, SkipCached(x) PROVE FetchedUnderOwnHeaders'
  <2>1. /\ UNCHANGED <<queue, headers, cache, offered, requested>>
        /\ worker[x] = "filter"
        /\ batch'[x].urls \subseteq batch[x].urls
        /\ batch'[x].headers = batch[x].headers
        /\ \A y \in Prefetcher \ {x} :
             batch'[y] = batch[y] /\ worker'[y] = worker[y]
    BY <1>0, <1>7 DEF SkipCached, WorkerGoto, TypeOK
  <2> QED
    BY <1>0, <2>1, FetchedKept
<1>8. ASSUME NEW x \in Prefetcher, NEW ok \in SUBSET Segment, Fetched(x, ok)
      PROVE  FetchedUnderOwnHeaders'
  <2>1. /\ UNCHANGED <<queue, headers, batch, offered, requested>>
        /\ worker[x] = "fetch" /\ worker'[x] = "check"
        /\ \A y \in Prefetcher \ {x} : worker'[y] = worker[y]
        /\ cache' = cache \cup {<<u, batch[x].headers>> : u \in ok}
        /\ ok \subseteq batch[x].urls
    BY <1>0, <1>8 DEF Fetched, WorkerGoto, TypeOK
  <2>2. \A u \in ok : Admitted(x, u, batch[x].headers)'
    BY <1>0, <2>1 DEF FetchedUnderOwnHeaders, Admitted
  <2>3. \A k \in cache' :
          k \in cache \/ \E y \in Prefetcher : Admitted(y, k[1], k[2])'
    BY <2>1, <2>2 DEF Admitted
  <2> QED
    BY <1>0, <2>1, <2>3, FetchedKept
<1>9. ASSUME NEW x \in Prefetcher,
             CheckIdle(x) \/ Evict(x) \/ Woken(x) \/ WaitTimesOut(x) \/ GoIdle(x)
      PROVE  FetchedUnderOwnHeaders'
  <2>1. /\ UNCHANGED <<queue, headers, batch, cache, offered, requested>>
        /\ \A y \in Prefetcher :
             worker'[y] \in {"filter", "fetch"} => worker'[y] = worker[y]
    BY <1>0, <1>9 DEF CheckIdle, Evict, Woken, WaitTimesOut, GoIdle, WorkerGoto,
                      TypeOK
  <2> QED
    BY <1>0, <2>1, FetchedKept
<1>10. ASSUME NEW k \in cache, CacheDrops(k) PROVE FetchedUnderOwnHeaders'
  BY <1>0, <1>10, FetchedKept DEF CacheDrops
<1>11. CASE UNCHANGED vars
  BY <1>0, <1>11, FetchedKept DEF vars, state
<1> QED
  BY <1>1, <1>2, <1>3, <1>4, <1>5, <1>6, <1>7, <1>8, <1>9, <1>10, <1>11
  DEF Next, TaskStarts, TaskContinues, WorkerStep

----------------------------------------------------------------------------
(* The theorems. *)

(* The conjunction of all of the above is an inductive invariant. *)
LEMMA Inductive == Spec => []IInv
<1>1. Init => IInv
  BY InitType, InitInv, InitFetched DEF IInv
<1>2. IInv /\ [Next]_vars => IInv'
  BY NextType, NextJobOk, NextGuarded, NextRegistered, NextNoLostWakeup,
     NextFetched
  DEF IInv
<1> QED
  BY <1>1, <1>2, PTL DEF Spec

(* Types: the map, the prefetchers, the workers, the calls and the cache     *)
(* hold what they may hold.                                                  *)
THEOREM TypeCorrect == Spec => []TypeOK
  BY Inductive, PTL DEF IInv

(* "One PlaylistPrefetcher per unique playlist URL": register_playlist and   *)
(* the worker's eviction keep exactly one worker per registered playlist.    *)
THEOREM OneWorker == Spec => []OneWorkerPerPlaylist
<1>1. IInv => OneWorkerPerPlaylist
  BY HlsAssumption DEF IInv, TypeOK, Registered, Alive, OneWorkerPerPlaylist
<1> QED
  BY <1>1, Inductive, PTL

(* update() and prioritize() act on a registered prefetcher with a worker.   *)
THEOREM UpdatesReach == Spec => []UpdatesReachTheWorker
<1>1. IInv => UpdatesReachTheWorker
  BY HlsAssumption DEF IInv, Registered, Guarded, UpdatesReachTheWorker
<1> QED
  BY <1>1, Inductive, PTL

(* "No URLs are lost": a waiting worker with work to do is about to be told. *)
THEOREM WakeupsKept == Spec => []NoLostWakeup
  BY Inductive, PTL DEF IInv

(* No segment is fetched or cached under another playlist's headers, or      *)
(* under headers of a refresh it was not part of.                            *)
THEOREM OwnHeaders == Spec => []FetchedUnderOwnHeaders
  BY Inductive, PTL DEF IInv

=============================================================================
