-------------------------- MODULE TelegramStream_proofs --------------------------
(* TLAPS proofs about TelegramStream. *)
EXTENDS TelegramStream, SequenceTheorems, TLAPS

(* The exits of parse_range. *)
LEMMA ParseRangeCases ==
  ASSUME NEW h, NEW size, h.kind \in {"none", "suffix", "from", "between"}
  PROVE  \/ ParseRange(h, size) = WholeFile(size)
         \/ h.kind = "suffix" /\ ParseRange(h, size) = Suffix(h.low, size)
         \/ ParseRange(h, size) = Between(h.low, LastByte(size), size)
         \/ ParseRange(h, size) = Between(h.low, h.high, size)
<1>1. CASE h.kind = "none"
  BY ONLY <1>1 DEF ParseRange
<1>2. CASE h.kind = "suffix"
  BY ONLY <1>2 DEF ParseRange
<1>3. CASE h.kind = "from"
  BY ONLY <1>3 DEF ParseRange
<1>4. CASE h.kind = "between"
  BY ONLY <1>4 DEF ParseRange
<1> QED
  BY <1>1, <1>2, <1>3, <1>4

(* parse_range gives a range of the file that is at worst empty. *)
LEMMA ParseRangeType ==
  ASSUME NEW h \in Headers, NEW size \in Nat
  PROVE  /\ ParseRange(h, size) \in [start : Nat, end : Nat]
         /\ ParseRange(h, size).start <= ParseRange(h, size).end + 1
<1>1. h.kind \in {"none", "suffix", "from", "between"} /\ h.low \in Nat /\ h.high \in Nat
  BY DEF Headers
<1>2. LastByte(size) \in Nat /\ size <= LastByte(size) + 1
  BY DEF LastByte
<1>3. \A n \in Nat : /\ Suffix(n, size) \in [start : Nat, end : Nat]
                     /\ Suffix(n, size).start <= Suffix(n, size).end + 1
  BY <1>2 DEF Suffix, Least
<1>4. \A low, high \in Nat :
        /\ Between(low, high, size) \in [start : Nat, end : Nat]
        /\ Between(low, high, size).start <= Between(low, high, size).end + 1
  BY <1>2 DEF Between, WholeFile, Least
<1>5. WholeFile(size) \in [start : Nat, end : Nat]
      /\ WholeFile(size).start <= WholeFile(size).end + 1
  BY <1>2 DEF WholeFile
<1>6. \/ ParseRange(h, size) = WholeFile(size)
      \/ ParseRange(h, size) = Suffix(h.low, size)
      \/ ParseRange(h, size) = Between(h.low, LastByte(size), size)
      \/ ParseRange(h, size) = Between(h.low, h.high, size)
  BY <1>1, ParseRangeCases
<1>7. CASE ParseRange(h, size) = WholeFile(size)
  BY ONLY <1>7, <1>5
<1>8. CASE ParseRange(h, size) = Suffix(h.low, size)
  BY ONLY <1>8, <1>1, <1>3
<1>9. CASE ParseRange(h, size) = Between(h.low, LastByte(size), size)
  BY ONLY <1>9, <1>1, <1>2, <1>4, ZenonT(60)
<1>10. CASE ParseRange(h, size) = Between(h.low, h.high, size)
  BY ONLY <1>10, <1>1, <1>4, ZenonT(60)
<1> QED
  BY ONLY <1>6, <1>7, <1>8, <1>9, <1>10

(* Of a file that is not empty it gives some of its bytes and nothing       *)
(* beyond, for every header but the suffix of length zero.                  *)
THEOREM ParseRangeInFile ==
  ASSUME NEW h \in Headers, NEW size \in Nat \ {0},
         h.kind = "suffix" => h.low # 0
  PROVE  /\ ParseRange(h, size).start <= ParseRange(h, size).end
         /\ ParseRange(h, size).end < size
<1>1. h.kind \in {"none", "suffix", "from", "between"} /\ h.low \in Nat /\ h.high \in Nat
  BY DEF Headers
<1>2. LastByte(size) = size - 1
  BY DEF LastByte
<1>3. \A n \in Nat : n # 0 => /\ Suffix(n, size).start <= Suffix(n, size).end
                              /\ Suffix(n, size).end < size
  BY <1>2 DEF Suffix, Least
<1>4. \A low, high \in Nat : /\ Between(low, high, size).start <= Between(low, high, size).end
                             /\ Between(low, high, size).end < size
  BY <1>2 DEF Between, WholeFile, Least
<1>5. WholeFile(size).start <= WholeFile(size).end /\ WholeFile(size).end < size
  BY <1>2 DEF WholeFile
<1>6. \/ ParseRange(h, size) = WholeFile(size)
      \/ h.kind = "suffix" /\ ParseRange(h, size) = Suffix(h.low, size)
      \/ ParseRange(h, size) = Between(h.low, LastByte(size), size)
      \/ ParseRange(h, size) = Between(h.low, h.high, size)
  BY <1>1, ParseRangeCases
<1>7. CASE ParseRange(h, size) = WholeFile(size)
  BY ONLY <1>7, <1>5
<1>8. CASE h.kind = "suffix" /\ ParseRange(h, size) = Suffix(h.low, size)
  <2>1. h.low # 0
    BY <1>8
  <2> QED
    BY ONLY <2>1, <1>8, <1>1, <1>3
<1>9. CASE ParseRange(h, size) = Between(h.low, LastByte(size), size)
  <2>1. LastByte(size) \in Nat
    BY <1>2
  <2> QED
    BY ONLY <2>1, <1>9, <1>1, <1>4
<1>10. CASE ParseRange(h, size) = Between(h.low, h.high, size)
  BY ONLY <1>10, <1>1, <1>4
<1> QED
  BY ONLY <1>6, <1>7, <1>8, <1>9, <1>10

(* The first chunk begins at or before the range. *)
LEMMA AlignDownBelow ==
  ASSUME NEW n \in Nat
  PROVE  AlignDown(n) \in Nat /\ AlignDown(n) <= n
BY TelegramAssumption, Z3 DEF AlignDown

LEMMA SliceType ==
  ASSUME NEW from \in Nat, NEW to \in Nat, from <= to
  PROVE  /\ Slice(from, to) \in Seq(Nat)
         /\ Len(Slice(from, to)) = to - from + 1
         /\ \A i \in 1 .. to - from + 1 : Slice(from, to)[i] = from + i - 1
BY DEF Slice

(* A body that has come up to a byte goes on with that byte. *)
LEMMA Continued ==
  ASSUME NEW q \in Seq(Nat), NEW start \in Nat, NEW from \in Nat, NEW to \in Nat,
         \A i \in 1 .. Len(q) : q[i] = start + i - 1,
         from = start + Len(q), from <= to
  PROVE  /\ q \o Slice(from, to) \in Seq(Nat)
         /\ Len(q \o Slice(from, to)) = to - start + 1
         /\ \A i \in 1 .. Len(q \o Slice(from, to)) :
              (q \o Slice(from, to))[i] = start + i - 1
<1> DEFINE p == Slice(from, to)
<1>1. p \in Seq(Nat) /\ Len(p) = to - from + 1
  BY SliceType
<1>2. \A i \in 1 .. to - from + 1 : p[i] = from + i - 1
  BY SliceType
<1> HIDE DEF p
<1>3. /\ q \o p \in Seq(Nat)
      /\ Len(q \o p) = Len(q) + Len(p)
      /\ \A i \in 1 .. Len(q) + Len(p) :
           (q \o p)[i] = IF i <= Len(q) THEN q[i] ELSE p[i - Len(q)]
  BY <1>1, ConcatProperties
<1>4. Len(q) \in Nat
  OBVIOUS
<1>5. ASSUME NEW i \in 1 .. Len(q) + Len(p) PROVE (q \o p)[i] = start + i - 1
  <2>1. CASE i <= Len(q)
    BY <2>1, <1>3, <1>4
  <2>2. CASE ~(i <= Len(q))
    <3>1. i - Len(q) \in 1 .. to - from + 1
      BY <2>2, <1>1, <1>4
    <3>2. (q \o p)[i] = from + (i - Len(q)) - 1
      BY <2>2, <3>1, <1>2, <1>3
    <3> QED
      BY <3>2, <1>4
  <2> QED
    BY <2>1, <2>2
<1> QED
  BY <1>1, <1>3, <1>4, <1>5 DEF p

LEMMA InitInv == Init => IInv
<1> SUFFICES ASSUME Init PROVE IInv
  OBVIOUS
<1> USE TelegramAssumption DEF Init
<1>1. TypeOK
  BY DEF TypeOK, Pcs
<1>2. BodyFollowsOffset /\ BodyIsRange /\ EndedIsComplete
  BY DEF BodyFollowsOffset, BodyIsRange, EndedIsComplete, InStream, Over, Total
<1>3. LeftIsGone /\ NotTheBrokenOneAgain
  BY DEF LeftIsGone, NotTheBrokenOneAgain
<1> QED
  BY <1>1, <1>2, <1>3 DEF IInv

(* A stream that reconnects gets a connection it has not left: reset_client *)
(* has cleared CLIENT, and only new connections are put there.              *)
LEMMA LeftStep ==
  ASSUME TypeOK, LeftIsGone, NotTheBrokenOneAgain, [Next]_vars
  PROVE  LeftIsGone' /\ NotTheBrokenOneAgain'
<1> USE TelegramAssumption DEF TypeOK, LeftIsGone, NotTheBrokenOneAgain, Goto, connections
<1>1. ASSUME NEW s \in Stream,
             Arrive(s) \/ StartConnect(s) \/ ConnectFails(s) \/ NotResolved(s)
               \/ Enough(s) \/ GetNothing(s) \/ GetFails(s) \/ GivesUp(s)
               \/ DropRequest(s)
      PROVE  LeftIsGone' /\ NotTheBrokenOneAgain'
  BY <1>1, SMTT(60) DEF Arrive, StartConnect, ConnectFails, NotResolved, Enough, GetNothing,
              GetFails, GivesUp, DropRequest, Wanted
<1>2. ASSUME NEW s \in Stream, ReuseClient(s)
      PROVE  LeftIsGone' /\ NotTheBrokenOneAgain'
  BY <1>2 DEF ReuseClient, After
<1>3. ASSUME NEW s \in Stream, Connected(s)
      PROVE  LeftIsGone' /\ NotTheBrokenOneAgain'
  BY <1>3 DEF Connected, After
<1>4. ASSUME NEW s \in Stream, Found(s) \/ Trusted(s)
      PROVE  LeftIsGone' /\ NotTheBrokenOneAgain'
  BY <1>4 DEF Found, Trusted, Answer
<1>5. ASSUME NEW s \in Stream, GetChunk(s)
      PROVE  LeftIsGone' /\ NotTheBrokenOneAgain'
  BY <1>5 DEF GetChunk, Wanted
<1>6. ASSUME NEW s \in Stream, Disconnected(s)
      PROVE  LeftIsGone' /\ NotTheBrokenOneAgain'
  BY <1>6 DEF Disconnected, Wanted
<1>7. ASSUME NEW s \in Stream, ResetClient(s)
      PROVE  LeftIsGone' /\ NotTheBrokenOneAgain'
  BY <1>7 DEF ResetClient
<1>8. ASSUME NEW c \in Client, Breaks(c)
      PROVE  LeftIsGone' /\ NotTheBrokenOneAgain'
  BY <1>8 DEF Breaks
<1>9. CASE UNCHANGED vars
  BY <1>9 DEF vars
<1> QED
  BY <1>1, <1>2, <1>3, <1>4, <1>5, <1>6, <1>7, <1>8, <1>9 DEF Next, Progress

(* Steps that leave the body alone. *)
LEMMA BodyKept ==
  ASSUME TypeOK, BodyFollowsOffset, BodyIsRange, EndedIsComplete,
         NEW s \in Stream, NEW to \in Pcs, Goto(s, to), UNCHANGED <<job, body>>,
         to \in {"fetch", "reset", "relock", "reconnect"} => InStream(s),
         InStream(s) => to \notin {"idle", "lock", "connect", "resolve"},
         to = "ended" =>
           (range[s].end < job[s].length => Len(sent[s]) = Total(s)),
         ~Over(s)
  PROVE  BodyFollowsOffset' /\ BodyIsRange' /\ EndedIsComplete'
<1>1. \A t \in Stream : pc'[t] = IF t = s THEN to ELSE pc[t]
  BY DEF TypeOK, Goto
<1>2. job' = job /\ range' = range /\ offset' = offset /\ sent' = sent
  BY DEF body
<1>3. BodyFollowsOffset'
  <2> SUFFICES ASSUME NEW t \in Stream
               PROVE  /\ range[t].start <= range[t].end + 1
                      /\ ~InStream(t)' /\ ~Over(t)' => sent[t] = <<>>
                      /\ InStream(t)' =>
                           Len(sent[t]) = IF offset[t] <= range[t].start THEN 0
                             ELSE Least(offset[t], range[t].end + 1) - range[t].start
    BY <1>2 DEF BodyFollowsOffset
  <2>1. InStream(t)' => InStream(t)
    BY <1>1 DEF InStream
  <2>2. ~InStream(t)' /\ ~Over(t)' => ~InStream(t) /\ ~Over(t)
    BY <1>1 DEF InStream, Over, Pcs
  <2> QED
    BY <2>1, <2>2 DEF BodyFollowsOffset
<1>4. BodyIsRange'
  BY <1>2 DEF BodyIsRange, Total
<1>5. EndedIsComplete'
  BY <1>1, <1>2 DEF EndedIsComplete, Total
<1> QED
  BY <1>3, <1>4, <1>5

(* Of a known size, the headers are sent and the body begins. *)
LEMMA BodyBegins ==
  ASSUME TypeOK, BodyFollowsOffset, BodyIsRange, EndedIsComplete,
         NEW s \in Stream, NEW size \in Nat, Answer(s, size),
         pc[s] = "resolve", UNCHANGED <<job, sent>>
  PROVE  /\ BodyFollowsOffset' /\ BodyIsRange' /\ EndedIsComplete'
         /\ range' \in [Stream -> [start : Nat, end : Nat]]
         /\ offset' \in [Stream -> Nat]
<1> DEFINE r == ParseRange(job[s].header, size)
<1>1. job[s].header \in Headers
  BY TelegramAssumption DEF TypeOK, Jobs
<1>2. r \in [start : Nat, end : Nat] /\ r.start <= r.end + 1
  BY <1>1, ParseRangeType
<1> DEFINE o == AlignDown(r.start)
<1>3. o \in Nat /\ o <= r.start
  BY <1>2, AlignDownBelow
<1>4. /\ range' = [range EXCEPT ![s] = r]
      /\ offset' = [offset EXCEPT ![s] = o]
      /\ pc' = [pc EXCEPT ![s] = IF job[s].head THEN "ended" ELSE "fetch"]
      /\ job' = job /\ sent' = sent
  BY DEF Answer, Goto
<1> HIDE DEF r, o
<1>5. sent[s] = <<>>
  BY DEF BodyFollowsOffset, InStream, Over
<1>6. BodyFollowsOffset'
  <2> SUFFICES ASSUME NEW t \in Stream
               PROVE  /\ range'[t].start <= range'[t].end + 1
                      /\ ~InStream(t)' /\ ~Over(t)' => sent[t] = <<>>
                      /\ InStream(t)' =>
                           Len(sent[t]) = IF offset'[t] <= range'[t].start THEN 0
                             ELSE Least(offset'[t], range'[t].end + 1) - range'[t].start
    BY <1>4 DEF BodyFollowsOffset
  <2>1. CASE t = s
    <3>1. range'[t] = r /\ offset'[t] = o /\ sent[t] = <<>>
      BY <2>1, <1>4, <1>5 DEF TypeOK
    <3> QED
      BY <3>1, <1>2, <1>3
  <2>2. CASE t # s
    <3>1. range'[t] = range[t] /\ offset'[t] = offset[t] /\ pc'[t] = pc[t]
      BY <2>2, <1>4 DEF TypeOK
    <3> QED
      BY <3>1 DEF BodyFollowsOffset, InStream, Over
  <2> QED
    BY <2>1, <2>2
<1>7. BodyIsRange'
  <2> SUFFICES ASSUME NEW t \in Stream
               PROVE  /\ \A i \in 1 .. Len(sent[t]) : sent[t][i] = range'[t].start + i - 1
                      /\ Len(sent[t]) <= range'[t].end - range'[t].start + 1
    BY <1>4 DEF BodyIsRange, Total
  <2>1. CASE t = s
    <3>1. range'[t] = r /\ Len(sent[t]) = 0
      BY <2>1, <1>4, <1>5 DEF TypeOK
    <3> QED
      BY <3>1, <1>2
  <2>2. CASE t # s
    BY <2>2, <1>4 DEF BodyIsRange, Total, TypeOK
  <2> QED
    BY <2>1, <2>2
<1>8. EndedIsComplete'
  BY <1>2, <1>4 DEF EndedIsComplete, TypeOK, Total
<1> QED
  BY <1>2, <1>3, <1>4, <1>6, <1>7, <1>8 DEF TypeOK

(* A chunk goes on where the body is, and is the last one if it is short or *)
(* reaches the end of the range.                                            *)
LEMMA BodyGrows ==
  ASSUME TypeOK, BodyFollowsOffset, BodyIsRange, EndedIsComplete,
         NEW s \in Stream, GetChunk(s)
  PROVE  /\ BodyFollowsOffset' /\ BodyIsRange' /\ EndedIsComplete'
         /\ sent' \in [Stream -> Seq(Nat)]
         /\ offset' \in [Stream -> Nat]
<1> DEFINE size  == Least(Chunk, job[s].length - offset[s])
           from  == Greatest(range[s].start, offset[s])
           to    == Least(range[s].end, offset[s] + size - 1)
           start == range[s].start
           end   == range[s].end
           o     == offset[s]
           q     == sent[s]
           r     == IF from <= to THEN q \o Slice(from, to) ELSE q
           done  == size < Chunk \/ o + size > end
<1>1. /\ start \in Nat /\ end \in Nat /\ o \in Nat /\ q \in Seq(Nat)
      /\ Chunk \in Nat \ {0} /\ job[s].length \in Nat
  BY TelegramAssumption DEF TypeOK, Jobs
<1>2. /\ pc[s] = "fetch" /\ o < job[s].length
      /\ Len(q) < end - start + 1
      /\ sent' = [sent EXCEPT ![s] = r]
      /\ offset' = [offset EXCEPT ![s] = o + size]
      /\ pc' = [pc EXCEPT ![s] = IF done THEN "ended" ELSE "fetch"]
      /\ range' = range /\ job' = job
  BY DEF GetChunk, Wanted, Total, Goto
<1>3. size \in Nat \ {0} /\ (size < Chunk => o + size = job[s].length)
  BY <1>1, <1>2 DEF Least
<1>4. /\ \A i \in 1 .. Len(q) : q[i] = start + i - 1
      /\ Len(q) = IF o <= start THEN 0 ELSE Least(o, end + 1) - start
      /\ start <= end + 1
  BY <1>2 DEF BodyIsRange, BodyFollowsOffset, InStream
<1> HIDE DEF size, start, end, o, q
<1>5. /\ r \in Seq(Nat)
      /\ \A i \in 1 .. Len(r) : r[i] = start + i - 1
      /\ Len(r) <= end - start + 1
      /\ Len(r) = IF o + size <= start THEN 0 ELSE Least(o + size, end + 1) - start
      /\ o + size > end => Len(r) = end - start + 1
  <2>1. /\ from = Greatest(start, o) /\ to = Least(end, o + size - 1)
        /\ r = IF from <= to THEN q \o Slice(from, to) ELSE q
        /\ Len(q) < end - start + 1
    BY <1>2 DEF start, end, o, size
  <2> HIDE DEF from, to, r
  <2>2. Len(q) \in Nat /\ from \in Nat /\ to \in Nat
    BY ONLY <1>1, <1>3, <2>1 DEF Greatest, Least
  <2>3. from = start + Len(q) /\ from <= end
    BY ONLY <1>1, <1>4, <2>1, <2>2 DEF Greatest, Least
  <2>4. CASE from <= to
    <3>1. r = q \o Slice(from, to)
      BY <2>1, <2>4
    <3>2. /\ q \o Slice(from, to) \in Seq(Nat)
          /\ Len(q \o Slice(from, to)) = to - start + 1
          /\ \A i \in 1 .. Len(q \o Slice(from, to)) :
               (q \o Slice(from, to))[i] = start + i - 1
      <4>1. /\ q \in Seq(Nat) /\ start \in Nat /\ from \in Nat /\ to \in Nat
            /\ \A i \in 1 .. Len(q) : q[i] = start + i - 1
            /\ from = start + Len(q) /\ from <= to
        BY ONLY <1>1, <1>4, <2>2, <2>3, <2>4
      <4> QED
        BY ONLY <4>1, Continued, ZenonT(60)
    <3>3. /\ ~(o + size <= start)
          /\ to <= end
          /\ to + 1 = Least(o + size, end + 1)
          /\ o + size > end => to = end
      BY ONLY <1>1, <1>3, <2>1, <2>2, <2>3, <2>4 DEF Least, Greatest
    <3>4. /\ r \in Seq(Nat) /\ Len(r) = to - start + 1
          /\ \A i \in 1 .. Len(r) : r[i] = start + i - 1
      BY ONLY <3>1, <3>2
    <3>5. Len(r) = Least(o + size, end + 1) - start
      BY ONLY <3>3, <3>4, <1>1, <2>2
    <3>6. /\ Len(r) <= end - start + 1
          /\ o + size > end => Len(r) = end - start + 1
      BY ONLY <3>3, <3>4, <1>1, <1>3, <2>2
    <3> QED
      BY <3>3, <3>4, <3>5, <3>6
  <2>5. CASE ~(from <= to)
    <3>1. o + size <= start /\ Len(q) = 0
      BY ONLY <1>1, <1>3, <1>4, <2>1, <2>2, <2>3, <2>5 DEF Greatest, Least
    <3>2. r = q
      BY <2>1, <2>5
    <3>3. /\ Len(r) = 0 /\ Len(r) <= end - start + 1
          /\ ~(o + size > end)
      BY ONLY <3>1, <3>2, <1>1, <1>3, <2>2, <2>3
    <3> QED
      BY ONLY <3>1, <3>2, <3>3, <1>1, <1>4
  <2> QED
    BY <2>4, <2>5
<1> HIDE DEF r
<1>6. o + size \in Nat
  BY <1>1, <1>3
<1>7. BodyFollowsOffset'
  <2> SUFFICES ASSUME NEW t \in Stream
               PROVE  /\ range[t].start <= range[t].end + 1
                      /\ ~InStream(t)' /\ ~Over(t)' => sent'[t] = <<>>
                      /\ InStream(t)' =>
                           Len(sent'[t]) = IF offset'[t] <= range[t].start THEN 0
                             ELSE Least(offset'[t], range[t].end + 1) - range[t].start
    BY <1>2 DEF BodyFollowsOffset
  <2>1. CASE t = s
    BY <2>1, <1>2, <1>4, <1>5 DEF TypeOK, InStream, Over, start, end
  <2>2. CASE t # s
    BY <2>2, <1>2 DEF BodyFollowsOffset, TypeOK, InStream, Over
  <2> QED
    BY <2>1, <2>2
<1>8. BodyIsRange'
  <2> SUFFICES ASSUME NEW t \in Stream
               PROVE  /\ \A i \in 1 .. Len(sent'[t]) : sent'[t][i] = range[t].start + i - 1
                      /\ Len(sent'[t]) <= range[t].end - range[t].start + 1
    BY <1>2 DEF BodyIsRange, Total
  <2>1. CASE t = s
    BY <2>1, <1>2, <1>5 DEF TypeOK, start, end
  <2>2. CASE t # s
    BY <2>2, <1>2 DEF BodyIsRange, Total, TypeOK
  <2> QED
    BY <2>1, <2>2
<1>9. EndedIsComplete'
  <2> SUFFICES ASSUME NEW t \in Stream, pc'[t] = "ended", ~job[t].head,
                      range[t].end < job[t].length
               PROVE  Len(sent'[t]) = range[t].end - range[t].start + 1
    BY <1>2 DEF EndedIsComplete, Total
  <2>1. CASE t = s
    <3>1. done
      BY <2>1, <1>2 DEF TypeOK
    <3>2. o + size > end
      BY <3>1, <2>1, <1>1, <1>3 DEF end
    <3> QED
      BY <3>2, <2>1, <1>2, <1>5 DEF TypeOK, start, end
  <2>2. CASE t # s
    BY <2>2, <1>2 DEF EndedIsComplete, Total, TypeOK
  <2> QED
    BY <2>1, <2>2
<1> QED
  BY <1>2, <1>5, <1>6, <1>7, <1>8, <1>9 DEF TypeOK

(* The body of every request, and the types of what describes it. *)
LEMMA BodyStep ==
  ASSUME TypeOK, BodyFollowsOffset, BodyIsRange, EndedIsComplete, [Next]_vars
  PROVE  /\ BodyFollowsOffset' /\ BodyIsRange' /\ EndedIsComplete'
         /\ range' \in [Stream -> [start : Nat, end : Nat]]
         /\ offset' \in [Stream -> Nat]
         /\ sent' \in [Stream -> Seq(Nat)]
<1> DEFINE Kept == UNCHANGED <<job, body>>
           Good == /\ BodyFollowsOffset' /\ BodyIsRange' /\ EndedIsComplete'
                   /\ range' \in [Stream -> [start : Nat, end : Nat]]
                   /\ offset' \in [Stream -> Nat]
                   /\ sent' \in [Stream -> Seq(Nat)]
<1>0. ASSUME Kept, BodyFollowsOffset' /\ BodyIsRange' /\ EndedIsComplete'
      PROVE  Good
  BY <1>0 DEF TypeOK, body
<1>1. ASSUME NEW s \in Stream,
             Arrive(s) \/ ReuseClient(s) \/ StartConnect(s) \/ Connected(s)
               \/ ConnectFails(s) \/ NotResolved(s) \/ GetFails(s)
               \/ Disconnected(s) \/ GivesUp(s) \/ ResetClient(s) \/ DropRequest(s)
      PROVE  Good
  <2>1. PICK to \in Pcs :
          /\ Goto(s, to)
          /\ to \in {"fetch", "reset", "relock", "reconnect"} => InStream(s)
          /\ InStream(s) => to \notin {"idle", "lock", "connect", "resolve"}
          /\ to # "ended"
    BY <1>1 DEF Arrive, ReuseClient, StartConnect, Connected, ConnectFails, NotResolved,
                GetFails, Disconnected, GivesUp, ResetClient, DropRequest, After, Wanted,
                InStream, Pcs
  <2>2. Kept /\ ~Over(s)
    BY <1>1 DEF Arrive, ReuseClient, StartConnect, Connected, ConnectFails, NotResolved,
                GetFails, Disconnected, GivesUp, ResetClient, DropRequest, Wanted, Over
  <2> QED
    BY <2>1, <2>2, <1>0, BodyKept
<1>2. ASSUME NEW s \in Stream, Enough(s) PROVE Good
  <2>1. /\ Kept /\ Goto(s, "ended") /\ InStream(s) /\ ~Over(s) /\ "ended" \in Pcs
    BY <1>2 DEF Enough, InStream, Over, Pcs
  <2>2. Len(sent[s]) = Total(s)
    BY <1>2 DEF Enough, BodyIsRange, TypeOK, Total
  <2> QED
    BY <2>1, <2>2, <1>0, BodyKept
<1>3. ASSUME NEW s \in Stream, GetNothing(s) PROVE Good
  <2>1. /\ Kept /\ Goto(s, "ended") /\ InStream(s) /\ ~Over(s) /\ "ended" \in Pcs
    BY <1>3 DEF GetNothing, Wanted, InStream, Over, Pcs
  <2>2. range[s].end < job[s].length => Len(sent[s]) = Total(s)
    <3>1. range[s].start \in Nat /\ range[s].end \in Nat /\ offset[s] \in Nat
          /\ job[s].length \in Nat
      BY TelegramAssumption DEF TypeOK, Jobs
    <3>2. /\ offset[s] >= job[s].length /\ Len(sent[s]) < Total(s)
          /\ range[s].start <= range[s].end + 1
          /\ Len(sent[s]) = IF offset[s] <= range[s].start THEN 0
                            ELSE Least(offset[s], range[s].end + 1) - range[s].start
      BY <1>3, <2>1 DEF GetNothing, Wanted, BodyFollowsOffset
    <3> QED
      BY <3>1, <3>2, SMTT(60) DEF Least, Total
  <2> QED
    BY <2>1, <2>2, <1>0, BodyKept
<1>4. ASSUME NEW s \in Stream, Found(s) \/ Trusted(s) PROVE Good
  <2>1. PICK size \in Nat : Answer(s, size)
    BY <1>4, TelegramAssumption DEF Found, Trusted, TypeOK, Jobs
  <2>2. pc[s] = "resolve" /\ UNCHANGED <<job, sent>>
    BY <1>4 DEF Found, Trusted
  <2> QED
    BY <2>1, <2>2, BodyBegins DEF TypeOK
<1>5. ASSUME NEW s \in Stream, GetChunk(s) PROVE Good
  <2>1. UNCHANGED range
    BY <1>5 DEF GetChunk
  <2> QED
    BY <1>5, <2>1, BodyGrows DEF TypeOK
<1>6. CASE UNCHANGED vars \/ \E c \in Client : Breaks(c)
  <2>1. Kept /\ UNCHANGED pc
    BY <1>6 DEF Breaks, vars
  <2>2. BodyFollowsOffset' /\ BodyIsRange' /\ EndedIsComplete'
    BY <2>1 DEF BodyFollowsOffset, BodyIsRange, EndedIsComplete, InStream, Over, Total, body
  <2> QED
    BY <2>1, <2>2, <1>0
<1> QED
  BY <1>1, <1>2, <1>3, <1>4, <1>5, <1>6 DEF Next, Progress

(* The rest of the types. *)
LEMMA TypeStep ==
  ASSUME TypeOK, BodyFollowsOffset, BodyIsRange, EndedIsComplete, [Next]_vars
  PROVE  TypeOK'
<1> USE TelegramAssumption DEF TypeOK, Goto, connections
<1> DEFINE Good == /\ shared' \in Client \cup {None}
                   /\ holder' \in Stream \cup {None}
                   /\ made' \subseteq Client
                   /\ broken' \subseteq made'
                   /\ pc' \in [Stream -> Pcs]
                   /\ job' \in [Stream -> Job]
                   /\ client' \in [Stream -> Client \cup {None}]
                   /\ reconnects' \in [Stream -> 0 .. MaxReconnects]
                   /\ left' \in [Stream -> SUBSET Client]
<1>1. ASSUME NEW s \in Stream,
             Arrive(s) \/ StartConnect(s) \/ ConnectFails(s) \/ NotResolved(s)
               \/ Enough(s) \/ GetNothing(s) \/ GetFails(s) \/ GivesUp(s)
               \/ ResetClient(s) \/ DropRequest(s)
      PROVE  Good
  BY <1>1 DEF Arrive, StartConnect, ConnectFails, NotResolved, Enough, GetNothing,
              GetFails, GivesUp, ResetClient, DropRequest, Wanted, Pcs
<1>2. ASSUME NEW s \in Stream, ReuseClient(s) \/ Connected(s) PROVE Good
  <2>1. After(s) \in Pcs
    BY DEF After, Pcs
  <2>2. CASE ReuseClient(s)
    BY <2>1, <2>2 DEF ReuseClient
  <2>3. CASE Connected(s)
    <3>1. PICK c \in Client : /\ made' = made \cup {c} /\ shared' = c
                              /\ client' = [client EXCEPT ![s] = c]
      BY <2>3 DEF Connected
    <3>2. /\ holder' = None /\ broken' = broken /\ job' = job
          /\ reconnects' = reconnects /\ left' = left
          /\ pc' = [pc EXCEPT ![s] = After(s)]
      BY <2>3 DEF Connected
    <3> QED
      BY <2>1, <3>1, <3>2
  <2> QED
    BY <1>2, <2>2, <2>3
<1>3. ASSUME NEW s \in Stream, Found(s) \/ Trusted(s) PROVE Good
  BY <1>3 DEF Found, Trusted, Answer, Pcs
<1>4. ASSUME NEW s \in Stream, GetChunk(s) PROVE Good
  BY <1>4 DEF GetChunk, Pcs
<1>5. ASSUME NEW s \in Stream, Disconnected(s) PROVE Good
  BY <1>5 DEF Disconnected, Pcs
<1>6. ASSUME NEW c \in Client, Breaks(c) PROVE Good
  BY <1>6 DEF Breaks
<1>7. ASSUME UNCHANGED vars PROVE Good
  BY <1>7 DEF vars
<1>8. Good
  BY <1>1, <1>2, <1>3, <1>4, <1>5, <1>6, <1>7 DEF Next, Progress
<1> QED
  BY <1>8, BodyStep

LEMMA Invariance == Spec => []IInv
<1>1. Init => IInv
  BY InitInv
<1>2. IInv /\ [Next]_vars => IInv'
  BY BodyStep, TypeStep, LeftStep DEF IInv
<1> QED
  BY <1>1, <1>2, PTL DEF Spec

(* The variables keep their types: no stream reconnects more than           *)
(* MAX_RECONNECTS times.                                                    *)
THEOREM TypeCorrect == Spec => []TypeOK
<1>1. IInv => TypeOK
  BY DEF IInv
<1> QED
  BY <1>1, Invariance, PTL

(* For every chunk size, document and range, and however often connections  *)
(* break, a body is the requested range, in order and without repetition.   *)
THEOREM BodyCorrect == Spec => []BodyIsRange
<1>1. IInv => BodyIsRange
  BY DEF IInv
<1> QED
  BY <1>1, Invariance, PTL

(* A body that ends without an error is complete. *)
THEOREM CompleteBodies == Spec => []EndedIsComplete
<1>1. IInv => EndedIsComplete
  BY DEF IInv
<1> QED
  BY <1>1, Invariance, PTL

(* No stream is given back a connection it reset as broken. *)
THEOREM FreshConnection == Spec => []NotTheBrokenOneAgain
<1>1. IInv => NotTheBrokenOneAgain
  BY DEF IInv
<1> QED
  BY <1>1, Invariance, PTL

=============================================================================
