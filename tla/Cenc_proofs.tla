----------------------------- MODULE Cenc_proofs -----------------------------
(***************************************************************************)
(* Proofs about CencStream, for any segment and any way to cut it into      *)
(* chunks: what the reader makes of the wire, what the decrypter makes of   *)
(* moofs, what becomes of the bytes of samples, and that decryption as a    *)
(* buffer comes to the same.  The lemmas about sequences they share with    *)
(* DASH are those of Dash_proofs.                                           *)
(***************************************************************************)
EXTENDS Dash_proofs, CencSealed

-----------------------------------------------------------------------------
(* Boxes on the wire *)

(* A box as it is sent, and the units of its header. *)
OnWire(box) == Header(box) \o box.body
HeadLen(box) == IF box.form = "extended" THEN 3 ELSE 2

(* Boxes that can be sent, where the k-th of them ends on the wire, and the *)
(* units they are sent as.                                                  *)
Sendable(boxes) ==
  /\ IsSequence(boxes)
  /\ \A i \in DOMAIN boxes : IsBox(boxes[i]) /\ boxes[i].form \in {"normal", "extended", "toEnd"}
EndIn(boxes, k) == Len(WireOf(SubSeq(boxes, 1, k)))
UnitsOf(boxes) == UNION {ToSet(OnWire(boxes[i])) : i \in DOMAIN boxes}

(* Boxes that can be sent are boxes. *)
LEMMA AnyBoxIs ==
  ASSUME NEW boxes, Sendable(boxes), NEW i \in 1 .. Len(boxes)
  PROVE  LET box == boxes[i] IN
         /\ box = [type |-> box.type, form |-> box.form, body |-> box.body]
         /\ IsSequence(box.body)
         /\ box.form \in {"normal", "extended", "toEnd"}
BY SequenceIs DEF Sendable, IsBox

(* A box is sent as its header and then its body. *)
LEMMA AnyOnWireIs ==
  ASSUME NEW boxes, Sendable(boxes), NEW i \in 1 .. Len(boxes)
  PROVE  LET box == boxes[i] IN
         /\ OnWire(box) \in Seq(UnitsOf(boxes))
         /\ Len(OnWire(box)) = HeadLen(box) + Len(box.body)
         /\ \A j \in 1 .. HeadLen(box) : OnWire(box)[j] = Header(box)[j]
         /\ \A j \in 1 .. Len(box.body) : OnWire(box)[HeadLen(box) + j] = box.body[j]
<1> DEFINE box == boxes[i]
           head == Header(box)
           body == box.body
<1>1. /\ IsSequence(body)
      /\ box.form \in {"normal", "extended", "toEnd"}
  BY AnyBoxIs
<1> DEFINE T == ToSet(head) \cup ToSet(body)
<1>2. Len(head) = HeadLen(box) /\ head \in Seq(ToSet(head))
  <2>1. CASE box.form = "normal"
    BY <2>1 DEF Header, HeadLen, ToSet
  <2>2. CASE box.form = "extended"
    BY <2>2 DEF Header, HeadLen, ToSet
  <2>3. CASE box.form = "toEnd"
    BY <2>3 DEF Header, HeadLen, ToSet
  <2> QED BY <1>1, <2>1, <2>2, <2>3
<1> HIDE DEF head, body
<1>3. head \in Seq(T) /\ body \in Seq(T)
  BY <1>1, <1>2, SeqMonotonic DEF IsSequence
<1> HIDE DEF T
<1>4. /\ head \o body \in Seq(T) /\ Len(head \o body) = Len(head) + Len(body)
      /\ \A j \in 1 .. Len(head) + Len(body) :
           (head \o body)[j] = IF j <= Len(head) THEN head[j] ELSE body[j - Len(head)]
  BY <1>3, ConcatProperties
<1>5. Len(head) \in Nat /\ Len(body) \in Nat
  BY <1>3
<1> DEFINE w == head \o body
<1>6. w = OnWire(box)
  BY DEF OnWire, head, body
<1> HIDE DEF w
<1>7. ToSet(w) \subseteq UnitsOf(boxes)
  <2>1. IsSequence(boxes)
    BY DEF Sendable
  <2> QED BY <1>6, <2>1, SequenceIs DEF UnitsOf
<1>8. w \in Seq(UnitsOf(boxes))
  <2>1. w \in Seq(ToSet(w))
    BY <1>4, SeqIsSequence DEF w, IsSequence
  <2> QED BY <1>7, <2>1, SeqMonotonic
<1>9. \A j \in 1 .. Len(head) : w[j] = head[j]
  BY <1>4, <1>5 DEF w
<1>10. \A j \in 1 .. Len(body) : w[Len(head) + j] = body[j]
  BY <1>4, <1>5 DEF w
<1> QED BY <1>2, <1>4, <1>6, <1>8, <1>9, <1>10 DEF w, head, body

(* The wire of k + 1 boxes is the wire of k boxes and then the next box. *)
LEMMA AnyWireStep ==
  ASSUME NEW boxes, Sendable(boxes)
  PROVE  /\ WireOf(SubSeq(boxes, 1, 0)) = <<>>
         /\ \A k \in 0 .. Len(boxes) - 1 :
              WireOf(SubSeq(boxes, 1, k + 1))
                = WireOf(SubSeq(boxes, 1, k)) \o OnWire(boxes[k + 1])
         /\ \A k \in 0 .. Len(boxes) : WireOf(SubSeq(boxes, 1, k)) \in Seq(UnitsOf(boxes))
         /\ WireOf(SubSeq(boxes, 1, Len(boxes))) = WireOf(boxes)
<1> DEFINE B == boxes
           N == Len(B)
           M(k) == [i \in 1 .. k |-> OnWire(B[i])]
<1>1. IsSequence(B) /\ N \in Nat /\ B \in Seq(ToSet(B)) /\ DOMAIN B = 1 .. N
  BY SequenceIs DEF Sendable, IsSequence
<1>2. ASSUME NEW k \in 0 .. N PROVE WireOf(SubSeq(B, 1, k)) = FlattenSeq(M(k))
  <2>1. /\ DOMAIN SubSeq(B, 1, k) = 1 .. k
        /\ \A i \in 1 .. k : SubSeq(B, 1, k)[i] = B[i]
    BY <1>1
  <2>2. [i \in DOMAIN SubSeq(B, 1, k) |-> OnWire(SubSeq(B, 1, k)[i])] = M(k)
    BY <2>1
  <2> QED BY <2>2 DEF WireOf, OnWire
<1>3. \A k \in 0 .. N : M(k) \in Seq(Seq(UnitsOf(boxes)))
  BY <1>1, AnyOnWireIs
<1>4. \A k \in 0 .. N - 1 : M(k + 1) = Append(M(k), OnWire(B[k + 1]))
  BY <1>1, <1>3, AnyOnWireIs
<1>5. FlattenSeq(M(0)) = <<>>
  BY DEF FlattenSeq
<1> HIDE DEF M
<1> DEFINE S == {k \in Nat : k \in 0 .. N => FlattenSeq(M(k)) \in Seq(UnitsOf(boxes))}
<1>6. ASSUME NEW k \in 0 .. N - 1, FlattenSeq(M(k)) \in Seq(UnitsOf(boxes))
      PROVE  /\ FlattenSeq(M(k + 1)) = FlattenSeq(M(k)) \o OnWire(B[k + 1])
             /\ FlattenSeq(M(k + 1)) \in Seq(UnitsOf(boxes))
  <2>1. k \in 0 .. N /\ k + 1 \in 1 .. N
    BY <1>1
  <2>2. OnWire(B[k + 1]) \in Seq(UnitsOf(boxes)) /\ M(k) \in Seq(Seq(UnitsOf(boxes)))
    BY <1>3, <2>1, AnyOnWireIs
  <2> QED BY <1>4, <1>6, <2>2, FlattenAppend
<1>7. S = Nat
  <2>1. 0 \in S
    BY <1>5, EmptySeq
  <2>2. ASSUME NEW k \in S PROVE k + 1 \in S
    BY <1>1, <1>6
  <2> HIDE DEF S
  <2> QED BY <2>1, <2>2, SetInduction DEF S
<1>8. \A k \in 0 .. N : FlattenSeq(M(k)) \in Seq(UnitsOf(boxes))
  BY <1>7
<1>9. SubSeq(B, 1, N) = B
  BY <1>1, SubSeqFull
<1>10. N \in 0 .. N /\ 0 \in 0 .. N /\ \A k \in 0 .. N - 1 : k \in 0 .. N /\ k + 1 \in 0 .. N
  BY <1>1
<1> HIDE DEF N
<1>11. \A k \in 0 .. N - 1 :
         WireOf(SubSeq(B, 1, k + 1)) = WireOf(SubSeq(B, 1, k)) \o OnWire(B[k + 1])
  BY <1>2, <1>6, <1>8, <1>10
<1> QED BY <1>2, <1>5, <1>8, <1>9, <1>10, <1>11 DEF N

(* Each box ends its own length after the one before it. *)
LEMMA AnyEndsGrow ==
  ASSUME NEW boxes, Sendable(boxes)
  PROVE  /\ Len(boxes) \in Nat
         /\ EndIn(boxes, 0) = 0 /\ EndIn(boxes, Len(boxes)) = Len(WireOf(boxes))
         /\ \A k \in 0 .. Len(boxes) : EndIn(boxes, k) \in Nat
         /\ \A k \in 0 .. Len(boxes) - 1 :
              EndIn(boxes, k + 1) = EndIn(boxes, k) + Len(OnWire(boxes[k + 1]))
<1> DEFINE N == Len(boxes)
<1>1. N \in Nat
  BY SequenceIs DEF Sendable
<1>2. ASSUME NEW k \in 0 .. N PROVE EndIn(boxes, k) \in Nat
  BY AnyWireStep DEF EndIn
<1>3. ASSUME NEW k \in 0 .. N - 1
      PROVE  EndIn(boxes, k + 1) = EndIn(boxes, k) + Len(OnWire(boxes[k + 1]))
  <2>1. k \in 0 .. N /\ k + 1 \in 1 .. N
    BY <1>1
  <2>2. /\ OnWire(boxes[k + 1]) \in Seq(UnitsOf(boxes))
        /\ WireOf(SubSeq(boxes, 1, k)) \in Seq(UnitsOf(boxes))
    BY <2>1, AnyOnWireIs, AnyWireStep
  <2>3. WireOf(SubSeq(boxes, 1, k + 1))
          = WireOf(SubSeq(boxes, 1, k)) \o OnWire(boxes[k + 1])
    BY AnyWireStep
  <2> QED BY <2>2, <2>3, ConcatProperties DEF EndIn
<1>4. EndIn(boxes, 0) = 0 /\ EndIn(boxes, N) = Len(WireOf(boxes))
  BY AnyWireStep, EmptySeq DEF EndIn
<1> QED BY <1>1, <1>2, <1>3, <1>4

(* A later box ends later, by at least the two units of its header. *)
LEMMA AnyEndsOrdered ==
  ASSUME NEW boxes, Sendable(boxes), NEW j \in 0 .. Len(boxes), NEW k \in 0 .. Len(boxes),
         j < k
  PROVE  EndIn(boxes, j) + 2 <= EndIn(boxes, k)
<1> DEFINE N == Len(boxes)
           S == {m \in Nat : j + 1 + m <= N => EndIn(boxes, j) + 2 <= EndIn(boxes, j + 1 + m)}
<1>1. N \in Nat /\ \A i \in 0 .. N : EndIn(boxes, i) \in Nat
  BY AnyEndsGrow
<1>2. ASSUME NEW i \in 0 .. N - 1 PROVE EndIn(boxes, i) + 2 <= EndIn(boxes, i + 1)
  <2>1. i \in 0 .. N /\ i + 1 \in 1 .. N
    BY <1>1
  <2>2. /\ Len(OnWire(boxes[i + 1]))
             = HeadLen(boxes[i + 1]) + Len(boxes[i + 1].body)
        /\ Len(boxes[i + 1].body) \in Nat
    BY <2>1, AnyOnWireIs, AnyBoxIs, SequenceIs
  <2>3. HeadLen(boxes[i + 1]) \in {2, 3}
    BY DEF HeadLen
  <2>4. EndIn(boxes, i + 1) = EndIn(boxes, i) + Len(OnWire(boxes[i + 1]))
    BY AnyEndsGrow
  <2>5. EndIn(boxes, i) \in Nat /\ EndIn(boxes, i + 1) \in Nat
    BY <1>1, <2>1
  <2> DEFINE wire == Len(OnWire(boxes[i + 1]))
             head == HeadLen(boxes[i + 1])
             body == Len(boxes[i + 1].body)
  <2>6. /\ wire = head + body /\ body \in Nat /\ head \in {2, 3}
        /\ EndIn(boxes, i + 1) = EndIn(boxes, i) + wire
    BY <2>2, <2>3, <2>4
  <2> HIDE DEF N, S, wire, head, body
  <2>7. wire \in Nat /\ 2 <= wire
    BY <2>6
  <2> QED BY <2>5, <2>6, <2>7
<1>3. j + 1 \in 0 .. N /\ j \in 0 .. N - 1
  BY <1>1
<1>4. 0 \in S
  BY <1>2, <1>3
<1>5. ASSUME NEW m \in S PROVE m + 1 \in S
  <2> SUFFICES ASSUME j + 1 + (m + 1) <= N PROVE EndIn(boxes, j) + 2 <= EndIn(boxes, j + 1 + (m + 1))
    OBVIOUS
  <2> DEFINE i == j + 1 + m
  <2>1. i \in 0 .. N - 1 /\ i \in 0 .. N /\ i + 1 \in 0 .. N /\ i + 1 = j + 1 + (m + 1)
    BY <1>1
  <2>2. EndIn(boxes, j) + 2 <= EndIn(boxes, i)
    BY <2>1
  <2> HIDE DEF i
  <2>3. EndIn(boxes, i) + 2 <= EndIn(boxes, i + 1)
    BY <1>2, <2>1
  <2>4. EndIn(boxes, j) \in Nat /\ EndIn(boxes, i) \in Nat /\ EndIn(boxes, i + 1) \in Nat
    BY <1>1, <2>1
  <2> HIDE DEF N, S
  <2>5. EndIn(boxes, j) + 2 <= EndIn(boxes, i + 1)
    BY <2>2, <2>3, <2>4
  <2> QED BY <2>1, <2>5
<1> HIDE DEF S
<1>6. S = Nat
  BY <1>4, <1>5, SetInduction DEF S
<1>7. k - (j + 1) \in S /\ j + 1 + (k - (j + 1)) = k
  BY <1>1, <1>6
<1> QED BY <1>1, <1>7 DEF S

(* The k + 1st box is on the wire from where the k-th box ends, whatever    *)
(* follows it.                                                              *)
LEMMA AnyOnTheWire ==
  ASSUME NEW boxes, Sendable(boxes), NEW k \in 0 .. Len(boxes) - 1,
         NEW j \in 1 .. Len(OnWire(boxes[k + 1]))
  PROVE  WireOf(boxes)[EndIn(boxes, k) + j] = OnWire(boxes[k + 1])[j]
<1> DEFINE N == Len(boxes)
           W(m) == WireOf(SubSeq(boxes, 1, m))
           o == EndIn(boxes, k) + j
           S == {m \in Nat : k + 1 + m <= N => W(k + 1 + m)[o] = OnWire(boxes[k + 1])[j]}
<1>1. /\ N \in Nat /\ k \in 0 .. N /\ k + 1 \in 1 .. N
      /\ \A i \in 0 .. N : EndIn(boxes, i) \in Nat
      /\ EndIn(boxes, k + 1) = EndIn(boxes, k) + Len(OnWire(boxes[k + 1]))
  BY AnyEndsGrow
<1>2. OnWire(boxes[k + 1]) \in Seq(UnitsOf(boxes))
  BY <1>1, AnyOnWireIs
<1>3. Len(OnWire(boxes[k + 1])) \in Nat
  BY <1>2
<1>4. 0 \in S
  <2>1. W(k) \in Seq(UnitsOf(boxes)) /\ W(k + 1) = W(k) \o OnWire(boxes[k + 1])
    BY <1>1, AnyWireStep
  <2>2. Len(W(k)) = EndIn(boxes, k)
    BY DEF EndIn
  <2>3. EndIn(boxes, k) \in Nat
    BY <1>1
  <2> DEFINE T == UnitsOf(boxes)
             front == W(k)
             unit == OnWire(boxes[k + 1])
  <2> HIDE DEF W
  <2>4. W(k + 1)[o] = OnWire(boxes[k + 1])[j]
    <3>1. front \in Seq(T) /\ unit \in Seq(T) /\ j \in 1 .. Len(unit)
      BY <1>2, <2>1
    <3>2. Len(front) = EndIn(boxes, k) /\ Len(unit) \in Nat
      BY <1>3, <2>2
    <3>3. o \in 1 .. Len(front) + Len(unit) /\ o > Len(front) /\ o - Len(front) = j
      BY <2>3, <3>1, <3>2
    <3> HIDE DEF T, front, unit, o
    <3>4. (front \o unit)[o] = unit[j]
      BY <3>1, <3>3, ConcatProperties
    <3> QED BY <2>1, <3>4 DEF front, unit
  <2>5. k + 1 + 0 = k + 1
    OBVIOUS
  <2> QED BY <2>4, <2>5
<1>5. ASSUME NEW m \in S PROVE m + 1 \in S
  <2> SUFFICES ASSUME k + 1 + (m + 1) <= N
               PROVE  W(k + 1 + (m + 1))[o] = OnWire(boxes[k + 1])[j]
    OBVIOUS
  <2> DEFINE i == k + 1 + m
  <2>1. /\ i \in 0 .. N - 1 /\ i \in 0 .. N /\ i + 1 \in 1 .. N
        /\ i + 1 = k + 1 + (m + 1) /\ k + 1 \in 0 .. N
    BY <1>1
  <2>2. W(i)[o] = OnWire(boxes[k + 1])[j]
    BY <2>1
  <2>3. i = k + 1 \/ k + 1 < i
    BY <1>1
  <2> HIDE DEF i
  <2>4. EndIn(boxes, k + 1) <= EndIn(boxes, i)
    <3>1. EndIn(boxes, k + 1) \in Nat /\ EndIn(boxes, i) \in Nat
      BY <1>1, <2>1
    <3>2. CASE i = k + 1
      BY <3>1, <3>2
    <3>3. CASE k + 1 < i
      <4>1. EndIn(boxes, k + 1) + 2 <= EndIn(boxes, i)
        BY <2>1, <3>3, AnyEndsOrdered
      <4> HIDE DEF N, S, W, o
      <4> QED BY <3>1, <4>1
    <3> QED BY <2>3, <3>2, <3>3
  <2>5. W(i) \in Seq(UnitsOf(boxes)) /\ W(i + 1) = W(i) \o OnWire(boxes[i + 1])
    BY <2>1, AnyWireStep
  <2>6. OnWire(boxes[i + 1]) \in Seq(UnitsOf(boxes))
    BY <2>1, AnyOnWireIs
  <2>7. Len(W(i)) = EndIn(boxes, i)
    BY DEF EndIn
  <2>8. o \in 1 .. EndIn(boxes, i)
    <3>1. EndIn(boxes, i) \in Nat /\ EndIn(boxes, k) \in Nat /\ EndIn(boxes, k + 1) \in Nat
      BY <1>1, <2>1
    <3>2. EndIn(boxes, k + 1) = EndIn(boxes, k) + Len(OnWire(boxes[k + 1]))
      BY <1>1
    <3> QED BY <1>3, <2>4, <3>1, <3>2
  <2> HIDE DEF W, o
  <2>9. W(i + 1)[o] = W(i)[o]
    BY <2>5, <2>6, <2>7, <2>8, ConcatProperties
  <2> QED BY <2>1, <2>2, <2>9
<1> HIDE DEF S
<1>6. S = Nat
  BY <1>4, <1>5, SetInduction DEF S
<1>7. N - (k + 1) \in Nat /\ k + 1 + (N - (k + 1)) = N
  <2>1. N \in Nat /\ k \in Int /\ k + 1 <= N
    BY <1>1
  <2> HIDE DEF N
  <2> QED BY <2>1
<1>8. W(N)[o] = OnWire(boxes[k + 1])[j]
  <2>1. N - (k + 1) \in S
    BY <1>6, <1>7
  <2>2. N <= N
    BY <1>1
  <2> HIDE DEF N, W, o
  <2> QED BY <1>7, <2>1, <2>2 DEF S
<1> QED BY <1>8, AnyWireStep

(* What the next box has on the wire: its header, then its body. *)
LEMMA AnyHeadIs ==
  ASSUME NEW boxes, Sendable(boxes), NEW k \in 0 .. Len(boxes) - 1
  PROVE  LET box == boxes[k + 1] IN
         /\ HeadLen(box) \in {2, 3} /\ Len(box.body) \in Nat
         /\ EndIn(boxes, k + 1) = EndIn(boxes, k) + HeadLen(box) + Len(box.body)
         /\ \A j \in 1 .. HeadLen(box) : WireOf(boxes)[EndIn(boxes, k) + j] = Header(box)[j]
         /\ \A j \in 1 .. Len(box.body) : WireOf(boxes)[EndIn(boxes, k) + HeadLen(box) + j] = box.body[j]
<1> DEFINE box == boxes[k + 1]
           w == OnWire(box)
<1>1. k + 1 \in 1 .. Len(boxes) /\ k \in 0 .. Len(boxes)
  BY AnyEndsGrow
<1>2. HeadLen(box) \in {2, 3} /\ Len(box.body) \in Nat
  BY <1>1, AnyBoxIs, SequenceIs DEF HeadLen
<1>3. /\ Len(w) = HeadLen(box) + Len(box.body)
      /\ \A j \in 1 .. HeadLen(box) : w[j] = Header(box)[j]
      /\ \A j \in 1 .. Len(box.body) : w[HeadLen(box) + j] = box.body[j]
  BY <1>1, AnyOnWireIs
<1>4. EndIn(boxes, k) \in Nat /\ EndIn(boxes, k + 1) = EndIn(boxes, k) + Len(w)
  BY <1>1, AnyEndsGrow
<1>5. \A j \in 1 .. Len(w) : WireOf(boxes)[EndIn(boxes, k) + j] = w[j]
  BY AnyOnTheWire
<1> HIDE DEF w, box
<1>6. EndIn(boxes, k + 1) = EndIn(boxes, k) + HeadLen(box) + Len(box.body)
  BY <1>2, <1>3, <1>4
<1>7. \A j \in 1 .. HeadLen(box) : WireOf(boxes)[EndIn(boxes, k) + j] = Header(box)[j]
  BY <1>2, <1>3, <1>5
<1>8. ASSUME NEW j \in 1 .. Len(box.body)
      PROVE  WireOf(boxes)[EndIn(boxes, k) + HeadLen(box) + j] = box.body[j]
  <2> DEFINE h == HeadLen(box)
             e == EndIn(boxes, k)
             n == Len(box.body)
             l == Len(w)
  <2>1. h \in {2, 3} /\ e \in Nat /\ n \in Nat /\ l = h + n /\ j \in 1 .. n
    BY <1>2, <1>3, <1>4
  <2> HIDE DEF h, e, n, l
  <2>2. h + j \in 1 .. l /\ e + h + j = e + (h + j)
    BY <2>1
  <2>3. /\ HeadLen(box) + j \in 1 .. Len(w)
        /\ EndIn(boxes, k) + HeadLen(box) + j = EndIn(boxes, k) + (HeadLen(box) + j)
    BY <2>2 DEF h, e, l
  <2> QED BY <1>3, <1>5, <2>3
<1> QED BY <1>2, <1>6, <1>7, <1>8 DEF box

(* The wire is a finite sequence, and every box ends on it. *)
LEMMA AnyWireIs ==
  ASSUME NEW boxes, Sendable(boxes)
  PROVE  /\ Len(boxes) \in Nat /\ Len(WireOf(boxes)) \in Nat /\ WireOf(boxes) \in Seq(UnitsOf(boxes))
         /\ \A k \in 0 .. Len(boxes) : EndIn(boxes, k) \in 0 .. Len(WireOf(boxes))
<1> DEFINE N == Len(boxes)
<1>1. /\ N \in Nat /\ \A k \in 0 .. N : EndIn(boxes, k) \in Nat
      /\ EndIn(boxes, N) = Len(WireOf(boxes))
  BY AnyEndsGrow
<1>2. N \in 0 .. N /\ Len(WireOf(boxes)) \in Nat
  BY <1>1
<1>3. WireOf(boxes) \in Seq(UnitsOf(boxes))
  BY <1>2, AnyWireStep
<1>4. ASSUME NEW k \in 0 .. N PROVE EndIn(boxes, k) <= Len(WireOf(boxes))
  <2>1. CASE k = N
    BY <1>1, <2>1
  <2>2. CASE k # N
    <3>1. k < N
      BY <1>1, <2>2
    <3>2. EndIn(boxes, k) + 2 <= EndIn(boxes, N)
      BY <1>2, <3>1, AnyEndsOrdered
    <3> QED BY <1>1, <1>2, <3>2
  <2> QED BY <2>1, <2>2
<1> QED BY <1>1, <1>2, <1>3, <1>4

(* What is on the wire between a header and the end of its box is the body. *)
LEMMA AnyBodyIs ==
  ASSUME NEW boxes, Sendable(boxes), NEW k \in 0 .. Len(boxes) - 1
  PROVE  SubSeq(WireOf(boxes), EndIn(boxes, k) + HeadLen(boxes[k + 1]) + 1, EndIn(boxes, k + 1))
           = boxes[k + 1].body
<1> DEFINE box == boxes[k + 1]
           body == box.body
           n == Len(body)
           o == EndIn(boxes, k) + HeadLen(box)
           part == SubSeq(WireOf(boxes), o + 1, EndIn(boxes, k + 1))
<1>1. /\ HeadLen(box) \in {2, 3} /\ n \in Nat
      /\ EndIn(boxes, k + 1) = EndIn(boxes, k) + HeadLen(box) + n
      /\ \A j \in 1 .. n : WireOf(boxes)[EndIn(boxes, k) + HeadLen(box) + j] = body[j]
  BY AnyHeadIs
<1>2. /\ Len(boxes) \in Nat /\ k \in 0 .. Len(boxes)
      /\ k + 1 \in 0 .. Len(boxes) /\ k + 1 \in 1 .. Len(boxes)
  BY AnyWireIs
<1>3. /\ EndIn(boxes, k) \in Nat
      /\ EndIn(boxes, k + 1) \in 0 .. Len(WireOf(boxes))
      /\ WireOf(boxes) \in Seq(UnitsOf(boxes))
      /\ Len(WireOf(boxes)) \in Nat
  BY <1>2, AnyEndsGrow, AnyWireIs
<1>4. IsSequence(body)
  BY <1>2, AnyBoxIs
<1> HIDE DEF body, box
<1>5. o \in Nat /\ EndIn(boxes, k + 1) = o + n
  BY <1>1, <1>3
<1> HIDE DEF o, n
<1>6. \A i \in o + 1 .. EndIn(boxes, k + 1) : WireOf(boxes)[i] \in UnitsOf(boxes)
  BY <1>3, <1>5, <1>1
<1>7. /\ part \in Seq(UnitsOf(boxes)) /\ Len(part) = n
      /\ \A i \in 1 .. n : part[i] = WireOf(boxes)[o + i]
  <2>1. o + 1 \in Int /\ EndIn(boxes, k + 1) \in Int
    BY <1>5, <1>1
  <2>2. /\ part \in Seq(UnitsOf(boxes))
        /\ Len(part) = IF o + 1 <= EndIn(boxes, k + 1) THEN EndIn(boxes, k + 1) - (o + 1) + 1 ELSE 0
        /\ \A i \in 1 .. EndIn(boxes, k + 1) - (o + 1) + 1 : part[i] = WireOf(boxes)[o + 1 + i - 1]
    BY <1>6, <2>1, SubSeqProperties
  <2>3. EndIn(boxes, k + 1) - (o + 1) + 1 = n
    BY <1>1, <1>5
  <2> HIDE DEF part
  <2>4. Len(part) = n
    BY <1>1, <1>5, <2>2, <2>3
  <2>5. ASSUME NEW i \in 1 .. n PROVE part[i] = WireOf(boxes)[o + i]
    <3>1. o + 1 + i - 1 = o + i
      BY <1>5
    <3> QED BY <2>2, <2>3, <3>1
  <2> QED BY <2>2, <2>4, <2>5
<1>8. \A i \in 1 .. n : part[i] = body[i]
  BY <1>1, <1>7 DEF o
<1> HIDE DEF part
<1>9. part = body
  <2> DEFINE S == UnitsOf(boxes) \cup ToSet(body)
  <2>1. part \in Seq(S) /\ body \in Seq(S)
    BY <1>4, <1>7, SeqMonotonic DEF IsSequence
  <2> HIDE DEF S
  <2>2. Len(part) = Len(body)
    BY <1>7 DEF n
  <2> QED BY <1>7, <1>8, <2>1, <2>2, SeqEqual
<1> QED BY <1>9 DEF part, body, box, o

(* f is the positions that ListAtoms reads at, one box behind the other. *)
Positions(f, units, n) ==
  f = [k \in 0 .. n |-> IF k = 0 THEN 0 ELSE f[k - 1] + SizeAt(units, f[k - 1])]

(* Such positions exist, by induction over the numbers. *)
LEMMA PositionsExist ==
  ASSUME NEW n \in Nat, NEW units
  PROVE  \E f : Positions(f, units, n)
<1> DEFINE S == {m \in Nat : \E f : Positions(f, units, m)}
<1>1. 0 \in S
  <2>1. Positions([k \in 0 .. 0 |-> 0], units, 0)
    BY DEF Positions
  <2> QED BY <2>1
<1>2. ASSUME NEW m \in S PROVE m + 1 \in S
  <2>1. PICK g : Positions(g, units, m)
    OBVIOUS
  <2> DEFINE h == [k \in 0 .. m + 1 |-> IF k = m + 1 THEN g[m] + SizeAt(units, g[m]) ELSE g[k]]
  <2>2. m \in Nat
    OBVIOUS
  <2>3. \A k \in 0 .. m : h[k] = g[k]
    BY <2>2
  <2>4. \A k \in 0 .. m : g[k] = IF k = 0 THEN 0 ELSE g[k - 1] + SizeAt(units, g[k - 1])
    BY <2>1 DEF Positions
  <2>5. \A k \in 0 .. m + 1 : h[k] = IF k = 0 THEN 0 ELSE h[k - 1] + SizeAt(units, h[k - 1])
    <3> TAKE k \in 0 .. m + 1
    <3>1. CASE k = m + 1
      <4>1. k - 1 \in 0 .. m /\ k - 1 = m /\ k # 0
        BY <2>2, <3>1
      <4> QED BY <2>3, <3>1, <4>1
    <3>2. CASE k # m + 1
      <4>1. k \in 0 .. m /\ (k # 0 => k - 1 \in 0 .. m)
        BY <2>2, <3>2
      <4> QED BY <2>3, <2>4, <4>1
    <3> QED BY <3>1, <3>2
  <2>6. h = [k \in 0 .. m + 1 |-> h[k]]
    OBVIOUS
  <2> HIDE DEF h
  <2>7. Positions(h, units, m + 1)
    BY <2>5, <2>6 DEF Positions
  <2> QED BY <2>2, <2>7
<1> HIDE DEF S
<1>3. S = Nat
  BY <1>1, <1>2, SetInduction DEF S
<1> QED BY <1>3 DEF S

(* Where a box begins read_atom_at reads that box. *)
LEMMA AtomIs ==
  ASSUME NEW boxes, Sendable(boxes), NEW k \in 0 .. Len(boxes) - 1, boxes[k + 1].form # "toEnd"
  PROVE  LET units == WireOf(boxes)
             pos   == EndIn(boxes, k)
         IN  /\ HasAtom(units, pos) /\ pos + SizeAt(units, pos) = EndIn(boxes, k + 1)
             /\ AtomAt(units, pos) = [type |-> boxes[k + 1].type, form |-> "normal",
                                      body |-> boxes[k + 1].body]
<1> DEFINE units == WireOf(boxes)
           pos   == EndIn(boxes, k)
           end   == EndIn(boxes, k + 1)
           box   == boxes[k + 1]
           head  == HeadLen(box)
           n     == Len(box.body)
           l     == Len(units)
<1>1. /\ head \in {2, 3} /\ n \in Nat /\ end = pos + head + n
      /\ \A j \in 1 .. head : units[pos + j] = Header(box)[j]
  <2>1. /\ HeadLen(box) \in {2, 3} /\ Len(box.body) \in Nat
        /\ EndIn(boxes, k + 1) = EndIn(boxes, k) + HeadLen(box) + Len(box.body)
        /\ \A j \in 1 .. HeadLen(box) : WireOf(boxes)[EndIn(boxes, k) + j] = Header(box)[j]
    BY AnyHeadIs
  <2> HIDE DEF box
  <2> QED BY ONLY <2>1 DEF head, n, end, pos, units
<1>2. pos \in Nat /\ end \in 0 .. l /\ l \in Nat
  <2>1. Len(boxes) \in Nat
    BY AnyEndsGrow
  <2>2. k \in 0 .. Len(boxes) /\ k + 1 \in 0 .. Len(boxes)
    BY <2>1
  <2> QED BY <2>2, AnyWireIs
<1>3. box.form \in {"normal", "extended"}
  <2>1. k + 1 \in 1 .. Len(boxes)
    BY AnyEndsGrow
  <2> QED BY <2>1, AnyBoxIs
<1>4. SubSeq(units, pos + head + 1, end) = box.body
  BY AnyBodyIs
<1> HIDE DEF units, pos, end, box, n, l
<1>5. /\ HeadAt(units, pos) = head /\ SizeAt(units, pos) = head + n
      /\ units[pos + 2].t = box.type
  <2>1. CASE box.form = "normal"
    <3>1. head = 2
      BY <2>1 DEF HeadLen
    <3>2. Header(box) = <<SizeUnit(n + 2), TypeUnit(box.type)>>
      BY <2>1 DEF Header, n
    <3>3. units[pos + 1] = SizeUnit(n + 2) /\ units[pos + 2] = TypeUnit(box.type)
      BY <1>1, <3>1, <3>2
    <3>4. units[pos + 1].n = n + 2 /\ units[pos + 2].t = box.type
      BY <3>3 DEF SizeUnit, TypeUnit
    <3>5. n + 2 # 1 /\ n + 2 # 0 /\ n + 2 = 2 + n
      BY <1>1
    <3> QED BY <3>1, <3>4, <3>5 DEF HeadAt, SizeAt
  <2>2. CASE box.form = "extended"
    <3>1. head = 3
      BY <2>2 DEF HeadLen
    <3>2. Header(box) = <<SizeUnit(1), TypeUnit(box.type), SizeUnit(n + 3)>>
      BY <2>2 DEF Header, n
    <3>3. /\ units[pos + 1] = SizeUnit(1) /\ units[pos + 2] = TypeUnit(box.type)
          /\ units[pos + 3] = SizeUnit(n + 3)
      BY <1>1, <3>1, <3>2
    <3>4. units[pos + 1].n = 1 /\ units[pos + 2].t = box.type /\ units[pos + 3].n = n + 3
      BY <3>3 DEF SizeUnit, TypeUnit
    <3>5. n + 3 = 3 + n
      BY <1>1
    <3> QED BY <3>1, <3>4, <3>5 DEF HeadAt, SizeAt
  <2> QED BY <1>3, <2>1, <2>2
<1> HIDE DEF head
<1>6. pos + SizeAt(units, pos) = end
  BY <1>1, <1>2, <1>5
<1>7. HasAtom(units, pos)
  <2>1. /\ pos + 2 <= l /\ pos + head <= l
        /\ head <= head + n /\ pos + (head + n) <= l
    BY <1>1, <1>2
  <2> QED BY <1>5, <2>1 DEF HasAtom, l
<1>8. AtomAt(units, pos) = [type |-> box.type, form |-> "normal", body |-> box.body]
  BY <1>4, <1>5, <1>6 DEF AtomAt
<1> QED BY <1>6, <1>7, <1>8 DEF units, pos, end, box

(* What is read of boxes that were sent, whatever their headers. *)
Read(boxes) == [i \in 1 .. Len(boxes) |-> [type |-> boxes[i].type, form |-> "normal",
                                           body |-> boxes[i].body]]

(* list_atoms reads the boxes that were sent. *)
LEMMA ListAtomsIs ==
  ASSUME NEW boxes, Sendable(boxes), \A i \in DOMAIN boxes : boxes[i].form # "toEnd"
  PROVE  ListAtoms(WireOf(boxes)) = Read(boxes)
<1> DEFINE units == WireOf(boxes)
           N == Len(boxes)
           l == Len(units)
           end(k) == EndIn(boxes, k)
           f == CHOOSE f : Positions(f, units, l)
           read == {k \in DOMAIN f : \A j \in 0 .. k : HasAtom(units, f[j])}
<1>1. /\ N \in Nat /\ DOMAIN boxes = 1 .. N /\ l \in Nat /\ end(0) = 0 /\ end(N) = l
      /\ \A k \in 0 .. N : end(k) \in 0 .. l
  BY AnyEndsGrow, AnyWireIs, SequenceIs DEF Sendable
<1>2. Positions(f, units, l)
  BY <1>1, PositionsExist
<1>3. ListAtoms(units) = [k \in 1 .. Cardinality(read) |-> AtomAt(units, f[k - 1])]
  BY DEF ListAtoms, Positions
<1>4. /\ DOMAIN f = 0 .. l /\ f[0] = 0
      /\ \A k \in 1 .. l : f[k] = f[k - 1] + SizeAt(units, f[k - 1])
  <2>1. DOMAIN f = 0 .. l /\ \A k \in 0 .. l : f[k] = IF k = 0 THEN 0 ELSE f[k - 1] + SizeAt(units, f[k - 1])
    BY <1>2 DEF Positions
  <2> HIDE DEF f, l, units
  <2>2. 0 \in 0 .. l /\ \A k \in 1 .. l : k \in 0 .. l /\ k # 0
    BY <1>1
  <2> QED BY <2>1, <2>2
<1>5. ASSUME NEW k \in 0 .. N - 1
      PROVE  /\ HasAtom(units, end(k)) /\ end(k) + SizeAt(units, end(k)) = end(k + 1)
             /\ AtomAt(units, end(k)) = [type |-> boxes[k + 1].type, form |-> "normal",
                                         body |-> boxes[k + 1].body]
  <2>1. k + 1 \in DOMAIN boxes
    BY <1>1
  <2> QED BY <2>1, AtomIs
<1> HIDE DEF f
<1>6. ASSUME NEW k \in 0 .. N - 1 PROVE end(k) + 2 <= end(k + 1)
  <2>1. k \in 0 .. Len(boxes) /\ k + 1 \in 0 .. Len(boxes) /\ k < k + 1
    BY <1>1
  <2> QED BY <2>1, AnyEndsOrdered
<1> DEFINE S == {k \in Nat : k \in 0 .. N => k <= end(k) /\ f[k] = end(k)}
<1>7. S = Nat
  <2>1. 0 \in S
    BY <1>1, <1>4
  <2>2. ASSUME NEW k \in S PROVE k + 1 \in S
    <3> SUFFICES ASSUME k + 1 \in 0 .. N PROVE k + 1 <= end(k + 1) /\ f[k + 1] = end(k + 1)
      OBVIOUS
    <3>1. k \in 0 .. N - 1 /\ k \in 0 .. N /\ k \in Nat
      BY <1>1
    <3>2. k <= end(k) /\ f[k] = end(k)
      BY <3>1
    <3>3. /\ end(k) + 2 <= end(k + 1) /\ end(k) + SizeAt(units, end(k)) = end(k + 1)
          /\ end(k) \in 0 .. l /\ end(k + 1) \in 0 .. l
      BY <1>1, <1>5, <1>6, <3>1
    <3> HIDE DEF end, l, units, N
    <3>4. k + 1 <= end(k + 1)
      BY <3>1, <3>2, <3>3
    <3>5. k + 1 \in 1 .. l /\ (k + 1) - 1 = k
      BY <1>1, <3>1, <3>3, <3>4
    <3>6. f[k + 1] = f[(k + 1) - 1] + SizeAt(units, f[(k + 1) - 1])
      BY <1>4, <3>5
    <3>7. f[k + 1] = f[k] + SizeAt(units, f[k])
      BY <3>5, <3>6
    <3> QED BY <3>2, <3>3, <3>4, <3>7
  <2> HIDE DEF S
  <2> QED BY <2>1, <2>2, SetInduction DEF S
<1>8. \A k \in 0 .. N : k <= end(k) /\ f[k] = end(k)
  <2> HIDE DEF end
  <2> QED BY <1>1, <1>7
<1>9. N <= l
  BY <1>1, <1>8
<1>10. ~HasAtom(units, end(N))
  <2> HIDE DEF units, end
  <2>1. ~(end(N) + 2 <= l)
    BY <1>1
  <2> QED BY <2>1 DEF HasAtom, l
<1>11. read = 0 .. N - 1
  <2>1. ASSUME NEW k \in 0 .. N - 1 PROVE k \in read
    <3>1. k \in 0 .. l
      BY <1>1, <1>9
    <3>2. ASSUME NEW j \in 0 .. k PROVE HasAtom(units, f[j])
      <4>1. j \in 0 .. N - 1 /\ j \in 0 .. N
        BY <1>1
      <4> HIDE DEF units, end
      <4> QED BY <1>5, <1>8, <4>1
    <3> QED BY <1>4, <3>1, <3>2
  <2>2. ASSUME NEW k \in read PROVE k \in 0 .. N - 1
    <3>1. k \in 0 .. l /\ \A j \in 0 .. k : HasAtom(units, f[j])
      BY <1>4
    <3>2. N \in 0 .. N
      BY <1>1
    <3>3. ~HasAtom(units, f[N])
      <4> HIDE DEF units, end
      <4> QED BY <1>8, <1>10, <3>2
    <3>4. N \notin 0 .. k
      BY <3>1, <3>3
    <3> HIDE DEF read, N, l
    <3> QED BY <1>1, <3>1, <3>4
  <2> HIDE DEF read
  <2> QED BY <2>1, <2>2
<1> HIDE DEF read
<1>12. Cardinality(read) = N
  <2>1. Cardinality(0 .. N - 1) = N
    <3> HIDE DEF N
    <3>1. 0 \in Int /\ N - 1 \in Int /\ Cardinality(0 .. N - 1) = IF 0 > N - 1 THEN 0 ELSE N - 1 - 0 + 1
      BY <1>1, FS_Interval
    <3> QED BY <1>1, <3>1
  <2> QED BY <1>11, <2>1
<1>13. ASSUME NEW k \in 1 .. N
       PROVE  AtomAt(units, f[k - 1]) = [type |-> boxes[k].type, form |-> "normal",
                                         body |-> boxes[k].body]
  <2>1. k - 1 \in 0 .. N - 1 /\ k - 1 \in 0 .. N /\ (k - 1) + 1 = k
    BY <1>1
  <2>2. f[k - 1] = end(k - 1)
    BY <1>8, <2>1
  <2>3. AtomAt(units, end(k - 1)) = [type |-> boxes[(k - 1) + 1].type, form |-> "normal",
                                     body |-> boxes[(k - 1) + 1].body]
    BY <1>5, <2>1
  <2> QED BY <2>1, <2>2, <2>3
<1> HIDE DEF units
<1>14. [k \in 1 .. N |-> AtomAt(units, f[k - 1])] = Read(boxes)
  BY <1>13 DEF Read
<1> QED BY <1>3, <1>12, <1>14 DEF units

-----------------------------------------------------------------------------
(* The wire of a segment *)

(* Where the k-th box ends on the wire. *)
EndOf(k) == Len(WireOf(SubSeq(segment.boxes, 1, k)))

(* The units the boxes of the segment are sent as. *)
Units == UNION {ToSet(OnWire(segment.boxes[i])) : i \in DOMAIN segment.boxes}

(* A box of a segment, by CencAssumption. *)
LEMMA BoxIs ==
  ASSUME segment \in Segment, NEW i \in 1 .. Len(segment.boxes)
  PROVE  LET box == segment.boxes[i] IN
         /\ box = [type |-> box.type, form |-> box.form, body |-> box.body]
         /\ IsSequence(box.body)
         /\ box.form \in {"normal", "extended"} \/ (box.form = "toEnd" /\ i = Len(segment.boxes))
         /\ None \notin [type : {box.type}, start : Nat, remaining : Nat]
BY CencAssumption, SequenceIs DEF IsBox

(* The boxes of a segment can be sent. *)
LEMMA SegmentIs ==
  ASSUME segment \in Segment
  PROVE  /\ Sendable(segment.boxes)
         /\ Wire = WireOf(segment.boxes) /\ Units = UnitsOf(segment.boxes)
         /\ \A k : EndOf(k) = EndIn(segment.boxes, k)
<1>1. IsSequence(segment.boxes) /\ \A i \in DOMAIN segment.boxes :
        IsBox(segment.boxes[i]) /\ segment.boxes[i].form \in {"normal", "extended", "toEnd"}
  BY CencAssumption
<1> QED BY <1>1 DEF Sendable, Wire, Units, UnitsOf, EndOf, EndIn

(* A box is sent as its header and then its body. *)
LEMMA OnWireIs ==
  ASSUME segment \in Segment, NEW i \in 1 .. Len(segment.boxes)
  PROVE  LET box == segment.boxes[i] IN
         /\ OnWire(box) \in Seq(Units)
         /\ Len(OnWire(box)) = HeadLen(box) + Len(box.body)
         /\ \A j \in 1 .. HeadLen(box) : OnWire(box)[j] = Header(box)[j]
         /\ \A j \in 1 .. Len(box.body) : OnWire(box)[HeadLen(box) + j] = box.body[j]
BY SegmentIs, AnyOnWireIs

(* The wire of k + 1 boxes is the wire of k boxes and then the next box. *)
LEMMA WireStep ==
  ASSUME segment \in Segment
  PROVE  /\ WireOf(SubSeq(segment.boxes, 1, 0)) = <<>>
         /\ \A k \in 0 .. Len(segment.boxes) - 1 :
              WireOf(SubSeq(segment.boxes, 1, k + 1))
                = WireOf(SubSeq(segment.boxes, 1, k)) \o OnWire(segment.boxes[k + 1])
         /\ \A k \in 0 .. Len(segment.boxes) : WireOf(SubSeq(segment.boxes, 1, k)) \in Seq(Units)
         /\ WireOf(SubSeq(segment.boxes, 1, Len(segment.boxes))) = Wire
BY SegmentIs, AnyWireStep

(* Each box ends its own length after the one before it. *)
LEMMA EndsGrow ==
  ASSUME segment \in Segment
  PROVE  /\ Len(segment.boxes) \in Nat
         /\ EndOf(0) = 0 /\ EndOf(Len(segment.boxes)) = Len(Wire)
         /\ \A k \in 0 .. Len(segment.boxes) : EndOf(k) \in Nat
         /\ \A k \in 0 .. Len(segment.boxes) - 1 :
              EndOf(k + 1) = EndOf(k) + Len(OnWire(segment.boxes[k + 1]))
BY SegmentIs, AnyEndsGrow

(* A later box ends later, by at least the two units of its header. *)
LEMMA EndsOrdered ==
  ASSUME segment \in Segment, NEW j \in 0 .. Len(segment.boxes), NEW k \in 0 .. Len(segment.boxes),
         j < k
  PROVE  EndOf(j) + 2 <= EndOf(k)
BY SegmentIs, AnyEndsOrdered

(* The k + 1st box is on the wire from where the k-th box ends, whatever    *)
(* follows it.                                                              *)
LEMMA OnTheWire ==
  ASSUME segment \in Segment, NEW k \in 0 .. Len(segment.boxes) - 1,
         NEW j \in 1 .. Len(OnWire(segment.boxes[k + 1]))
  PROVE  Wire[EndOf(k) + j] = OnWire(segment.boxes[k + 1])[j]
BY SegmentIs, AnyOnTheWire

(* What the next box has on the wire: its header, then its body. *)
LEMMA HeadIs ==
  ASSUME segment \in Segment, NEW k \in 0 .. Len(segment.boxes) - 1
  PROVE  LET box == segment.boxes[k + 1] IN
         /\ HeadLen(box) \in {2, 3} /\ Len(box.body) \in Nat
         /\ EndOf(k + 1) = EndOf(k) + HeadLen(box) + Len(box.body)
         /\ \A j \in 1 .. HeadLen(box) : Wire[EndOf(k) + j] = Header(box)[j]
         /\ \A j \in 1 .. Len(box.body) : Wire[EndOf(k) + HeadLen(box) + j] = box.body[j]
BY SegmentIs, AnyHeadIs

(* The wire is a finite sequence, and every box ends on it. *)
LEMMA WireIs ==
  ASSUME segment \in Segment
  PROVE  /\ Len(segment.boxes) \in Nat /\ Len(Wire) \in Nat /\ Wire \in Seq(Units)
         /\ \A k \in 0 .. Len(segment.boxes) : EndOf(k) \in 0 .. Len(Wire)
BY SegmentIs, AnyWireIs

(* What is on the wire between a header and the end of its box is the body. *)
LEMMA BodyIs ==
  ASSUME segment \in Segment, NEW k \in 0 .. Len(segment.boxes) - 1
  PROVE  SubSeq(Wire, EndOf(k) + HeadLen(segment.boxes[k + 1]) + 1, EndOf(k + 1))
           = segment.boxes[k + 1].body
BY SegmentIs, AnyBodyIs

-----------------------------------------------------------------------------
(* What the reader has done *)

(* The same boxes, but for the form of their headers. *)
SameBoxes(s, t) ==
  /\ DOMAIN s = DOMAIN t
  /\ \A i \in DOMAIN s : s[i].type = t[i].type /\ s[i].body = t[i].body

(* k boxes have been taken and processed one after the other. *)
Processed(k) ==
  /\ k \in 0 .. Len(segment.boxes)
  /\ \A i \in 1 .. k : segment.boxes[i].form # "toEnd"
  /\ dec = Boxwise(segment, k).dec
  /\ IsSequence(out) /\ IsSequence(Boxwise(segment, k).boxes)
  /\ SameBoxes(out, Boxwise(segment, k).boxes)

(* The reader is between two boxes, or in the next one. *)
Reading(k) ==
  /\ taken \in 0 .. received
  /\ cur = None => taken = EndOf(k)
  /\ cur # None =>
       /\ k < Len(segment.boxes)
       /\ segment.boxes[k + 1].form # "toEnd"
       /\ cur \in [type : {segment.boxes[k + 1].type}, start : Nat, remaining : Nat]
       /\ cur.start = EndOf(k) + HeadLen(segment.boxes[k + 1])
       /\ cur.start <= taken
       /\ taken + cur.remaining = EndOf(k + 1)

(* All that has arrived after k boxes is less than a box. *)
Waiting(k) ==
  k < Len(segment.boxes) => received < EndOf(k + 1)

(* The rest of the segment is passed on as it arrives. *)
Passing(k) ==
  /\ Len(segment.boxes) = k + 1
  /\ segment.boxes[k + 1].form = "toEnd"
  /\ EndOf(k) < received
  /\ rest = SubSeq(Wire, EndOf(k) + 1, received)

(* The invariant of the reader: whatever the chunks were, some number k of  *)
(* boxes is processed; the reader is between them and the next or in that   *)
(* one, has asked for more only when the next box is not complete, or passes *)
(* on a box that reaches to the end.                                        *)
CencInv ==
  /\ segment \in Segment
  /\ received \in 0 .. Len(Wire)
  /\ cencPc = "start" => received = 0 /\ taken = 0 /\ cur = None
  /\ cencPc \in {"parse", "read"} =>
       \E k \in 0 .. Len(segment.boxes) :
         Processed(k) /\ Reading(k) /\ (cencPc = "read" => Waiting(k))
  /\ cencPc = "tail" =>
       \E k \in 0 .. Len(segment.boxes) : Processed(k) /\ Passing(k)

(* g is the processing of the first n boxes of a request, as Boxwise defines *)
(* it.                                                                      *)
Runs(g, request, n) ==
  g = [i \in 0 .. n |-> IF i = 0 THEN Primed(request) ELSE AddBox(g[i - 1], request.boxes[i])]

(* The boxes of a request can be processed one after the other. *)
LEMMA RunsExist ==
  ASSUME NEW request, NEW n \in Nat
  PROVE  \E g : Runs(g, request, n)
<1> DEFINE S == {m \in Nat : \E g : Runs(g, request, m)}
<1>1. 0 \in S
  <2>1. Runs([i \in 0 .. 0 |-> Primed(request)], request, 0)
    BY DEF Runs
  <2> QED BY <2>1
<1>2. ASSUME NEW m \in S PROVE m + 1 \in S
  <2>1. PICK g : Runs(g, request, m)
    OBVIOUS
  <2> DEFINE h == [i \in 0 .. m + 1 |-> IF i = m + 1 THEN AddBox(g[m], request.boxes[i])
                                        ELSE g[i]]
  <2>2. m \in Nat
    OBVIOUS
  <2>3. \A i \in 0 .. m : h[i] = g[i]
    BY <2>2
  <2>4. \A i \in 0 .. m : g[i] = IF i = 0 THEN Primed(request) ELSE AddBox(g[i - 1], request.boxes[i])
    BY <2>1 DEF Runs
  <2>5. \A i \in 0 .. m + 1 :
          h[i] = IF i = 0 THEN Primed(request) ELSE AddBox(h[i - 1], request.boxes[i])
    <3> TAKE i \in 0 .. m + 1
    <3>1. CASE i = m + 1
      <4>1. i # 0 /\ i - 1 = m /\ h[m] = g[m]
        BY <2>2, <2>3, <3>1
      <4> QED BY <3>1, <4>1
    <3>2. CASE i # m + 1
      <4>1. i \in 0 .. m /\ (i # 0 => i - 1 \in 0 .. m)
        BY <2>2, <3>2
      <4> QED BY <2>3, <2>4, <4>1
    <3> QED BY <3>1, <3>2
  <2>6. h = [i \in 0 .. m + 1 |-> h[i]]
    OBVIOUS
  <2> HIDE DEF h
  <2>7. Runs(h, request, m + 1)
    BY <2>5, <2>6 DEF Runs
  <2> QED BY <2>2, <2>7
<1> HIDE DEF S
<1>3. S = Nat
  BY <1>1, <1>2, SetInduction DEF S
<1> QED BY <1>3 DEF S

(* Boxwise, which chooses a function by its recursive equation, adds box    *)
(* after box to the primed decrypter.                                       *)
LEMMA BoxwiseStep ==
  ASSUME NEW request, Len(request.boxes) \in Nat
  PROVE  /\ Boxwise(request, 0) = Primed(request)
         /\ \A k \in 0 .. Len(request.boxes) - 1 :
              Boxwise(request, k + 1) = AddBox(Boxwise(request, k), request.boxes[k + 1])
<1> DEFINE n == Len(request.boxes)
           f == CHOOSE g : Runs(g, request, n)
<1>1. Runs(f, request, n)
  BY RunsExist
<1>2. ASSUME NEW k PROVE Boxwise(request, k) = f[k]
  BY DEF Boxwise, Runs
<1> HIDE DEF f
<1>3. f[0] = Primed(request)
  BY <1>1 DEF Runs
<1>4. ASSUME NEW k \in 0 .. n - 1 PROVE f[k + 1] = AddBox(f[k], request.boxes[k + 1])
  <2>1. k + 1 \in 0 .. n /\ k + 1 # 0 /\ (k + 1) - 1 = k
    OBVIOUS
  <2>2. \A i \in 0 .. n : f[i] = IF i = 0 THEN Primed(request) ELSE AddBox(f[i - 1], request.boxes[i])
    BY <1>1 DEF Runs
  <2> HIDE DEF n
  <2>3. f[k + 1] = AddBox(f[(k + 1) - 1], request.boxes[k + 1])
    BY <2>1, <2>2
  <2> QED BY <2>1, <2>3
<1> QED BY <1>2, <1>3, <1>4

(* Boxes that differ in form only still do when one is yielded after them. *)
LEMMA AppendSame ==
  ASSUME NEW s, NEW t, IsSequence(s), IsSequence(t), SameBoxes(s, t),
         NEW x, NEW y, x.type = y.type, x.body = y.body
  PROVE  /\ IsSequence(Append(s, x)) /\ IsSequence(Append(t, y))
         /\ SameBoxes(Append(s, x), Append(t, y))
<1> DEFINE S == ToSet(s) \cup ToSet(t) \cup {x, y}
<1>1. s \in Seq(S) /\ t \in Seq(S) /\ x \in S /\ y \in S
  BY SeqMonotonic DEF IsSequence
<1>2. Len(s) = Len(t) /\ Len(s) \in Nat
  BY SequenceIs DEF SameBoxes
<1> HIDE DEF S
<1>3. /\ Append(s, x) \in Seq(S) /\ Append(t, y) \in Seq(S)
      /\ Len(Append(s, x)) = Len(s) + 1 /\ Len(Append(t, y)) = Len(s) + 1
      /\ \A i \in 1 .. Len(s) : Append(s, x)[i] = s[i] /\ Append(t, y)[i] = t[i]
      /\ Append(s, x)[Len(s) + 1] = x /\ Append(t, y)[Len(s) + 1] = y
  BY <1>1, <1>2, AppendProperties
<1>4. IsSequence(Append(s, x)) /\ IsSequence(Append(t, y))
  BY <1>3, SeqIsSequence
<1>5. DOMAIN Append(s, x) = 1 .. Len(s) + 1 /\ DOMAIN Append(t, y) = 1 .. Len(s) + 1
  BY <1>3, <1>4, SequenceIs
<1>6. ASSUME NEW i \in 1 .. Len(s) + 1
      PROVE  Append(s, x)[i].type = Append(t, y)[i].type /\ Append(s, x)[i].body = Append(t, y)[i].body
  <2>1. CASE i = Len(s) + 1
    BY <1>3, <2>1
  <2>2. CASE i # Len(s) + 1
    <3>1. i \in 1 .. Len(s) /\ i \in DOMAIN s
      BY <1>2, <2>2, SequenceIs
    <3> QED BY <1>3, <3>1 DEF SameBoxes
  <2> QED BY <2>1, <2>2
<1> QED BY <1>4, <1>5, <1>6 DEF SameBoxes

(* Boxes that differ in form only are sent alike. *)
LEMMA PackSame ==
  ASSUME NEW s, NEW t, SameBoxes(s, t)
  PROVE  PackAll(s) = PackAll(t)
<1>1. [i \in DOMAIN s |-> Pack(s[i])] = [i \in DOMAIN t |-> Pack(t[i])]
  BY DEF SameBoxes, Pack
<1> QED BY <1>1 DEF PackAll

(* The form of a box does not matter to the decrypter. *)
LEMMA ProcessSame ==
  ASSUME NEW d, NEW b, NEW c, b.type = c.type, b.body = c.body,
         b = [type |-> b.type, form |-> b.form, body |-> b.body],
         c = [type |-> c.type, form |-> c.form, body |-> c.body]
  PROVE  /\ ProcessBox(d, b).dec = ProcessBox(d, c).dec
         /\ ProcessBox(d, b).box.type = ProcessBox(d, c).box.type
         /\ ProcessBox(d, b).box.body = ProcessBox(d, c).box.body
<1>1. CASE b.type = "moof"
  BY <1>1 DEF ProcessBox, ProcessAtom, ProcessMoof
<1>2. CASE b.type = "mdat"
  BY <1>2 DEF ProcessBox, ProcessAtom, DecryptMdat
<1>3. CASE b.type \notin {"moof", "mdat"}
  BY <1>3 DEF ProcessBox
<1> QED BY <1>1, <1>2, <1>3

(* Between the end of the k-th box and that of the next, k have arrived. *)
LEMMA ArrivedIs ==
  ASSUME segment \in Segment, NEW k \in 0 .. Len(segment.boxes), NEW n \in Nat,
         \A i \in 1 .. k : segment.boxes[i].form # "toEnd",
         EndOf(k) <= n,
         k < Len(segment.boxes) => segment.boxes[k + 1].form = "toEnd" \/ n < EndOf(k + 1)
  PROVE  Within(n) = 1 .. k /\ Arrived(n) = k
<1> DEFINE N == Len(segment.boxes)
<1>1. N \in Nat /\ (\A i \in 0 .. N : EndOf(i) \in Nat) /\ DOMAIN segment.boxes = 1 .. N
  BY EndsGrow, CencAssumption, SequenceIs
<1>2. Within(n) = {i \in 1 .. N : segment.boxes[i].form # "toEnd" /\ EndOf(i) <= n}
  BY <1>1 DEF Within, EndOf
<1>3. ASSUME NEW i \in 1 .. N, i <= k PROVE EndOf(i) <= n /\ segment.boxes[i].form # "toEnd"
  <2>1. i \in 0 .. N /\ i \in 1 .. k
    BY <1>3
  <2>2. EndOf(i) <= EndOf(k)
    BY <1>1, <1>3, <2>1, EndsOrdered
  <2> QED BY <1>1, <2>1, <2>2
<1>4. ASSUME NEW i \in 1 .. N, k < i, EndOf(i) <= n PROVE segment.boxes[i].form = "toEnd"
  <2>1. k + 1 \in 1 .. N /\ k + 1 \in 0 .. N /\ i \in 0 .. N
    BY <1>1, <1>4
  <2>2. CASE i = k + 1
    <3>1. ~(n < EndOf(k + 1))
      BY <1>1, <1>4, <2>1, <2>2
    <3> QED BY <1>4, <2>2, <3>1
  <2>3. CASE k + 1 < i
    <3>1. EndOf(k + 1) < n
      BY <1>1, <1>4, <2>1, <2>3, EndsOrdered
    <3>2. segment.boxes[k + 1].form = "toEnd"
      BY <1>1, <1>4, <2>1, <3>1
    <3>3. k + 1 = N
      BY <2>1, <3>2, BoxIs
    <3> QED BY <2>3, <3>3
  <2> QED BY <1>4, <2>2, <2>3
<1>5. Within(n) = 1 .. k
  <2>1. \A i \in 1 .. k : i \in 1 .. N /\ i <= k
    BY <1>1
  <2>2. \A i \in 1 .. N : i <= k \/ k < i
    OBVIOUS
  <2>3. \A i \in 1 .. N : i <= k => i \in 1 .. k
    OBVIOUS
  <2> HIDE DEF N
  <2> QED BY <1>2, <1>3, <1>4, <2>1, <2>2, <2>3
<1>6. Cardinality(1 .. k) = k
  BY FS_Interval
<1> QED BY <1>5, <1>6 DEF Arrived


(* The reader is behind the k-th box and not yet behind the next one. *)
LEMMA ReadingIs ==
  ASSUME CencInv, NEW k, Processed(k), Reading(k)
  PROVE  /\ Behind \in Nat /\ EndOf(k) <= Behind /\ Behind <= received
         /\ k < Len(segment.boxes) => Behind < EndOf(k + 1)
<1>1. segment \in Segment /\ k \in 0 .. Len(segment.boxes) /\ EndOf(k) \in Nat
      /\ Len(segment.boxes) \in Nat /\ received \in Nat
  BY EndsGrow DEF CencInv, Processed
<1>2. CASE cur = None
  <2>1. Behind = EndOf(k) /\ Behind <= received
    BY <1>1, <1>2 DEF Behind, Reading
  <2>2. k < Len(segment.boxes) => EndOf(k) + 2 <= EndOf(k + 1)
    BY <1>1, EndsOrdered
  <2>3. k < Len(segment.boxes) => EndOf(k + 1) \in Nat
    BY <1>1, EndsGrow
  <2> QED BY <1>1, <2>1, <2>2, <2>3
<1>3. CASE cur # None
  <2> DEFINE box == segment.boxes[k + 1]
  <2>1. k \in 0 .. Len(segment.boxes) - 1
    BY <1>1, <1>3 DEF Reading
  <2>2. /\ HeadLen(box) \in {2, 3} /\ Len(box.body) \in Nat
        /\ EndOf(k + 1) = EndOf(k) + HeadLen(box) + Len(box.body)
    BY <1>1, <2>1, HeadIs
  <2>3. cur.start = EndOf(k) + HeadLen(box) /\ cur.start <= taken /\ taken \in 0 .. received
    BY <1>3 DEF Reading
  <2>4. Behind = cur.start - 1
    BY <1>3 DEF Behind
  <2> HIDE DEF box
  <2> QED BY <1>1, <2>2, <2>3, <2>4
<1> QED BY <1>2, <1>3

(* The reader's invariant implies what it promises. *)
LEMMA InvImplies == ASSUME CencInv PROVE BoxwiseOutput
<1>1. ASSUME cencPc \in {"parse", "read"}
      PROVE  /\ PackAll(out) = PackAll(Boxwise(segment, Arrived(Behind)).boxes)
             /\ cencPc = "read" => Within(Behind) = Within(received)
  <2>1. PICK k \in 0 .. Len(segment.boxes) :
               Processed(k) /\ Reading(k) /\ (cencPc = "read" => Waiting(k))
    BY <1>1 DEF CencInv
  <2>2. /\ Behind \in Nat /\ EndOf(k) <= Behind /\ Behind <= received
        /\ k < Len(segment.boxes) => Behind < EndOf(k + 1)
    BY <2>1, ReadingIs
  <2>3. segment \in Segment /\ \A i \in 1 .. k : segment.boxes[i].form # "toEnd"
    BY <2>1 DEF CencInv, Processed
  <2>4. Within(Behind) = 1 .. k /\ Arrived(Behind) = k
    BY <2>1, <2>2, <2>3, ArrivedIs
  <2>5. ASSUME cencPc = "read" PROVE Within(received) = 1 .. k
    <3>1. received \in Nat /\ EndOf(k) \in Nat
      BY <2>3, EndsGrow DEF CencInv
    <3>2. EndOf(k) <= received /\ (k < Len(segment.boxes) => received < EndOf(k + 1))
      BY <2>1, <2>2, <2>5, <3>1 DEF Waiting
    <3> QED BY <2>3, <3>1, <3>2, ArrivedIs
  <2> QED BY <2>1, <2>4, <2>5, PackSame DEF Processed
<1>2. ASSUME cencPc = "tail"
      PROVE  PackAll(out) \o rest
               = PackAll(Boxwise(segment, Arrived(received)).boxes) \o
                 SubSeq(Wire, Len(WireOf(SubSeq(segment.boxes, 1, Arrived(received)))) + 1, received)
  <2>1. PICK k \in 0 .. Len(segment.boxes) : Processed(k) /\ Passing(k)
    BY <1>2 DEF CencInv
  <2>2. segment \in Segment /\ \A i \in 1 .. k : segment.boxes[i].form # "toEnd"
    BY <2>1 DEF CencInv, Processed
  <2>3. received \in Nat /\ EndOf(k) \in Nat
    BY <2>2, EndsGrow DEF CencInv
  <2>4. Arrived(received) = k
    <3>1. EndOf(k) <= received /\ segment.boxes[k + 1].form = "toEnd"
      BY <2>1, <2>3 DEF Passing
    <3> QED BY <2>1, <2>2, <2>3, <3>1, ArrivedIs
  <2>5. PackAll(out) = PackAll(Boxwise(segment, k).boxes)
    BY <2>1, PackSame DEF Processed
  <2>6. rest = SubSeq(Wire, Len(WireOf(SubSeq(segment.boxes, 1, k))) + 1, received)
    BY <2>1 DEF Passing, EndOf
  <2> QED BY <2>4, <2>5, <2>6
<1> QED BY <1>1, <1>2 DEF BoxwiseOutput

-----------------------------------------------------------------------------
(* The steps of the reader *)


(* The wire is a function of the segment, which no step changes. *)
LEMMA SameSegment ==
  ASSUME segment' = segment
  PROVE  Wire' = Wire /\ \A k : EndOf(k)' = EndOf(k)
BY DEF Wire, EndOf

(* What is processed stays so while the decrypter and the output do. *)
LEMMA ProcessedStays ==
  ASSUME NEW k, Processed(k), UNCHANGED <<segment, dec, out>>
  PROVE  Processed(k)'
BY DEF Processed

(* A request starts with nothing received and nothing taken. *)
LEMMA InitInv == ASSUME CencInit PROVE CencInv
BY WireIs DEF CencInit, CencInv

(* The init segment primes the decrypter, whether or not it is yielded. *)
LEMMA StartStreamKeeps == ASSUME CencInv, StartStream PROVE CencInv'
<1>1. /\ UNCHANGED <<segment, received, taken, cur>> /\ received = 0 /\ taken = 0 /\ cur = None
      /\ segment \in Segment /\ received \in 0 .. Len(Wire)
  BY DEF StartStream, CencInv
<1>2. cencPc' = "failed" \/ cencPc' = "parse"
  BY DEF StartStream
<1>3. ASSUME cencPc' = "parse" PROVE Processed(0)' /\ Reading(0)'
  <2> DEFINE init == ProcessInit(NewDecrypter(KeyMap(segment.ids, segment.keys)), segment.init)
             p == Boxwise(segment, 0)
  <2>1. dec' = init.dec /\ out' = IF segment.includeInit THEN init.boxes ELSE <<>>
    BY <1>3 DEF StartStream
  <2>2. Len(segment.boxes) \in Nat
    BY <1>1, WireIs
  <2>3. p = Primed(segment)
    BY <2>2, BoxwiseStep
  <2>4. p.dec = init.dec /\ p.boxes = IF segment.includeInit THEN init.boxes ELSE <<>>
    BY <2>3 DEF Primed
  <2>5. IsSequence(init.boxes)
    <3>1. IsSequence(segment.init)
      BY <1>1, CencAssumption
    <3> DEFINE B == segment.init
               N == Len(B)
    <3>2. N \in Nat /\ DOMAIN B = 1 .. N
      BY <3>1, SequenceIs
    <3>3. \/ init.boxes = B
          \/ \E e : init.boxes = [j \in DOMAIN B |-> IF B[j].type = "moov" THEN e ELSE B[j]]
      BY DEF ProcessInit
    <3> HIDE DEF init
    <3>4. ASSUME NEW e, init.boxes = [j \in DOMAIN B |-> IF B[j].type = "moov" THEN e ELSE B[j]]
          PROVE  IsSequence(init.boxes)
      <4> DEFINE S == ToSet(B) \cup {e}
      <4>1. \A j \in 1 .. N : (IF B[j].type = "moov" THEN e ELSE B[j]) \in S
        BY <3>1, SequenceIs
      <4>2. init.boxes \in [1 .. N -> S]
        BY <3>2, <3>4, <4>1
      <4> HIDE DEF S, N, B
      <4>3. init.boxes \in Seq(S)
        BY <3>2, <4>2, SeqDef
      <4> QED BY <4>3, SeqIsSequence
    <3> QED BY <3>1, <3>3, <3>4
  <2>6. IsSequence(<<>>)
    BY EmptySeq DEF IsSequence
  <2> HIDE DEF init, p
  <2>7. dec' = p.dec /\ out' = p.boxes /\ IsSequence(p.boxes)
    BY <2>1, <2>4, <2>5, <2>6
  <2>8. SameBoxes(out', p.boxes)
    BY <2>7 DEF SameBoxes
  <2>9. Processed(0)'
    BY <1>1, <2>2, <2>7, <2>8 DEF Processed, p
  <2>10. EndOf(0)' = 0
    BY <1>1, EndsGrow, SameSegment
  <2>11. Reading(0)'
    BY <1>1, <2>10 DEF Reading
  <2> QED BY <2>9, <2>11
<1>4. (received \in 0 .. Len(Wire))'
  BY <1>1, SameSegment
<1>5. 0 \in 0 .. Len(segment'.boxes)
  BY <1>1, WireIs
<1> QED BY <1>1, <1>2, <1>3, <1>4, <1>5 DEF CencInv

(* Between two boxes with a header to read there is a next box, and the     *)
(* header tells its type, its form and its size.                            *)
LEMMA NextHeader ==
  ASSUME CencInv, NEW k, Processed(k), Reading(k), cur = None, HeaderComplete
  PROVE  LET box == segment.boxes[k + 1] IN
         /\ k \in 0 .. Len(segment.boxes) - 1
         /\ HeaderLen = HeadLen(box)
         /\ taken + HeaderLen <= received
         /\ Wire[taken + 1].n = 0 <=> box.form = "toEnd"
         /\ Wire[taken + 2].t = box.type
         /\ Wire[taken + 1].n # 0 =>
              (IF HeaderLen = 3 THEN Wire[taken + 3].n ELSE Wire[taken + 1].n)
                = HeaderLen + Len(box.body)
<1> DEFINE N == Len(segment.boxes)
           box == segment.boxes[k + 1]
<1>1. /\ segment \in Segment /\ k \in 0 .. N /\ N \in Nat /\ taken = EndOf(k)
      /\ EndOf(k) \in Nat /\ Len(Wire) \in Nat /\ received \in 0 .. Len(Wire)
  BY WireIs, EndsGrow DEF CencInv, Processed, Reading
<1>2. taken + 2 <= received /\ taken + HeaderLen <= received
  <2>1. HeaderLen \in Nat
    BY DEF HeaderLen
  <2> QED BY <1>1, <2>1 DEF HeaderComplete, Avail
<1>3. k \in 0 .. N - 1
  <2>1. CASE k = N
    BY <1>1, <1>2, <2>1, EndsGrow
  <2> QED BY <1>1, <2>1
<1>4. /\ HeadLen(box) \in {2, 3} /\ Len(box.body) \in Nat
      /\ \A j \in 1 .. HeadLen(box) : Wire[taken + j] = Header(box)[j]
  BY <1>1, <1>3, HeadIs
<1>5. box.form \in {"normal", "extended", "toEnd"}
  <2>1. k + 1 \in 1 .. N
    BY <1>1, <1>3
  <2> QED BY <1>1, <2>1, BoxIs
<1> HIDE DEF box
<1>6. Wire[taken + 1] = Header(box)[1] /\ Wire[taken + 2] = Header(box)[2]
  BY <1>4
<1>7. HeadLen(box) = 3 => Wire[taken + 3] = Header(box)[3]
  BY <1>4
<1>8. CASE box.form = "normal"
  <2>1. Header(box)[1].n = Len(box.body) + 2 /\ Header(box)[2].t = box.type /\ HeadLen(box) = 2
    BY <1>8 DEF Header, SizeUnit, TypeUnit, HeadLen
  <2>2. HeaderLen = 2 /\ Wire[taken + 1].n = 2 + Len(box.body) /\ Wire[taken + 1].n # 0
    BY <1>4, <1>6, <2>1 DEF HeaderLen
  <2> QED BY <1>2, <1>3, <1>6, <1>8, <2>1, <2>2 DEF box
<1>9. CASE box.form = "extended"
  <2>1. /\ Header(box)[1].n = 1 /\ Header(box)[2].t = box.type
        /\ Header(box)[3].n = Len(box.body) + 3 /\ HeadLen(box) = 3
    BY <1>9 DEF Header, SizeUnit, TypeUnit, HeadLen
  <2>2. HeaderLen = 3 /\ Wire[taken + 1].n = 1 /\ Wire[taken + 3].n = 3 + Len(box.body)
    BY <1>4, <1>6, <1>7, <2>1 DEF HeaderLen
  <2> QED BY <1>2, <1>3, <1>6, <1>9, <2>1, <2>2 DEF box
<1>10. CASE box.form = "toEnd"
  <2>1. Header(box)[1].n = 0 /\ Header(box)[2].t = box.type /\ HeadLen(box) = 2
    BY <1>10 DEF Header, SizeUnit, TypeUnit, HeadLen
  <2>2. HeaderLen = 2 /\ Wire[taken + 1].n = 0
    BY <1>6, <2>1 DEF HeaderLen
  <2> QED BY <1>2, <1>3, <1>6, <1>10, <2>1, <2>2 DEF box
<1> QED BY <1>5, <1>8, <1>9, <1>10

(* After a header the reader is in the next box, where its body starts. *)
LEMMA ReadHeaderKeeps == ASSUME CencInv, ReadHeader PROVE CencInv'
<1> DEFINE N == Len(segment.boxes)
<1>1. /\ cencPc = "parse" /\ cencPc' = "parse" /\ cur = None /\ HeaderComplete
      /\ Wire[taken + 1].n # 0
      /\ UNCHANGED <<segment, received, dec, out>> /\ taken' = taken + HeaderLen
  BY DEF ReadHeader
<1>2. PICK k \in 0 .. N : Processed(k) /\ Reading(k)
  BY <1>1 DEF CencInv
<1> DEFINE box == segment.boxes[k + 1]
<1>3. /\ k \in 0 .. N - 1 /\ HeaderLen = HeadLen(box) /\ taken + HeaderLen <= received
      /\ box.form # "toEnd" /\ Wire[taken + 2].t = box.type
      /\ (IF HeaderLen = 3 THEN Wire[taken + 3].n ELSE Wire[taken + 1].n)
           = HeaderLen + Len(box.body)
  BY <1>1, <1>2, NextHeader
<1>4. /\ segment \in Segment /\ received \in Nat /\ EndOf(k) \in Nat /\ taken = EndOf(k)
  BY <1>1, <1>2, EndsGrow, WireIs DEF CencInv, Reading
<1>5. /\ HeadLen(box) \in {2, 3} /\ Len(box.body) \in Nat
      /\ EndOf(k + 1) = EndOf(k) + HeadLen(box) + Len(box.body)
  BY <1>3, <1>4, HeadIs
<1>6. cur' = [type |-> box.type, start |-> taken + HeaderLen, remaining |-> Len(box.body)]
  <2> DEFINE size == IF HeaderLen = 3 THEN Wire[taken + 3].n ELSE Wire[taken + 1].n
  <2>1. cur' = [type |-> Wire[taken + 2].t, start |-> taken + HeaderLen,
                remaining |-> IF size < HeaderLen THEN 0 ELSE size - HeaderLen]
    BY DEF ReadHeader
  <2>2. size = HeaderLen + Len(box.body) /\ HeaderLen \in Nat
    BY <1>3, <1>5
  <2> HIDE DEF size
  <2>3. (IF size < HeaderLen THEN 0 ELSE size - HeaderLen) = Len(box.body)
    BY <1>5, <2>2
  <2> QED BY <1>3, <2>1, <2>3
<1>7. Reading(k)'
  <2>1. cur' \in [type : {box.type}, start : Nat, remaining : Nat]
    BY <1>3, <1>4, <1>5, <1>6
  <2>2. cur' # None
    <3>1. k + 1 \in 1 .. N
      BY <1>3
    <3> QED BY <1>4, <2>1, <3>1, BoxIs
  <2>3. /\ taken' \in 0 .. received /\ cur'.start = EndOf(k) + HeadLen(box) /\ cur'.start <= taken'
        /\ taken' + cur'.remaining = EndOf(k + 1)
    <3>1. cur'.start = taken + HeaderLen /\ cur'.remaining = Len(box.body)
      BY <1>6
    <3> HIDE DEF box, N
    <3>2. /\ HeaderLen \in Nat /\ HeaderLen = HeadLen(box) /\ Len(box.body) \in Nat
          /\ EndOf(k + 1) = EndOf(k) + HeaderLen + Len(box.body)
          /\ taken = EndOf(k) /\ taken' = taken + HeaderLen /\ taken + HeaderLen <= received
      BY <1>1, <1>3, <1>4, <1>5
    <3> QED BY <1>4, <3>1, <3>2
  <2>4. k < N
    BY <1>3
  <2> HIDE DEF box
  <2>5. /\ EndOf(k)' = EndOf(k) /\ EndOf(k + 1)' = EndOf(k + 1)
        /\ received' = received /\ segment' = segment
    BY <1>1, SameSegment
  <2> QED BY <1>3, <2>1, <2>2, <2>3, <2>4, <2>5 DEF Reading, box
<1>8. Processed(k)'
  BY <1>1, <1>2, ProcessedStays
<1>9. (received \in 0 .. Len(Wire))' /\ segment' \in Segment
  BY <1>1, SameSegment DEF CencInv
<1>10. k \in 0 .. Len(segment'.boxes)
  BY <1>1, <1>2
<1> QED BY <1>1, <1>7, <1>8, <1>9, <1>10 DEF CencInv

(* A size of 0 is the last box; what arrived of it is passed on. *)
LEMMA PassTailKeeps == ASSUME CencInv, PassTail PROVE CencInv'
<1> DEFINE N == Len(segment.boxes)
<1>1. /\ cencPc = "parse" /\ cencPc' = "tail" /\ cur = None /\ HeaderComplete
      /\ Wire[taken + 1].n = 0
      /\ UNCHANGED <<segment, received, dec, out>>
      /\ rest' = SubSeq(Wire, taken + 1, received)
  BY DEF PassTail
<1>2. PICK k \in 0 .. N : Processed(k) /\ Reading(k)
  BY <1>1 DEF CencInv
<1>3. /\ k \in 0 .. N - 1 /\ taken + HeaderLen <= received /\ segment.boxes[k + 1].form = "toEnd"
  BY <1>1, <1>2, NextHeader
<1>4. segment \in Segment /\ received \in Nat /\ EndOf(k) \in Nat /\ taken = EndOf(k)
  BY <1>1, <1>2, EndsGrow, WireIs DEF CencInv, Reading
<1>5. N = k + 1
  <2>1. k + 1 \in 1 .. N
    BY <1>3
  <2> QED BY <1>3, <1>4, <2>1, BoxIs
<1>6. EndOf(k) < received
  BY <1>3, <1>4 DEF HeaderLen
<1>7. Passing(k)'
  BY <1>1, <1>3, <1>4, <1>5, <1>6, SameSegment DEF Passing
<1>8. Processed(k)'
  BY <1>1, <1>2, ProcessedStays
<1>9. (received \in 0 .. Len(Wire))' /\ segment' \in Segment
  BY <1>1, SameSegment DEF CencInv
<1>10. k \in 0 .. Len(segment'.boxes)
  BY <1>1, <1>2
<1> QED BY <1>1, <1>7, <1>8, <1>9, <1>10 DEF CencInv

(* The size field of a header tells how long the header is. *)
LEMMA HeaderLenIs ==
  ASSUME segment \in Segment, NEW k \in 0 .. Len(segment.boxes) - 1, taken = EndOf(k)
  PROVE  HeaderLen = HeadLen(segment.boxes[k + 1])
<1> DEFINE box == segment.boxes[k + 1]
<1>1. /\ Len(box.body) \in Nat /\ HeadLen(box) \in {2, 3}
      /\ \A j \in 1 .. HeadLen(box) : Wire[taken + j] = Header(box)[j]
  BY HeadIs
<1>2. Wire[taken + 1] = Header(box)[1]
  BY <1>1
<1>3. k + 1 \in 1 .. Len(segment.boxes)
  BY WireIs
<1>4. box.form \in {"normal", "extended", "toEnd"}
  BY <1>3, BoxIs
<1> HIDE DEF box
<1>5. CASE box.form = "normal"
  BY <1>1, <1>2, <1>5 DEF HeaderLen, HeadLen, Header, SizeUnit, box
<1>6. CASE box.form = "extended"
  BY <1>1, <1>2, <1>6 DEF HeaderLen, HeadLen, Header, SizeUnit, box
<1>7. CASE box.form = "toEnd"
  BY <1>1, <1>2, <1>7 DEF HeaderLen, HeadLen, Header, SizeUnit, box
<1> QED BY <1>4, <1>5, <1>6, <1>7 DEF box

(* A header that is not complete belongs to a box that has not arrived. *)
LEMMA NeedHeaderKeeps == ASSUME CencInv, NeedHeader PROVE CencInv'
<1> DEFINE N == Len(segment.boxes)
<1>1. /\ cencPc = "parse" /\ cencPc' = "read" /\ cur = None /\ ~HeaderComplete
      /\ UNCHANGED <<segment, received, taken, cur, dec, out>>
  BY DEF NeedHeader
<1>2. PICK k \in 0 .. N : Processed(k) /\ Reading(k)
  BY <1>1 DEF CencInv
<1>3. /\ segment \in Segment /\ N \in Nat /\ received \in Nat /\ EndOf(k) \in Nat /\ taken = EndOf(k)
  BY <1>1, <1>2, EndsGrow, WireIs DEF CencInv, Reading
<1>4. ASSUME k < N PROVE received < EndOf(k + 1)
  <2> DEFINE box == segment.boxes[k + 1]
  <2>1. k \in 0 .. N - 1
    BY <1>3, <1>4
  <2>2. /\ HeadLen(box) \in {2, 3} /\ Len(box.body) \in Nat
        /\ EndOf(k + 1) = EndOf(k) + HeadLen(box) + Len(box.body)
        /\ HeaderLen = HeadLen(box)
    BY <1>3, <2>1, HeadIs, HeaderLenIs
  <2> HIDE DEF box
  <2>3. received - taken < HeaderLen
    BY <1>1, <1>3, <2>2 DEF HeaderComplete, Avail
  <2> QED BY <1>3, <2>2, <2>3
<1>5. Waiting(k)'
  BY <1>1, <1>4, SameSegment DEF Waiting
<1>6. Reading(k)'
  BY <1>1, <1>2, SameSegment DEF Reading
<1>7. Processed(k)'
  BY <1>1, <1>2, ProcessedStays
<1>8. (received \in 0 .. Len(Wire))' /\ segment' \in Segment
  BY <1>1, SameSegment DEF CencInv
<1>9. k \in 0 .. Len(segment'.boxes)
  BY <1>1, <1>2
<1> QED BY <1>1, <1>5, <1>6, <1>7, <1>8, <1>9 DEF CencInv

(* A part of a body is taken and counted. *)
LEMMA TakePartKeeps == ASSUME CencInv, TakePart PROVE CencInv'
<1> DEFINE N == Len(segment.boxes)
<1>1. /\ cencPc = "parse" /\ cencPc' = "read" /\ cur # None /\ Avail < cur.remaining
      /\ UNCHANGED <<segment, received, dec, out>>
      /\ taken' = received /\ cur' = [cur EXCEPT !.remaining = @ - Avail]
  BY DEF TakePart
<1>2. PICK k \in 0 .. N : Processed(k) /\ Reading(k)
  BY <1>1 DEF CencInv
<1> DEFINE box == segment.boxes[k + 1]
<1>3. /\ segment \in Segment /\ N \in Nat /\ received \in Nat /\ k < N /\ k + 1 \in 1 .. N
      /\ EndOf(k + 1) \in Nat
  <2>1. segment \in Segment /\ N \in Nat /\ received \in Nat /\ k < N
    BY <1>1, <1>2, WireIs DEF CencInv, Reading
  <2> HIDE DEF N
  <2>2. k + 1 \in 1 .. N /\ k + 1 \in 0 .. N
    BY <2>1
  <2>3. EndOf(k + 1) \in Nat
    BY <2>1, <2>2, EndsGrow DEF N
  <2> QED BY <2>1, <2>2, <2>3
<1>4. /\ taken \in 0 .. received /\ box.form # "toEnd"
      /\ cur \in [type : {box.type}, start : Nat, remaining : Nat]
      /\ cur.start = EndOf(k) + HeadLen(box)
      /\ cur.start <= taken /\ taken + cur.remaining = EndOf(k + 1)
  BY <1>1, <1>2 DEF Reading
<1>5. /\ cur' \in [type : {box.type}, start : Nat, remaining : Nat]
      /\ cur'.start = cur.start /\ cur'.remaining = cur.remaining - (received - taken)
      /\ cur'.remaining # 0
  <2> HIDE DEF N, box
  <2>1. /\ cur = [type |-> box.type, start |-> cur.start, remaining |-> cur.remaining]
        /\ cur.start \in Nat /\ cur.remaining \in Nat
    BY <1>4
  <2>2. Avail \in Nat /\ Avail = received - taken /\ Avail < cur.remaining
    BY <1>1, <1>3, <1>4 DEF Avail
  <2>3. cur' = [type |-> box.type, start |-> cur.start, remaining |-> cur.remaining - Avail]
    BY <1>1, <2>1
  <2>4. cur.remaining - Avail \in Nat /\ cur.remaining - Avail # 0
    BY <2>1, <2>2
  <2> QED BY <2>1, <2>2, <2>3, <2>4
<1>6. cur' # None
  BY <1>3, <1>5, BoxIs
<1>7. /\ received + cur'.remaining = EndOf(k + 1) /\ cur'.start <= received /\ received < EndOf(k + 1)
      /\ received \in 0 .. received
  BY <1>3, <1>4, <1>5
<1>8. /\ EndOf(k)' = EndOf(k) /\ EndOf(k + 1)' = EndOf(k + 1)
      /\ received' = received /\ segment' = segment
  BY <1>1, SameSegment
<1> HIDE DEF box
<1>9. Reading(k)' /\ Waiting(k)'
  BY <1>1, <1>3, <1>4, <1>5, <1>6, <1>7, <1>8 DEF Reading, Waiting, box
<1>10. Processed(k)'
  BY <1>1, <1>2, ProcessedStays
<1>11. (received \in 0 .. Len(Wire))' /\ segment' \in Segment
  BY <1>1, SameSegment DEF CencInv
<1>12. k \in 0 .. Len(segment'.boxes)
  BY <1>1, <1>2
<1> QED BY <1>1, <1>9, <1>10, <1>11, <1>12 DEF CencInv


(* The box that is put together is the next of the segment, and what is     *)
(* yielded for it is what processing the boxes one by one yields.           *)
LEMMA EmitBoxKeeps == ASSUME CencInv, EmitBox PROVE CencInv'
<1> DEFINE N == Len(segment.boxes)
           read == [type |-> cur.type, form |-> "normal",
                    body |-> SubSeq(Wire, cur.start + 1, taken + cur.remaining)]
<1>1. /\ cencPc = "parse" /\ cencPc' = "parse" /\ cur # None /\ cur' = None
      /\ Avail >= cur.remaining
      /\ UNCHANGED <<segment, received>> /\ taken' = taken + cur.remaining
      /\ IF read.type = "sidx" THEN UNCHANGED <<dec, out>>
         ELSE /\ dec' = ProcessBox(dec, read).dec
              /\ out' = Append(out, ProcessBox(dec, read).box)
  BY DEF EmitBox
<1>2. PICK k \in 0 .. N : Processed(k) /\ Reading(k)
  BY <1>1 DEF CencInv
<1> DEFINE box == segment.boxes[k + 1]
           r == Boxwise(segment, k)
<1>3. /\ segment \in Segment /\ N \in Nat /\ received \in Nat /\ k \in 0 .. N - 1
      /\ k + 1 \in 1 .. N /\ k + 1 \in 0 .. N /\ EndOf(k + 1) \in Nat
  <2>1. segment \in Segment /\ N \in Nat /\ received \in Nat /\ k < N
    BY <1>1, <1>2, WireIs DEF CencInv, Reading
  <2> HIDE DEF N
  <2>2. k \in 0 .. N - 1 /\ k + 1 \in 1 .. N /\ k + 1 \in 0 .. N
    BY <2>1
  <2>3. EndOf(k + 1) \in Nat
    BY <2>1, <2>2, EndsGrow DEF N
  <2> QED BY <2>1, <2>2, <2>3
<1>4. /\ taken \in 0 .. received /\ box.form # "toEnd"
      /\ cur \in [type : {box.type}, start : Nat, remaining : Nat]
      /\ cur.start = EndOf(k) + HeadLen(box) /\ taken + cur.remaining = EndOf(k + 1)
  BY <1>1, <1>2 DEF Reading
<1>5. read.type = box.type /\ read.body = box.body
  BY <1>3, <1>4, BodyIs
<1>6. read = [type |-> read.type, form |-> read.form, body |-> read.body]
  OBVIOUS
<1>7. box = [type |-> box.type, form |-> box.form, body |-> box.body]
  BY <1>3, BoxIs
<1>8. Boxwise(segment, k + 1) = AddBox(r, box)
  BY <1>3, BoxwiseStep
<1>9. dec = r.dec /\ IsSequence(out) /\ IsSequence(r.boxes) /\ SameBoxes(out, r.boxes)
  BY <1>2 DEF Processed
<1> HIDE DEF read, r
<1>10. LET next == AddBox(r, box) IN
       dec' = next.dec /\ IsSequence(out') /\ IsSequence(next.boxes) /\ SameBoxes(out', next.boxes)
  <2>1. CASE box.type = "sidx"
    BY <1>1, <1>5, <1>9, <2>1 DEF AddBox
  <2>2. CASE box.type # "sidx"
    <3> DEFINE one == ProcessBox(dec, read)
               two == ProcessBox(r.dec, box)
    <3>1. one.dec = two.dec /\ one.box.type = two.box.type /\ one.box.body = two.box.body
      BY <1>5, <1>6, <1>7, <1>9, ProcessSame
    <3>2. dec' = one.dec /\ out' = Append(out, one.box)
      BY <1>1, <1>5, <2>2
    <3>3. AddBox(r, box) = [dec |-> two.dec, boxes |-> Append(r.boxes, two.box)]
      BY <2>2 DEF AddBox
    <3> HIDE DEF one, two, box
    <3>4. /\ IsSequence(Append(out, one.box)) /\ IsSequence(Append(r.boxes, two.box))
          /\ SameBoxes(Append(out, one.box), Append(r.boxes, two.box))
      BY <1>9, <3>1, AppendSame
    <3> QED BY <3>1, <3>2, <3>3, <3>4
  <2> QED BY <2>1, <2>2
<1>11. \A i \in 1 .. k + 1 : segment.boxes[i].form # "toEnd"
  <2> TAKE i \in 1 .. k + 1
  <2>1. i = k + 1 \/ i \in 1 .. k
    BY <1>3
  <2> QED BY <1>2, <1>4, <2>1 DEF Processed
<1>12. Processed(k + 1)'
  <2> HIDE DEF box
  <2> QED BY <1>1, <1>3, <1>8, <1>10, <1>11 DEF Processed
<1>13. Reading(k + 1)'
  <2>1. EndOf(k + 1)' = EndOf(k + 1) /\ received' = received
    BY <1>1, SameSegment
  <2>2. taken' = EndOf(k + 1) /\ taken' <= received
    BY <1>1, <1>3, <1>4 DEF Avail
  <2> QED BY <1>1, <1>3, <2>1, <2>2 DEF Reading
<1>14. (received \in 0 .. Len(Wire))' /\ segment' \in Segment
  BY <1>1, SameSegment DEF CencInv
<1>15. k + 1 \in 0 .. Len(segment'.boxes)
  BY <1>1, <1>3
<1> QED BY <1>1, <1>12, <1>13, <1>14, <1>15 DEF CencInv

(* A chunk of any length adds to what is received, or to the tail. *)
LEMMA ReceiveKeeps ==
  ASSUME CencInv, NEW n \in 1 .. Len(Wire), Receive(n)
  PROVE  CencInv'
<1> DEFINE N == Len(segment.boxes)
<1>1. /\ UNCHANGED <<segment, cur, dec, out>> /\ received' = received + n /\ received + n <= Len(Wire)
      /\ cencPc \in {"read", "tail"}
  BY DEF Receive
<1>2. /\ segment \in Segment /\ N \in Nat /\ received \in Nat /\ Len(Wire) \in Nat
      /\ Wire \in Seq(Units) /\ n \in Nat
  BY WireIs DEF CencInv
<1>3. received' \in 0 .. Len(Wire') /\ segment' \in Segment /\ N = Len(segment'.boxes)
  BY <1>1, <1>2, SameSegment
<1>4. CASE cencPc = "read"
  <2>1. cencPc' = "parse" /\ taken' = taken
    BY <1>4 DEF Receive
  <2>2. PICK k \in 0 .. N : Processed(k) /\ Reading(k)
    BY <1>4 DEF CencInv
  <2>3. EndOf(k)' = EndOf(k) /\ EndOf(k + 1)' = EndOf(k + 1)
    BY <1>1, SameSegment
  <2>4. taken' \in 0 .. received'
    BY <1>1, <1>2, <2>1, <2>2 DEF Reading
  <2>5. Reading(k)'
    BY <1>1, <2>1, <2>2, <2>3, <2>4 DEF Reading
  <2>6. Processed(k)'
    BY <1>1, <2>2, ProcessedStays
  <2> QED BY <1>3, <2>1, <2>5, <2>6 DEF CencInv
<1>5. CASE cencPc = "tail"
  <2>1. cencPc' = "tail" /\ rest' = rest \o SubSeq(Wire, received + 1, received + n)
    BY <1>5 DEF Receive
  <2>2. PICK k \in 0 .. N : Processed(k) /\ Passing(k)
    BY <1>5 DEF CencInv
  <2>3. EndOf(k) \in Nat /\ EndOf(k) < received
    BY <1>2, <2>2, EndsGrow DEF Passing
  <2>4. SubSeq(Wire, EndOf(k) + 1, received) \o SubSeq(Wire, received + 1, received + n)
          = SubSeq(Wire, EndOf(k) + 1, received + n)
    <3>1. /\ EndOf(k) + 1 \in 1 .. Len(Wire) + 1
          /\ received \in (EndOf(k) + 1) - 1 .. Len(Wire)
          /\ received + n \in received .. Len(Wire)
      BY <1>1, <1>2, <2>3
    <3> QED BY <1>2, <3>1, ConcatAdjacentSubSeq
  <2>5. rest' = SubSeq(Wire, EndOf(k) + 1, received + n)
    BY <2>1, <2>2, <2>4 DEF Passing
  <2>6. EndOf(k) < received + n
    BY <1>2, <2>3
  <2>7. Passing(k)'
    BY <1>1, <2>2, <2>5, <2>6, SameSegment DEF Passing
  <2>8. Processed(k)'
    BY <1>1, <2>2, ProcessedStays
  <2> QED BY <1>3, <2>1, <2>7, <2>8 DEF CencInv
<1> QED BY <1>1, <1>4, <1>5

(* A stream that has ended promises nothing more. *)
LEMMA EndKeeps ==
  ASSUME CencInv, UpstreamEnds \/ UpstreamFails
  PROVE  CencInv'
<1>1. cencPc' \in {"ended", "failed"} /\ UNCHANGED <<segment, received>>
  BY DEF UpstreamEnds, UpstreamFails
<1> QED BY <1>1, SameSegment DEF CencInv

(* Other streams' steps change nothing. *)
LEMMA StutterKeeps ==
  ASSUME CencInv, UNCHANGED cencVars
  PROVE  CencInv'
<1>1. UNCHANGED <<segment, received, taken, cur, dec, out, rest, cencPc>>
  BY DEF cencVars
<1>2. \A k : /\ Processed(k) => Processed(k)'
             /\ Reading(k) => Reading(k)'
             /\ Waiting(k) => Waiting(k)'
             /\ Passing(k) => Passing(k)'
  BY <1>1, SameSegment, ProcessedStays DEF Reading, Waiting, Passing
<1>3. Wire' = Wire
  BY <1>1, SameSegment
<1> QED BY <1>1, <1>2, <1>3 DEF CencInv

(* The reader's invariant holds of every segment and every way to cut it    *)
(* into chunks.                                                             *)
THEOREM CencInvariant == CencSpec => []CencInv
<1>1. CencInit => CencInv
  BY InitInv
<1>2. CencInv /\ [CencNext]_cencVars => CencInv'
  <2> SUFFICES ASSUME CencInv, [CencNext]_cencVars PROVE CencInv'
    OBVIOUS
  <2>1. ASSUME NEW n \in 1 .. Len(Wire), Receive(n) PROVE CencInv'
    BY <2>1, ReceiveKeeps
  <2> QED
    BY <2>1, StartStreamKeeps, ReadHeaderKeeps, PassTailKeeps, NeedHeaderKeeps, TakePartKeeps,
       EmitBoxKeeps, EndKeeps, StutterKeeps DEF CencNext
<1> QED BY <1>1, <1>2, PTL DEF CencSpec

(* decrypt_segment_streaming yields what the boxes of the segment yield one *)
(* by one, holds back no complete box and passes a tail on completely,      *)
(* for every segment, every number of boxes and every way its bytes are cut *)
(* into chunks.                                                             *)
THEOREM OutputIsBoxwise == CencSpec => []BoxwiseOutput
<1>1. CencInv => BoxwiseOutput
  BY InvImplies
<1> QED BY <1>1, CencInvariant, PTL

(* Of finitely many places in an order one is the first. *)
LEMMA FirstIs ==
  ASSUME NEW S, IsFiniteSet(S), S # {}, NEW R, Orders(R, S)
  PROVE  \E i \in S : \A j \in S \ {i} : <<i, j>> \in R
<1>1. Cardinality(S) \in Nat /\ Cardinality(S) # 0
  BY FS_CardinalityType, FS_EmptySet
<1>2. PICK i \in S : Rank(R, S, i) = 0
  <2>1. 1 \in 1 .. Cardinality(S) /\ 1 - 1 = 0
    BY <1>1
  <2> QED BY <2>1, RankReached
<1>3. {j \in S : <<j, i>> \in R} = {}
  <2>1. IsFiniteSet({j \in S : <<j, i>> \in R})
    BY FS_Subset
  <2> QED BY <1>2, <2>1, FS_EmptySet DEF Rank
<1>4. \A j \in S \ {i} : <<i, j>> \in R
  BY <1>3 DEF Orders
<1> QED BY <1>4

(* Finitely many numbers have a least one. *)
LEMMA LeastIs ==
  ASSUME NEW S \in SUBSET Int, IsFiniteSet(S), S # {}
  PROVE  Least(S) \in S /\ \A y \in S : Least(S) <= y
<1> DEFINE R == {e \in S \X S : e[1] < e[2]}
<1>1. \A i, j \in S : <<i, j>> \in R <=> i < j
  OBVIOUS
<1> HIDE DEF R
<1>2. Orders(R, S)
  BY <1>1 DEF Orders
<1>3. PICK x \in S : \A j \in S \ {x} : <<x, j>> \in R
  BY <1>2, FirstIs
<1>4. ASSUME NEW y \in S PROVE x <= y
  <2>1. y = x \/ <<x, y>> \in R
    BY <1>3
  <2>2. y = x \/ x < y
    BY <1>1, <2>1
  <2> QED BY <2>2
<1> QED BY <1>4 DEF Least

(* Bytes of a track, and the same bytes under other keystreams. *)
AreBytes(s) == IsSequence(s) /\ \A j \in DOMAIN s : IsByte(s[j])
SameBytes(s, t) == AreBytes(t) /\ DOMAIN t = DOMAIN s /\ \A j \in DOMAIN s : t[j].id = s[j].id

(* A keystream byte changes the mask of a byte only. *)
LEMMA FlipSame ==
  ASSUME NEW b, IsByte(b), NEW keystream
  PROVE  /\ IsByte(Flip(b, keystream)) /\ Flip(b, keystream).id = b.id
         /\ Flip(b, keystream).mask = (b.mask \ {keystream}) \cup ({keystream} \ b.mask)
<1>1. b = [kind |-> "byte", id |-> b.id, mask |-> b.mask]
  BY DEF IsByte
<1> DEFINE m == (b.mask \ {keystream}) \cup ({keystream} \ b.mask)
<1>2. Flip(b, keystream) = [b EXCEPT !.mask = m]
  BY DEF Flip
<1> HIDE DEF m
<1>3. Flip(b, keystream) = [kind |-> "byte", id |-> b.id, mask |-> m]
  BY <1>1, <1>2
<1> QED BY <1>3 DEF IsByte, m

(* Bytes, each of which is changed in its mask only. *)
LEMMA BytesMake ==
  ASSUME NEW s, AreBytes(s), NEW t, t = [j \in DOMAIN s |-> t[j]],
         \A j \in DOMAIN s : IsByte(t[j]) /\ t[j].id = s[j].id
  PROVE  SameBytes(s, t)
<1>1. Len(s) \in Nat /\ DOMAIN s = 1 .. Len(s)
  BY SequenceIs DEF AreBytes
<1>2. t = [j \in 1 .. Len(s) |-> t[j]]
  BY <1>1
<1>3. IsSequence(t) /\ DOMAIN t = DOMAIN s
  BY <1>1, <1>2, PlacesMake
<1> QED BY <1>3 DEF SameBytes, AreBytes

(* CTR decryption keeps the bytes but for their masks. *)
LEMMA CtrSame ==
  ASSUME NEW data, AreBytes(data), NEW key, NEW iv, NEW offset
  PROVE  SameBytes(data, CtrDecrypt(data, key, iv, offset))
<1> DEFINE t == CtrDecrypt(data, key, iv, offset)
<1>1. ASSUME NEW j \in DOMAIN data PROVE IsByte(t[j]) /\ t[j].id = data[j].id
  BY FlipSame DEF CtrDecrypt, AreBytes
<1>2. t = [j \in DOMAIN data |-> t[j]]
  BY DEF CtrDecrypt
<1> HIDE DEF t
<1> QED BY <1>1, <1>2, BytesMake DEF t

(* So does CBC decryption, *)
LEMMA CbcSame ==
  ASSUME NEW data, AreBytes(data), NEW key, NEW iv
  PROVE  SameBytes(data, CbcDecrypt(data, key, iv))
<1> DEFINE t == CbcDecrypt(data, key, iv)
<1>1. ASSUME NEW j \in DOMAIN data PROVE IsByte(t[j]) /\ t[j].id = data[j].id
  <2>1. t[j] = data[j] \/ \E k : t[j] = Flip(data[j], k)
    BY DEF CbcDecrypt
  <2> QED BY <2>1, FlipSame DEF AreBytes
<1>2. t = [j \in DOMAIN data |-> t[j]]
  BY DEF CbcDecrypt
<1> HIDE DEF t
<1> QED BY <1>1, <1>2, BytesMake DEF t

(* How many members of S there are up to j: the place that a member has     *)
(* among them.                                                              *)
PlaceOf(S, j) == Cardinality({i \in S : i <= j})

(* A filter keeps bytes, and the place a member of the places has among     *)
(* them is how many of them there are up to it.                             *)
LEMMA FilteredAt ==
  ASSUME NEW s, IsSequence(s), NEW S \in SUBSET (DOMAIN s)
  PROVE  /\ IsSequence(Filtered(s, S))
         /\ Len(Filtered(s, S)) = Cardinality(S) /\ Cardinality(S) \in Nat
         /\ \A j \in S : /\ Cardinality({k \in S : k <= j}) \in 1 .. Cardinality(S)
                         /\ Filtered(s, S)[Cardinality({k \in S : k <= j})] = s[j]
         /\ \A k \in 1 .. Cardinality(S) : \E j \in S : /\ Cardinality({i \in S : i <= j}) = k
                                                      /\ Filtered(s, S)[k] = s[j]
<1> DEFINE R == {e \in S \X S : e[1] < e[2]}
           n == Cardinality(S)
           f == Filtered(s, S)
<1>1. IsFiniteSet(S) /\ n \in Nat /\ S \in SUBSET Nat
  <2>1. DOMAIN s = 1 .. Len(s) /\ Len(s) \in Nat
    BY SequenceIs
  <2>2. IsFiniteSet(1 .. Len(s))
    BY <2>1, FS_Interval
  <2> QED BY <2>1, <2>2, FS_Subset, FS_CardinalityType
<1>2. \A i, j \in S : <<i, j>> \in R <=> i < j
  OBVIOUS
<1>3. Orders(R, S)
  BY <1>1, <1>2 DEF Orders
<1>4. f = [k \in 1 .. n |-> s[CHOOSE i \in S : Rank(R, S, i) = k - 1]]
  BY DEF Filtered, Arranged, Rank
<1> HIDE DEF f, R
<1>5. ASSUME NEW j \in S PROVE Cardinality({k \in S : k <= j}) = Rank(R, S, j) + 1
  <2> DEFINE B == {k \in S : <<k, j>> \in R}
  <2>1. {k \in S : k <= j} = B \cup {j} /\ j \notin B
    BY <1>1, <1>2
  <2>2. IsFiniteSet(B)
    BY <1>1, FS_Subset
  <2> QED BY <2>1, <2>2, FS_AddElement DEF Rank
<1>6. ASSUME NEW j \in S
      PROVE  Rank(R, S, j) + 1 \in 1 .. n /\ f[Rank(R, S, j) + 1] = s[j]
  <2> DEFINE k == Rank(R, S, j) + 1
             c == CHOOSE i \in S : Rank(R, S, i) = k - 1
  <2>1. Rank(R, S, j) \in 0 .. n - 1
    BY <1>1, <1>3, RankGrows
  <2>2. k \in 1 .. n /\ k - 1 = Rank(R, S, j)
    BY <1>1, <2>1
  <2>3. c \in S /\ Rank(R, S, c) = Rank(R, S, j)
    BY <2>2
  <2>4. f[k] = s[c]
    BY <1>4, <2>2
  <2> HIDE DEF c, k
  <2>5. ASSUME c # j PROVE FALSE
    <3>1. <<c, j>> \in R \/ <<j, c>> \in R
      BY <1>3, <2>3, <2>5 DEF Orders
    <3>2. Rank(R, S, c) < Rank(R, S, j) \/ Rank(R, S, j) < Rank(R, S, c)
      BY <1>1, <1>3, <2>3, <3>1, RankGrows
    <3> QED BY <2>1, <2>3, <3>2
  <2> QED BY <2>2, <2>4, <2>5 DEF k
<1>7. ASSUME NEW k \in 1 .. n
      PROVE  \E j \in S : Cardinality({i \in S : i <= j}) = k /\ f[k] = s[j]
  <2>1. PICK j \in S : Rank(R, S, j) = k - 1
    BY <1>1, <1>3, RankReached
  <2>2. Cardinality({i \in S : i <= j}) = k
    BY <1>1, <1>5, <2>1
  <2>3. f[Rank(R, S, j) + 1] = s[j] /\ Rank(R, S, j) + 1 = k
    BY <1>1, <1>6, <2>1
  <2> QED BY <2>2, <2>3
<1>8. IsSequence(f) /\ Len(f) = n
  <2>1. f = [k \in 1 .. n |-> f[k]]
    BY <1>4
  <2> QED BY <1>1, <2>1, PlacesMake
<1> QED BY <1>1, <1>5, <1>6, <1>7, <1>8 DEF f

(* and that of the blocks a pattern chooses. *)
LEMMA PatternSame ==
  ASSUME NEW data, AreBytes(data), NEW key, NEW iv, NEW crypt, NEW skip
  PROVE  SameBytes(data, PatternDecrypt(data, key, iv, crypt, skip))
<1> DEFINE number(j) == (j - 1) \div Block
           chosen == {j \in DOMAIN data : /\ number(j) % (crypt + skip) < crypt
                                          /\ (number(j) + 1) * Block <= Len(data)}
           rank(j) == Cardinality({k \in chosen : k <= j})
           some == Filtered(data, chosen)
           plain == CbcDecrypt(some, key, iv)
           t == [j \in DOMAIN data |-> IF j \in chosen THEN plain[rank(j)] ELSE data[j]]
<1>1. chosen \in SUBSET (DOMAIN data)
  OBVIOUS
<1>2. PatternDecrypt(data, key, iv, crypt, skip)
        = IF crypt = 0 THEN data ELSE IF skip = 0 THEN CbcDecrypt(data, key, iv) ELSE t
  BY DEF PatternDecrypt
<1> HIDE DEF chosen
<1>3. /\ IsSequence(some) /\ Len(some) = Cardinality(chosen) /\ Cardinality(chosen) \in Nat
      /\ \A j \in chosen : rank(j) \in 1 .. Cardinality(chosen) /\ some[rank(j)] = data[j]
      /\ \A k \in 1 .. Cardinality(chosen) : \E j \in chosen : some[k] = data[j]
  BY <1>1, FilteredAt, ZenonT(40) DEF AreBytes
<1> HIDE DEF some, rank
<1>4. DOMAIN some = 1 .. Cardinality(chosen)
  BY <1>3, SequenceIs
<1>5. AreBytes(some)
  BY <1>1, <1>3, <1>4 DEF AreBytes
<1>6. SameBytes(some, plain)
  BY <1>5, CbcSame
<1> HIDE DEF plain
<1>7. ASSUME NEW j \in DOMAIN data PROVE IsByte(t[j]) /\ t[j].id = data[j].id
  BY <1>3, <1>4, <1>6 DEF SameBytes, AreBytes
<1>8. t = [j \in DOMAIN data |-> t[j]]
  OBVIOUS
<1> HIDE DEF t
<1>9. SameBytes(data, t)
  BY <1>7, <1>8, BytesMake
<1>10. SameBytes(data, data)
  BY DEF SameBytes
<1> QED BY <1>2, <1>9, <1>10, CbcSame

(* The part of a sample a place is in. *)
LEMMA PartAtIs ==
  ASSUME NEW n \in Nat, NEW subs \in Seq([clear : Nat, enc : Nat]), NEW j \in 1 .. n
  PROVE  LET part == PartAt(n, subs, j) IN
         part.from \in Nat /\ part.to \in Nat /\ part.from < j /\ j <= part.to /\ part.to <= n
<1> DEFINE m == Len(subs)
           sizes == [i \in DOMAIN subs |-> subs[i].clear + subs[i].enc]
           counts == [i \in DOMAIN subs |-> (subs[i].enc + Block - 1) \div Block]
           end == Ends(sizes)
           blocks == Ends(counts)
           i == CHOOSE i \in DOMAIN subs : end[i - 1] < j /\ j <= end[i]
           part == PartAt(n, subs, j)
           P(kind, from, to, k) == [kind |-> kind, from |-> from, to |-> IF to < n THEN to ELSE n,
                                    blocks |-> blocks[k]]
<1>1. m \in Nat /\ DOMAIN subs = 1 .. m /\ \A k \in 1 .. m : subs[k].clear \in Nat /\ subs[k].enc \in Nat
  <2> DEFINE T == [clear : Nat, enc : Nat]
  <2>1. \A x \in T : x.clear \in Nat /\ x.enc \in Nat
    OBVIOUS
  <2>2. subs \in Seq(T)
    OBVIOUS
  <2> HIDE DEF T
  <2>3. m \in Nat /\ DOMAIN subs = 1 .. m /\ \A k \in 1 .. m : subs[k] \in T
    BY <2>2
  <2> QED BY <2>1, <2>3
<1>2. /\ sizes = [k \in 1 .. m |-> sizes[k]]
      /\ \A k \in 1 .. m : sizes[k] \in Nat /\ sizes[k] = subs[k].clear + subs[k].enc
  BY <1>1
<1>3. part = IF end[m] < j THEN P("rest", end[m], n, m)
             ELSE IF j <= end[i - 1] + subs[i].clear
                  THEN P("clear", end[i - 1], end[i - 1] + subs[i].clear, i - 1)
                  ELSE P("protected", end[i - 1] + subs[i].clear, end[i], i - 1)
  BY DEF PartAt
<1> HIDE DEF sizes, blocks, part, m
<1>4. /\ end[0] = 0 /\ \A k \in 1 .. m : end[k] = end[k - 1] + sizes[k]
      /\ \A k \in 0 .. m : end[k] \in Nat
  BY <1>1, <1>2, EndsAre
<1> HIDE DEF end
<1> DEFINE Fits == /\ part.from \in Nat /\ part.to \in Nat /\ part.from < j /\ j <= part.to
                    /\ part.to <= n
<1>5. ASSUME end[m] < j PROVE Fits
  <2>1. part = P("rest", end[m], n, m)
    BY <1>3, <1>5
  <2>2. part.from = end[m] /\ part.to = n
    BY <2>1
  <2> QED BY <1>1, <1>4, <1>5, <2>2
<1>6. ASSUME ~(end[m] < j) PROVE Fits
  <2>1. \A k \in 1 .. m : end[k - 1] <= end[k]
    <3> TAKE k \in 1 .. m
    <3>1. k - 1 \in 0 .. m /\ k \in 0 .. m
      BY <1>1
    <3>2. end[k - 1] \in Nat /\ sizes[k] \in Nat /\ end[k] = end[k - 1] + sizes[k]
      BY <1>1, <1>2, <1>4, <3>1
    <3> QED BY <3>2
  <2>2. j \in 1 .. end[m]
    BY <1>1, <1>4, <1>6
  <2>3. \E k \in 1 .. m : end[k - 1] < j /\ j <= end[k]
    BY <1>1, <1>4, <2>1, <2>2, EndsHold
  <2>4. i \in 1 .. m /\ end[i - 1] < j /\ j <= end[i]
    BY <1>1, <2>3
  <2> HIDE DEF i
  <2>5. end[i - 1] \in Nat /\ end[i] \in Nat /\ subs[i].clear \in Nat /\ subs[i].enc \in Nat
        /\ end[i] = end[i - 1] + (subs[i].clear + subs[i].enc)
    <3>1. i - 1 \in 0 .. m /\ i \in 0 .. m
      BY <1>1, <2>4
    <3> QED BY <1>1, <1>2, <1>4, <2>4, <3>1
  <2> DEFINE c == end[i - 1] + subs[i].clear
  <2>6. c \in Nat /\ c <= end[i]
    <3> DEFINE e == end[i - 1]
               u == subs[i].clear
               v == subs[i].enc
    <3>1. e \in Nat /\ u \in Nat /\ v \in Nat /\ end[i] = e + (u + v) /\ c = e + u
      BY <2>5
    <3> HIDE DEF e, u, v, c
    <3> QED BY <3>1
  <2>7. part = IF j <= c THEN P("clear", end[i - 1], c, i - 1) ELSE P("protected", c, end[i], i - 1)
    BY <1>3, <1>6
  <2> HIDE DEF c
  <2>8. CASE j <= c
    <3>1. part.from = end[i - 1] /\ part.to = IF c < n THEN c ELSE n
      BY <2>7, <2>8
    <3> QED BY <2>4, <2>5, <2>6, <2>8, <3>1
  <2>9. CASE ~(j <= c)
    <3>1. part.from = c /\ part.to = IF end[i] < n THEN end[i] ELSE n
      BY <2>7, <2>9
    <3> QED BY <2>4, <2>5, <2>6, <2>9, <3>1, SMTT(20)
  <2> QED BY <2>8, <2>9
<1> QED BY <1>5, <1>6 DEF part

(* The bytes of a part, which are found in the sample behind its beginning. *)
LEMMA CutIs ==
  ASSUME NEW sample, AreBytes(sample), NEW subs \in Seq([clear : Nat, enc : Nat]),
         NEW j \in DOMAIN sample
  PROVE  LET part == PartAt(Len(sample), subs, j)
             data == Cut(sample, part)
         IN  AreBytes(data) /\ j - part.from \in DOMAIN data /\ data[j - part.from] = sample[j]
<1> DEFINE n == Len(sample)
           part == PartAt(n, subs, j)
           data == Cut(sample, part)
           k == j - part.from
<1>1. n \in Nat /\ DOMAIN sample = 1 .. n /\ IsSequence(sample)
  BY SequenceIs DEF AreBytes
<1>2. part.from \in Nat /\ part.to \in Nat /\ part.from < j /\ j <= part.to /\ part.to <= n
  BY <1>1, PartAtIs
<1>3. data = SubSeq(sample, part.from + 1, part.to)
  BY DEF Cut
<1> HIDE DEF part, data, n
<1>4. part.from <= part.to /\ k \in 1 .. part.to - part.from /\ part.from + k = j
  BY <1>1, <1>2
<1>5. /\ IsSequence(data) /\ DOMAIN data = 1 .. part.to - part.from
      /\ \A i \in 1 .. part.to - part.from : data[i] = sample[part.from + i]
  <2> DEFINE a == part.from
             b == part.to
  <2>1. a \in Nat /\ b \in Nat /\ a <= b /\ b <= Len(sample) /\ IsSequence(sample)
    BY <1>1, <1>2, <1>4 DEF n
  <2> HIDE DEF a, b
  <2>2. LET cut == SubSeq(sample, a + 1, b) IN
        /\ IsSequence(cut) /\ DOMAIN cut = 1 .. b - a
        /\ \A i \in 1 .. b - a : cut[i] = sample[a + i]
    BY ONLY <2>1, PartIs
  <2> QED BY <1>3, <2>2 DEF a, b
<1>6. \A i \in 1 .. part.to - part.from : part.from + i \in DOMAIN sample
  BY <1>1, <1>2
<1>7. AreBytes(data)
  BY <1>5, <1>6 DEF AreBytes
<1>8. data[k] = sample[j]
  BY <1>4, <1>5
<1> QED BY <1>4, <1>5, <1>7, <1>8 DEF data, part, n

(* Decryption changes the masks of the bytes of a sample and nothing else. *)
LEMMA SampleSame ==
  ASSUME NEW sample, AreBytes(sample), NEW info, info.subs \in Seq([clear : Nat, enc : Nat]),
         NEW key, NEW scheme, NEW track
  PROVE  SameBytes(sample, DecryptSample(sample, info, key, scheme, track))
<1> DEFINE part(j) == PartAt(Len(sample), info.subs, j)
           data(j) == Cut(sample, part(j))
           at(j) == j - part(j).from
<1>1. ASSUME NEW j \in DOMAIN sample
      PROVE AreBytes(data(j)) /\ at(j) \in DOMAIN data(j) /\ data(j)[at(j)] = sample[j]
  BY CutIs
<1>2. SameBytes(sample, DecryptCenc(sample, info, key))
  <2> DEFINE t == DecryptCenc(sample, info, key)
  <2>1. t = [j \in DOMAIN sample |->
               IF part(j).kind = "clear" THEN sample[j]
               ELSE CtrDecrypt(data(j), key, info.iv, part(j).blocks)[at(j)]]
    BY DEF DecryptCenc
  <2> HIDE DEF t, part, data, at
  <2>2. ASSUME NEW j \in DOMAIN sample PROVE IsByte(t[j]) /\ t[j].id = sample[j].id
    <3>1. SameBytes(data(j), CtrDecrypt(data(j), key, info.iv, part(j).blocks))
      BY <1>1, CtrSame
    <3> QED BY <1>1, <2>1, <3>1 DEF SameBytes, AreBytes
  <2>3. t = [j \in DOMAIN sample |-> t[j]]
    BY <2>1
  <2> QED BY <2>2, <2>3, BytesMake DEF t
<1>3. SameBytes(sample, DecryptCbc1(sample, info, key))
  <2> DEFINE t == [j \in DOMAIN sample |->
                     IF part(j).kind # "protected" THEN sample[j]
                     ELSE CbcDecrypt(data(j), key, info.iv)[at(j)]]
  <2>1. DecryptCbc1(sample, info, key)
          = IF info.subs = <<>> THEN CbcDecrypt(sample, key, info.iv) ELSE t
    BY DEF DecryptCbc1
  <2> HIDE DEF part, data, at
  <2>2. ASSUME NEW j \in DOMAIN sample PROVE IsByte(t[j]) /\ t[j].id = sample[j].id
    <3>1. SameBytes(data(j), CbcDecrypt(data(j), key, info.iv))
      BY <1>1, CbcSame
    <3> QED BY <1>1, <3>1 DEF SameBytes, AreBytes
  <2>3. t = [j \in DOMAIN sample |-> t[j]]
    OBVIOUS
  <2> HIDE DEF t
  <2> QED BY <2>1, <2>2, <2>3, BytesMake, CbcSame
<1>4. SameBytes(sample, DecryptCbcs(sample, info, key, track))
  <2> DEFINE iv == IF track.civ # None THEN track.civ ELSE info.iv
             t == [j \in DOMAIN sample |->
                     IF part(j).kind # "protected" THEN sample[j]
                     ELSE PatternDecrypt(data(j), key, iv, track.crypt, track.skip)[at(j)]]
  <2>1. DecryptCbcs(sample, info, key, track)
          = IF info.subs = <<>> THEN PatternDecrypt(sample, key, iv, track.crypt, track.skip) ELSE t
    BY DEF DecryptCbcs
  <2> HIDE DEF part, data, at, iv
  <2>2. ASSUME NEW j \in DOMAIN sample PROVE IsByte(t[j]) /\ t[j].id = sample[j].id
    <3>1. SameBytes(data(j), PatternDecrypt(data(j), key, iv, track.crypt, track.skip))
      BY <1>1, PatternSame
    <3> QED BY <1>1, <3>1 DEF SameBytes, AreBytes
  <2>3. t = [j \in DOMAIN sample |-> t[j]]
    OBVIOUS
  <2> HIDE DEF t
  <2> QED BY <2>1, <2>2, <2>3, BytesMake, PatternSame
<1> QED BY <1>2, <1>3, <1>4 DEF DecryptSample

(* What a moof says of a track. *)
TrackOk(track) ==
  /\ track.offset \in Int /\ track.size \in Nat /\ track.sizes \in Seq(Nat)
  /\ IsSequence(track.info)
  /\ \A i \in DOMAIN track.info : track.info[i].subs \in Seq([clear : Nat, enc : Nat])
TracksOk(tracks) == IsSequence(tracks) /\ \A k \in DOMAIN tracks : TrackOk(tracks[k])

(* The samples of a track follow each other from where the track begins. *)
LEMMA SampleEndsAre ==
  ASSUME NEW track, TrackOk(track), NEW first \in Int, first <= track.offset
  PROVE  LET end == SampleEnds(track, first)
             n == Len(track.info)
         IN  /\ n \in Nat /\ DOMAIN track.info = 1 .. n
             /\ end[0] = track.offset - first
             /\ \A i \in 0 .. n : end[i] \in Nat
             /\ \A i \in 1 .. n : end[i - 1] <= end[i]
             /\ \A i \in 1 .. n : end[i] = end[i - 1] + IF i \in DOMAIN track.sizes /\ track.sizes[i] # 0
                                                        THEN track.sizes[i] ELSE track.size
<1> DEFINE n == Len(track.info)
           size(i) == IF i \in DOMAIN track.sizes /\ track.sizes[i] # 0
                      THEN track.sizes[i] ELSE track.size
           sizes == [i \in DOMAIN track.info |-> size(i)]
           sum == Ends(sizes)
           end == SampleEnds(track, first)
           start == track.offset - first
<1>1. n \in Nat /\ DOMAIN track.info = 1 .. n /\ start \in Nat
  BY SequenceIs DEF TrackOk
<1>2. ASSUME NEW i PROVE size(i) \in Nat
  <2>1. track.size \in Nat /\ \A k \in DOMAIN track.sizes : track.sizes[k] \in Nat
    BY DEF TrackOk
  <2> QED BY <2>1
<1>3. end = [i \in 0 .. n |-> start + sum[i]]
  BY DEF SampleEnds
<1>4. sizes = [i \in 1 .. n |-> sizes[i]] /\ \A i \in 1 .. n : sizes[i] = size(i)
  BY <1>1
<1> HIDE DEF end, sizes, size
<1>5. \A i \in 1 .. n : sizes[i] \in Nat
  BY <1>2, <1>4
<1>6. /\ sum[0] = 0 /\ \A i \in 1 .. n : sum[i] = sum[i - 1] + sizes[i]
      /\ \A i \in 0 .. n : sum[i] \in Nat
  BY <1>1, <1>4, <1>5, EndsAre, ZenonT(40)
<1> HIDE DEF sum, start, n
<1>7. \A i \in 0 .. n : end[i] = start + sum[i]
  BY <1>3
<1>8. 0 \in 0 .. n /\ \A i \in 1 .. n : i \in 0 .. n /\ i - 1 \in 0 .. n
  BY <1>1
<1>9. end[0] = start /\ \A i \in 0 .. n : end[i] \in Nat
  BY <1>1, <1>6, <1>7, <1>8, SMTT(20)
<1>10. ASSUME NEW i \in 1 .. n PROVE end[i] = end[i - 1] + size(i) /\ end[i - 1] <= end[i]
  <2>1. /\ end[i] = start + sum[i] /\ end[i - 1] = start + sum[i - 1]
        /\ sum[i] = sum[i - 1] + size(i)
    BY <1>4, <1>6, <1>7, <1>8
  <2>2. sum[i - 1] \in Nat /\ size(i) \in Nat
    BY <1>2, <1>6, <1>8
  <2> QED BY <1>1, <2>1, <2>2
<1> QED BY <1>1, <1>9, <1>10 DEF end, n, start, size

(* The places of the samples that are written to one byte, and the last of  *)
(* them to be written.                                                      *)
Later(tracks, k, j) == \/ tracks[j].offset < tracks[k].offset
                       \/ tracks[j].offset = tracks[k].offset /\ j < k

(* One of some tracks is written last. *)
LEMMA LastWritten ==
  ASSUME NEW tracks, TracksOk(tracks), NEW K \in SUBSET (DOMAIN tracks), K # {}
  PROVE  \E k \in K : \A j \in K \ {k} : Later(tracks, k, j)
<1> DEFINE R == {e \in K \X K : Later(tracks, e[1], e[2])}
<1>1. \A k, j \in K : <<k, j>> \in R <=> Later(tracks, k, j)
  OBVIOUS
<1>2. IsFiniteSet(K) /\ K \in SUBSET Nat /\ \A k \in K : tracks[k].offset \in Int
  <2>1. DOMAIN tracks = 1 .. Len(tracks) /\ Len(tracks) \in Nat
    BY SequenceIs DEF TracksOk
  <2>2. IsFiniteSet(1 .. Len(tracks))
    BY <2>1, FS_Interval
  <2> QED BY <2>1, <2>2, FS_Subset DEF TracksOk, TrackOk
<1> HIDE DEF R
<1>3. Orders(R, K)
  <2>1. \A i \in K : ~Later(tracks, i, i)
    BY <1>2 DEF Later
  <2>2. \A i, j \in K : i # j => Later(tracks, i, j) \/ Later(tracks, j, i)
    BY <1>2 DEF Later
  <2>3. \A i, j, k \in K : Later(tracks, i, j) /\ Later(tracks, j, k) => Later(tracks, i, k)
    BY <1>2 DEF Later
  <2> QED BY <1>1, <2>1, <2>2, <2>3 DEF Orders
<1>4. PICK k \in K : \A j \in K \ {k} : <<k, j>> \in R
  BY <1>2, <1>3, FirstIs
<1> QED BY <1>1, <1>4

(* What decrypting the i-th sample of the k-th track makes of it. *)
PlainAt(d, body, k, i) ==
  DecryptSample(SubSeq(body, EndAt(d.tracks, k, i - 1) + 1, EndAt(d.tracks, k, i)),
                d.tracks[k].info[i], d.tracks[k].key, d.scheme, d.tracks[k].enc)

(* A fragment begins with the first of its tracks. *)
LEMMA FirstOffsetIs ==
  ASSUME NEW tracks, TracksOk(tracks), NEW k \in DOMAIN tracks
  PROVE  FirstOffset(tracks) \in Int /\ FirstOffset(tracks) <= tracks[k].offset
<1> DEFINE n == Len(tracks)
           O == {tracks[j].offset : j \in DOMAIN tracks}
           f == [j \in 1 .. n |-> tracks[j].offset]
<1>1. n \in Nat /\ DOMAIN tracks = 1 .. n /\ \A j \in 1 .. n : tracks[j].offset \in Int
  BY SequenceIs DEF TracksOk, TrackOk
<1>2. IsFiniteSet(1 .. n)
  BY <1>1, FS_Interval
<1>3. f \in Surjection(1 .. n, O)
  BY <1>1 DEF Surjection
<1>4. O \in SUBSET Int /\ tracks[k].offset \in O
  BY <1>1
<1> HIDE DEF f, n, O
<1>5. IsFiniteSet(O)
  BY <1>2, <1>3, FS_Surjection
<1> QED BY <1>4, <1>5, LeastIs DEF FirstOffset, O

(* A byte of an mdat is that of the last sample that is written to it, or   *)
(* what it was.                                                             *)
LEMMA BodyAt ==
  ASSUME NEW d, TracksOk(d.tracks), NEW body, AreBytes(body), NEW p \in DOMAIN body
  PROVE  \/ /\ DecryptBody(d, body)[p] = body[p]
            /\ \A k \in DOMAIN d.tracks : ~Writes(d, Len(body), k, p)
         \/ \E k \in DOMAIN d.tracks : \E i \in DOMAIN d.tracks[k].info :
              /\ d.tracks[k].key # None
              /\ FitsAt(d.tracks, Len(body), k, i, p)
              /\ \A j \in DOMAIN d.tracks : Writes(d, Len(body), j, p) => j = k \/ Later(d.tracks, k, j)
              /\ DecryptBody(d, body)[p] = PlainAt(d, body, k, i)[p - EndAt(d.tracks, k, i - 1)]
<1> DEFINE tracks == d.tracks
           n == Len(body)
           Over == {k \in DOMAIN tracks : Writes(d, n, k, p)}
           last == CHOOSE k \in Over : \A j \in Over \ {k} : Later(tracks, k, j)
           at(k) == CHOOSE i \in DOMAIN tracks[k].info : FitsAt(tracks, n, k, i, p)
<1>1. DecryptBody(d, body)[p]
        = IF Over = {} THEN body[p]
          ELSE PlainAt(d, body, last, at(last))[p - EndAt(tracks, last, at(last) - 1)]
  <2> DEFINE first == Least({tracks[k].offset : k \in DOMAIN tracks})
             ends == [k \in DOMAIN tracks |-> SampleEnds(tracks[k], first)]
             Fits(k, i) == ends[k][i - 1] < p /\ p <= ends[k][i] /\ ends[k][i] <= n
             Ov == {k \in DOMAIN tracks : /\ tracks[k].key # None
                                          /\ \E i \in DOMAIN tracks[k].info : Fits(k, i)}
             Final(K) == CHOOSE k \in K : \A j \in K \ {k} : \/ tracks[j].offset < tracks[k].offset
                                                             \/ tracks[j].offset = tracks[k].offset /\ j < k
             Result(k, i) == DecryptSample(SubSeq(body, ends[k][i - 1] + 1, ends[k][i]),
                                           tracks[k].info[i], tracks[k].key, d.scheme, tracks[k].enc)
             c(k) == CHOOSE i \in DOMAIN tracks[k].info : Fits(k, i)
             Byte(k) == Result(k, c(k))[p - ends[k][c(k) - 1]]
  <2>1. DecryptBody(d, body)[p] = IF Ov = {} THEN body[p] ELSE Byte(Final(Ov))
    BY DEF DecryptBody
  <2>2. ASSUME NEW k \in DOMAIN tracks, NEW i PROVE ends[k][i] = EndAt(tracks, k, i)
    BY DEF EndAt, FirstOffset
  <2> HIDE DEF ends
  <2>3. ASSUME NEW k \in DOMAIN tracks, NEW i PROVE Fits(k, i) <=> FitsAt(tracks, n, k, i, p)
    BY <2>2 DEF FitsAt
  <2> HIDE DEF Fits
  <2>4. Ov = Over
    BY <2>3 DEF Writes
  <2>5. Final(Over) = last
    BY DEF Later
  <2>6. ASSUME NEW k \in DOMAIN tracks PROVE c(k) = at(k)
    BY <2>3
  <2>7. ASSUME NEW k \in DOMAIN tracks PROVE Byte(k) = PlainAt(d, body, k, at(k))[p - EndAt(tracks, k, at(k) - 1)]
    BY <2>2, <2>6 DEF PlainAt
  <2> HIDE DEF Ov, Final, Byte, c, at
  <2>8. CASE Over = {}
    BY <2>1, <2>4, <2>8
  <2>9. CASE Over # {}
    <3>1. last \in DOMAIN tracks
      <4>1. Over \in SUBSET (DOMAIN tracks)
        OBVIOUS
      <4> HIDE DEF Over
      <4>2. \E k \in Over : \A j \in Over \ {k} : Later(tracks, k, j)
        BY <2>9, <4>1, LastWritten
      <4> QED BY <4>1, <4>2
    <3> HIDE DEF last, Over
    <3> QED BY <2>1, <2>4, <2>5, <2>7, <2>9, <3>1
  <2> QED BY <2>8, <2>9
<1>2. ASSUME Over # {}
      PROVE  /\ last \in Over /\ \A j \in Over : j = last \/ Later(tracks, last, j)
             /\ at(last) \in DOMAIN tracks[last].info /\ FitsAt(tracks, n, last, at(last), p)
  <2>1. Over \in SUBSET (DOMAIN tracks)
    OBVIOUS
  <2>2. \A k \in Over : Writes(d, n, k, p)
    OBVIOUS
  <2> HIDE DEF Over
  <2>3. \E k \in Over : \A j \in Over \ {k} : Later(tracks, k, j)
    BY <1>2, <2>1, LastWritten
  <2>4. last \in Over /\ \A j \in Over \ {last} : Later(tracks, last, j)
    BY <2>3
  <2> HIDE DEF last
  <2>5. \E i \in DOMAIN tracks[last].info : FitsAt(tracks, n, last, i, p)
    BY <2>2, <2>4 DEF Writes
  <2>6. at(last) \in DOMAIN tracks[last].info /\ FitsAt(tracks, n, last, at(last), p)
    BY <2>5
  <2> QED BY <2>4, <2>6
<1>3. \A k \in DOMAIN tracks : k \in Over <=> Writes(d, n, k, p)
  OBVIOUS
<1>4. Over \in SUBSET (DOMAIN tracks) /\ \A k \in Over : tracks[k].key # None
  BY DEF Writes
<1> HIDE DEF Over, last, at
<1>5. CASE Over = {}
  BY <1>1, <1>3, <1>5
<1>6. CASE Over # {}
  <2>1. last \in DOMAIN d.tracks /\ d.tracks[last].key # None
    BY <1>2, <1>4, <1>6
  <2>2. /\ at(last) \in DOMAIN d.tracks[last].info
        /\ FitsAt(d.tracks, Len(body), last, at(last), p)
    BY <1>2, <1>6
  <2>3. \A j \in DOMAIN d.tracks : Writes(d, Len(body), j, p) => j = last \/ Later(d.tracks, last, j)
    BY <1>2, <1>3, <1>6
  <2>4. DecryptBody(d, body)[p]
          = PlainAt(d, body, last, at(last))[p - EndAt(d.tracks, last, at(last) - 1)]
    BY <1>1, <1>6
  <2> QED BY <2>1, <2>2, <2>3, <2>4
<1> QED BY <1>5, <1>6

(* The mdat keeps its bytes, in their places. *)
LEMMA BodySame ==
  ASSUME NEW d, TracksOk(d.tracks), NEW body, AreBytes(body)
  PROVE  SameBytes(body, DecryptBody(d, body))
<1> DEFINE t == DecryptBody(d, body)
           n == Len(body)
<1>1. n \in Nat /\ DOMAIN body = 1 .. n /\ IsSequence(body)
  BY SequenceIs DEF AreBytes
<1>2. t = [p \in DOMAIN body |-> t[p]]
  <2> DEFINE tracks == d.tracks
             first == Least({tracks[k].offset : k \in DOMAIN tracks})
             ends == [k \in DOMAIN tracks |-> SampleEnds(tracks[k], first)]
             Fits(k, i, p) == ends[k][i - 1] < p /\ p <= ends[k][i] /\ ends[k][i] <= Len(body)
             Over(p) == {k \in DOMAIN tracks : /\ tracks[k].key # None
                                               /\ \E i \in DOMAIN tracks[k].info : Fits(k, i, p)}
             Final(K) == CHOOSE k \in K : \A j \in K \ {k} : \/ tracks[j].offset < tracks[k].offset
                                                             \/ tracks[j].offset = tracks[k].offset /\ j < k
             Result(k, i) == DecryptSample(SubSeq(body, ends[k][i - 1] + 1, ends[k][i]),
                                           tracks[k].info[i], tracks[k].key, d.scheme, tracks[k].enc)
             Sample(k, p) == CHOOSE i \in DOMAIN tracks[k].info : Fits(k, i, p)
             Byte(k, p) == Result(k, Sample(k, p))[p - ends[k][Sample(k, p) - 1]]
             Place(p) == IF Over(p) = {} THEN body[p] ELSE Byte(Final(Over(p)), p)
  <2>1. t = [p \in DOMAIN body |-> Place(p)]
    BY DEF DecryptBody
  <2> HIDE DEF Place, t
  <2> QED BY <2>1
<1> HIDE DEF t
<1>3. ASSUME NEW p \in DOMAIN body PROVE IsByte(t[p]) /\ t[p].id = body[p].id
  <2>1. CASE t[p] = body[p]
    BY <2>1 DEF AreBytes
  <2>2. ASSUME NEW k \in DOMAIN d.tracks, NEW i \in DOMAIN d.tracks[k].info,
               FitsAt(d.tracks, n, k, i, p),
               t[p] = PlainAt(d, body, k, i)[p - EndAt(d.tracks, k, i - 1)]
        PROVE  IsByte(t[p]) /\ t[p].id = body[p].id
    <3> DEFINE from == EndAt(d.tracks, k, i - 1)
               to == EndAt(d.tracks, k, i)
               data == SubSeq(body, from + 1, to)
               plain == PlainAt(d, body, k, i)
    <3>1. TrackOk(d.tracks[k]) /\ FirstOffset(d.tracks) \in Int
          /\ FirstOffset(d.tracks) <= d.tracks[k].offset
      BY <2>2, FirstOffsetIs DEF TracksOk
    <3>2. from \in Nat /\ to \in Nat
      <4> DEFINE m == Len(d.tracks[k].info)
                 end == SampleEnds(d.tracks[k], FirstOffset(d.tracks))
      <4>1. m \in Nat /\ DOMAIN d.tracks[k].info = 1 .. m /\ \A j \in 0 .. m : end[j] \in Nat
        BY <3>1, SampleEndsAre
      <4> HIDE DEF m, end
      <4>2. i \in 0 .. m /\ i - 1 \in 0 .. m
        BY <2>2, <4>1
      <4> QED BY <4>1, <4>2 DEF EndAt, end
    <3>3. from < p /\ p <= to /\ to <= n
      BY <2>2 DEF FitsAt
    <3> HIDE DEF from, to
    <3>4. /\ IsSequence(data) /\ DOMAIN data = 1 .. to - from
          /\ \A j \in 1 .. to - from : data[j] = body[from + j]
      <4>1. from <= to
        BY <1>1, <3>2, <3>3
      <4> QED BY <1>1, <3>2, <3>3, <4>1, PartIs
    <3>5. /\ \A j \in 1 .. to - from : from + j \in DOMAIN body
          /\ p - from \in 1 .. to - from /\ from + (p - from) = p
      BY <1>1, <3>2, <3>3
    <3> HIDE DEF data, n
    <3>6. AreBytes(data)
      BY <3>4, <3>5 DEF AreBytes
    <3>7. plain = DecryptSample(data, d.tracks[k].info[i], d.tracks[k].key, d.scheme, d.tracks[k].enc)
      BY DEF PlainAt, data, from, to
    <3>8. SameBytes(data, plain)
      BY <2>2, <3>1, <3>6, <3>7, SampleSame DEF TrackOk
    <3> HIDE DEF plain
    <3>9. p - from \in DOMAIN data /\ data[p - from] = body[p]
      BY <3>4, <3>5
    <3>10. t[p] = plain[p - from]
      BY <2>2 DEF plain, from
    <3> QED BY <3>8, <3>9, <3>10 DEF SameBytes, AreBytes
  <2> QED BY <2>1, <2>2, BodyAt DEF t
<1> QED BY <1>2, <1>3, BytesMake DEF t

-----------------------------------------------------------------------------
(* The state of the decrypter *)

(* What the decrypter knows is of the right kind. *)
DecOk(d) ==
  /\ {"overhead", "tracks", "sizes", "defaultSize"} \subseteq DOMAIN d
  /\ {"keys", "kids", "settings", "scheme", "ivSize", "civ", "crypt", "skip"} \subseteq DOMAIN d
  /\ d.defaultSize \in Nat /\ d.sizes \in Seq(Nat) /\ TracksOk(d.tracks)

(* Reading a trak leaves the fragments' part of the state alone. *)
LEMMA ReadTrakKeeps ==
  ASSUME NEW d, DecOk(d), NEW trak
  PROVE  DecOk(ReadTrak(d, trak))
<1> DEFINE Alike(e) == /\ DOMAIN e = DOMAIN d /\ e.defaultSize = d.defaultSize
                       /\ e.sizes = d.sizes /\ e.tracks = d.tracks
           at == [d EXCEPT !.track = trak.id]
           schemed == IF trak.scheme = None THEN at ELSE [at EXCEPT !.scheme = trak.scheme]
<1>1. Alike(at)
  BY DEF DecOk
<1>2. Alike(schemed)
  <2> HIDE DEF at
  <2> QED BY <1>1 DEF DecOk
<1>3. ReadTrak(d, trak) = IF trak.tenc = None THEN schemed ELSE ParseTenc(schemed, trak.tenc)
  BY DEF ReadTrak
<1> HIDE DEF schemed
<1>4. Alike(ParseTenc(schemed, trak.tenc))
  <2> USE <1>2 DEF DecOk
  <2>1. /\ DOMAIN schemed = DOMAIN d
        /\ {"overhead", "tracks", "sizes", "defaultSize"} \subseteq DOMAIN schemed
    OBVIOUS
  <2>2. DOMAIN ParseTenc(schemed, trak.tenc) = DOMAIN schemed
    BY DEF ParseTenc
  <2>3. \A x \in {"tracks", "sizes", "defaultSize"} : ParseTenc(schemed, trak.tenc)[x] = schemed[x]
    BY <2>1 DEF ParseTenc
  <2> QED BY <2>2, <2>3
<1>5. Alike(ReadTrak(d, trak))
  BY <1>2, <1>3, <1>4
<1> QED BY <1>5 DEF DecOk

(* g is the reading of the first n children of a moov, as ReadTraks defines *)
(* it.                                                                      *)
ReadOn(d, children, i) == IF children[i].kind = "trak" THEN ReadTrak(d, children[i]) ELSE d
Reads(g, d, children, n) ==
  g = [i \in 0 .. n |-> IF i = 0 THEN d ELSE ReadOn(g[i - 1], children, i)]

(* Reading trak after trak is defined, by induction over the numbers. *)
LEMMA ReadsExist ==
  ASSUME NEW n \in Nat, NEW d, NEW children
  PROVE  \E g : Reads(g, d, children, n)
<1> DEFINE S == {m \in Nat : \E g : Reads(g, d, children, m)}
<1>1. 0 \in S
  <2>1. Reads([i \in 0 .. 0 |-> d], d, children, 0)
    BY DEF Reads
  <2> QED BY <2>1
<1>2. ASSUME NEW m \in S PROVE m + 1 \in S
  <2>1. PICK g : Reads(g, d, children, m)
    OBVIOUS
  <2> DEFINE h == [i \in 0 .. m + 1 |-> IF i = m + 1 THEN ReadOn(g[m], children, i) ELSE g[i]]
  <2>2. m \in Nat
    OBVIOUS
  <2>3. \A i \in 0 .. m : h[i] = g[i]
    BY <2>2
  <2>4. \A i \in 0 .. m : g[i] = IF i = 0 THEN d ELSE ReadOn(g[i - 1], children, i)
    BY <2>1 DEF Reads
  <2>5. \A i \in 0 .. m + 1 : h[i] = IF i = 0 THEN d ELSE ReadOn(h[i - 1], children, i)
    <3> TAKE i \in 0 .. m + 1
    <3>1. CASE i = m + 1
      <4>1. i # 0 /\ i - 1 = m /\ h[m] = g[m]
        BY <2>2, <2>3, <3>1
      <4> QED BY <3>1, <4>1
    <3>2. CASE i # m + 1
      <4>1. i \in 0 .. m /\ (i # 0 => i - 1 \in 0 .. m)
        BY <2>2, <3>2
      <4> QED BY <2>3, <2>4, <4>1
    <3> QED BY <3>1, <3>2
  <2>6. h = [i \in 0 .. m + 1 |-> h[i]]
    OBVIOUS
  <2> HIDE DEF h
  <2>7. Reads(h, d, children, m + 1)
    BY <2>5, <2>6 DEF Reads
  <2> QED BY <2>2, <2>7
<1> HIDE DEF S
<1>3. S = Nat
  BY <1>1, <1>2, SetInduction DEF S
<1> QED BY <1>3 DEF S

(* Reading the traks of a moov leaves a decrypter in order. *)
LEMMA ReadTraksKeeps ==
  ASSUME NEW d, DecOk(d), NEW children, Len(children) \in Nat
  PROVE  DecOk(ReadTraks(d, children, Len(children)))
<1> DEFINE n == Len(children)
           f == CHOOSE g : Reads(g, d, children, n)
<1>1. Reads(f, d, children, n)
  BY ReadsExist
<1>2. ReadTraks(d, children, n) = f[n]
  BY DEF ReadTraks, Reads, ReadOn
<1> HIDE DEF f, n
<1>3. n \in Nat
  BY DEF n
<1> DEFINE S == {m \in Nat : m \in 0 .. n => DecOk(f[m])}
<1>4. 0 \in S
  BY <1>1, <1>3 DEF Reads
<1>5. ASSUME NEW m \in S PROVE m + 1 \in S
  <2> SUFFICES ASSUME m + 1 \in 0 .. n PROVE DecOk(f[m + 1])
    OBVIOUS
  <2>1. m + 1 \in 0 .. n /\ m + 1 # 0 /\ (m + 1) - 1 = m /\ m \in 0 .. n
    BY <1>3
  <2>2. \A i \in 0 .. n : f[i] = IF i = 0 THEN d ELSE ReadOn(f[i - 1], children, i)
    BY <1>1 DEF Reads
  <2>3. f[m + 1] = ReadOn(f[m], children, m + 1) /\ DecOk(f[m])
    BY <2>1, <2>2
  <2> QED BY <2>3, ReadTrakKeeps DEF ReadOn
<1> HIDE DEF S
<1>6. S = Nat
  BY <1>4, <1>5, SetInduction DEF S
<1>7. DecOk(f[n])
  BY <1>3, <1>6 DEF S
<1> QED BY <1>2, <1>7 DEF n

(* A new decrypter is in order. *)
LEMMA NewDecrypterOk ==
  ASSUME NEW keys
  PROVE  DecOk(NewDecrypter(keys))
<1>1. <<>> \in Seq(Nat) /\ IsSequence(<<>>) /\ DOMAIN <<>> = {}
  BY EmptySeq DEF IsSequence
<1> QED BY <1>1 DEF DecOk, NewDecrypter, TracksOk

(* The init segment primes a decrypter and adds no fragment. *)
LEMMA ProcessInitIs ==
  ASSUME NEW d, DecOk(d), NEW boxes, IsSequence(boxes),
         \A i \in DOMAIN boxes : IsBox(boxes[i])
  PROVE  LET init == ProcessInit(d, boxes) IN
         /\ DecOk(init.dec)
         /\ IsSequence(init.boxes) /\ DOMAIN init.boxes = DOMAIN boxes
         /\ \A i \in DOMAIN boxes : boxes[i].type # "moov" => init.boxes[i] = boxes[i]
         /\ \A i \in DOMAIN boxes : boxes[i].type = "moov" => init.boxes[i].type = "moov"
<1> DEFINE at == SelectInSeq(boxes, LAMBDA b : b.type = "moov")
           I == {i \in 1 .. Len(boxes) : boxes[i].type = "moov"}
           init == ProcessInit(d, boxes)
           box == ProcessMoov(d, boxes[at]).box
<1>1. Len(boxes) \in Nat /\ DOMAIN boxes = 1 .. Len(boxes) /\ I \in SUBSET Nat /\ 0 \notin I
  BY SequenceIs
<1>2. at = IF I = {} THEN 0 ELSE CHOOSE x \in I : \A y \in I : x <= y
  <2>1. at = IF I # {} THEN Min(I) ELSE 0
    BY DEF SelectInSeq
  <2> QED BY <2>1 DEF Min
<1>3. IsFiniteSet(I)
  <2>1. IsFiniteSet(1 .. Len(boxes))
    BY <1>1, FS_Interval
  <2> QED BY <2>1, FS_Subset
<1>4. I # {} => at \in I
  <2>1. Least(I) = CHOOSE x \in I : \A y \in I : x <= y
    BY DEF Least
  <2>2. at = IF I = {} THEN 0 ELSE Least(I)
    BY <1>2, <2>1
  <2> HIDE DEF at, I
  <2>3. I \in SUBSET Int
    BY <1>1
  <2> QED BY <1>3, <2>2, <2>3, LeastIs
<1>5. init = IF at = 0 THEN [dec |-> d, boxes |-> boxes]
             ELSE [dec |-> ProcessMoov(d, boxes[at]).dec,
                   boxes |-> [j \in DOMAIN boxes |-> IF boxes[j].type = "moov" THEN box ELSE boxes[j]]]
  BY DEF ProcessInit
<1> HIDE DEF at, init
<1>6. CASE I = {}
  <2>1. init = [dec |-> d, boxes |-> boxes]
    BY <1>2, <1>5, <1>6
  <2> QED BY <1>1, <1>6, <2>1 DEF init
<1>7. CASE I # {}
  <2>1. at # 0 /\ at \in DOMAIN boxes /\ boxes[at].type = "moov" /\ IsSequence(boxes[at].body)
    BY <1>1, <1>4, <1>7 DEF IsBox
  <2>2. Len(boxes[at].body) \in Nat
    BY <2>1, SequenceIs
  <2>3. ProcessMoov(d, boxes[at]).dec = ReadTraks(d, boxes[at].body, Len(boxes[at].body))
    BY DEF ProcessMoov
  <2>4. DecOk(ProcessMoov(d, boxes[at]).dec)
    BY <2>2, <2>3, ReadTraksKeeps
  <2>5. box.type = "moov"
    <3>1. \E b : box = [boxes[at] EXCEPT !.body = b]
      BY DEF ProcessMoov
    <3>2. boxes[at] = [type |-> boxes[at].type, form |-> boxes[at].form, body |-> boxes[at].body]
      BY <2>1 DEF IsBox
    <3> HIDE DEF box
    <3>3. box.type = boxes[at].type
      BY <3>1, <3>2
    <3> QED BY <2>1, <3>3
  <2> HIDE DEF box
  <2> DEFINE new == [j \in DOMAIN boxes |-> IF boxes[j].type = "moov" THEN box ELSE boxes[j]]
  <2>6. init.dec = ProcessMoov(d, boxes[at]).dec /\ init.boxes = new
    BY <1>5, <2>1
  <2>7. /\ \A i \in DOMAIN boxes : boxes[i].type # "moov" => new[i] = boxes[i]
        /\ \A i \in DOMAIN boxes : boxes[i].type = "moov" => new[i].type = "moov"
    BY <2>5
  <2>8. new = [j \in 1 .. Len(boxes) |-> new[j]]
    BY <1>1
  <2> HIDE DEF new, I
  <2>9. IsSequence(new) /\ DOMAIN new = DOMAIN boxes
    BY <1>1, <2>8, PlacesMake
  <2> QED BY <2>4, <2>6, <2>7, <2>9 DEF init
<1> QED BY <1>6, <1>7

(* The children of a moof. *)
MoofOk(moof) == IsBox(moof) /\ \A c \in ToSet(moof.body) : IsChild(c)

(* The last child of a kind in some trafs is one. *)
LEMMA LastChild ==
  ASSUME NEW body, IsSequence(body), NEW S \in SUBSET (DOMAIN body), S # {}
  PROVE  Greatest(S) \in S /\ body[Greatest(S)] \in ToSet(body)
<1>1. DOMAIN body = 1 .. Len(body) /\ Len(body) \in Nat
  BY SequenceIs
<1>2. IsFiniteSet(1 .. Len(body))
  BY <1>1, FS_Interval
<1>3. S \in SUBSET Nat /\ IsFiniteSet(S)
  BY <1>1, <1>2, FS_Subset
<1>4. Greatest(S) \in S
  BY <1>3, GreatestIs
<1> QED BY <1>1, <1>4, SequenceIs

(* The sizes that process_trun and parse_tfhd leave are numbers. *)
LEMMA SizesAre ==
  ASSUME NEW d, DecOk(d), NEW body, IsSequence(body), \A c \in ToSet(body) : IsChild(c), NEW trafs
  PROVE  /\ SampleSizes(d, body, Children(body, trafs, "trun")) \in Seq(Nat)
         /\ DefaultSize(d, body, Children(body, trafs, "tfhd")) \in Nat
<1>1. SampleSizes(d, body, Children(body, trafs, "trun")) \in Seq(Nat)
  <2> DEFINE S == Children(body, trafs, "trun")
  <2> SUFFICES SampleSizes(d, body, S) \in Seq(Nat)
    OBVIOUS
  <2>1. S \in SUBSET (DOMAIN body) /\ \A i \in S : body[i].kind = "trun"
    BY DEF Children
  <2> HIDE DEF S
  <2>2. CASE S = {}
    BY <2>2 DEF SampleSizes, DecOk
  <2>3. CASE S # {}
    <3>1. Greatest(S) \in S /\ body[Greatest(S)] \in ToSet(body)
      BY <2>1, <2>3, LastChild
    <3> DEFINE c == body[Greatest(S)]
    <3>2. IsChild(c) /\ c.kind = "trun"
      BY <2>1, <3>1
    <3>3. SampleSizes(d, body, S) = c.sizes
      BY <2>3 DEF SampleSizes
    <3> HIDE DEF c
    <3> QED BY <3>2, <3>3 DEF IsChild
  <2> QED BY <2>2, <2>3
<1>2. DefaultSize(d, body, Children(body, trafs, "tfhd")) \in Nat
  <2> DEFINE T == Children(body, trafs, "tfhd")
             S == {i \in T : body[i].size # 0}
  <2>1. S \in SUBSET (DOMAIN body) /\ \A i \in S : body[i].kind = "tfhd"
    BY DEF Children
  <2>2. DefaultSize(d, body, T) = IF S = {} THEN d.defaultSize ELSE body[Greatest(S)].size
    BY DEF DefaultSize
  <2> HIDE DEF S
  <2>3. CASE S = {}
    BY <2>2, <2>3 DEF DecOk
  <2>4. CASE S # {}
    <3>1. Greatest(S) \in S /\ body[Greatest(S)] \in ToSet(body)
      BY <2>1, <2>4, LastChild
    <3> DEFINE c == body[Greatest(S)]
    <3>2. IsChild(c) /\ c.kind = "tfhd"
      BY <2>1, <3>1
    <3>3. DefaultSize(d, body, T) = c.size
      BY <2>2, <2>4
    <3> HIDE DEF c, T
    <3> QED BY <3>2, <3>3 DEF IsChild, T
  <2> QED BY <2>3, <2>4
<1> QED BY <1>1, <1>2

(* What the moof says of a traf. *)
LEMMA TrackInfoIs ==
  ASSUME NEW d, DecOk(d), NEW body, IsSequence(body), \A c \in ToSet(body) : IsChild(c), NEW t \in Nat
  PROVE  TrackOk(TrackInfo(d, body, t))
<1> DEFINE Own(kind) == Children(body, {t}, kind)
           SoFar(kind) == Children(body, 1 .. t, kind)
           Final(kind) == body[Greatest(Own(kind))]
           offset == IF Own("trun") = {} THEN 0 ELSE Final("trun").offset
           sizes == SampleSizes(d, body, SoFar("trun"))
           info == IF Own("senc") = {} THEN <<>> ELSE ParseSenc(d, Final("senc"))
           size == IF Own("tfhd") = {} THEN 0 ELSE DefaultSize(d, body, SoFar("tfhd"))
<1>1. \E k, e : TrackInfo(d, body, t) = [offset |-> offset, sizes |-> sizes, info |-> info,
                                         size |-> size, key |-> k, enc |-> e]
  BY DEF TrackInfo
<1>2. ASSUME NEW kind, Own(kind) # {} PROVE IsChild(Final(kind)) /\ Final(kind).kind = kind
  <2>1. Own(kind) \in SUBSET (DOMAIN body) /\ \A i \in Own(kind) : body[i].kind = kind
    BY DEF Children
  <2> HIDE DEF Own
  <2>2. Greatest(Own(kind)) \in Own(kind) /\ Final(kind) \in ToSet(body)
    BY <1>2, <2>1, LastChild
  <2> QED BY <2>1, <2>2
<1>3. sizes \in Seq(Nat) /\ size \in Nat
  BY SizesAre
<1> HIDE DEF Final, Own, SoFar, sizes, size
<1>4. offset \in Int
  <2>1. CASE Own("trun") # {}
    BY <1>2, <2>1 DEF IsChild
  <2> QED BY <2>1
<1>5. IsSequence(info) /\ \A i \in DOMAIN info : info[i].subs \in Seq([clear : Nat, enc : Nat])
  <2>1. <<>> \in Seq([clear : Nat, enc : Nat]) /\ IsSequence(<<>>) /\ DOMAIN <<>> = {}
    BY EmptySeq DEF IsSequence
  <2>2. CASE Own("senc") # {}
    <3> DEFINE c == Final("senc")
               n == Len(c.samples)
    <3>1. IsChild(c) /\ c.kind = "senc"
      BY <1>2, <2>2
    <3> HIDE DEF c
    <3>2. IsSequence(c.samples) /\ n \in Nat /\ DOMAIN c.samples = 1 .. n
          /\ \A i \in 1 .. n : c.samples[i].subs \in Seq([clear : Nat, enc : Nat])
      BY <3>1, SequenceIs DEF IsChild
    <3> HIDE DEF n
    <3>3. info = ParseSenc(d, c)
      BY <2>2 DEF c
    <3> HIDE DEF info
    <3>4. info = [i \in 1 .. n |-> info[i]]
      BY <3>2, <3>3 DEF ParseSenc
    <3>5. ASSUME NEW i \in 1 .. n PROVE info[i].subs \in Seq([clear : Nat, enc : Nat])
      <4> DEFINE s == c.samples[i]
      <4>1. \/ info[i] = [iv |-> d.civ, subs |-> s.subs]
            \/ info[i] = s
            \/ info[i] = [iv |-> "misread", subs |-> <<>>]
        BY <3>2, <3>3 DEF ParseSenc
      <4>2. s.subs \in Seq([clear : Nat, enc : Nat])
        BY <3>2
      <4> HIDE DEF s, info
      <4>3. info[i].subs = s.subs \/ info[i].subs = <<>>
        BY <4>1
      <4> QED BY <2>1, <4>2, <4>3
    <3>6. IsSequence(info) /\ DOMAIN info = 1 .. n
      BY <3>2, <3>4, PlacesMake
    <3> QED BY <3>5, <3>6
  <2> QED BY <2>1, <2>2
<1> HIDE DEF offset, info
<1> QED BY <1>1, <1>3, <1>4, <1>5 DEF TrackOk

(* The trafs of a moof are finitely many. *)
LEMMA TrafsAre ==
  ASSUME NEW body, IsSequence(body)
  PROVE  Cardinality({c.traf : c \in ToSet(body)} \ {0}) \in Nat
<1> DEFINE n == Len(body)
           V == {c.traf : c \in ToSet(body)}
           f == [i \in 1 .. n |-> body[i].traf]
<1>1. n \in Nat /\ DOMAIN body = 1 .. n
  BY SequenceIs
<1>2. IsFiniteSet(1 .. n)
  BY <1>1, FS_Interval
<1>3. V = {body[i].traf : i \in 1 .. n}
  BY <1>1 DEF ToSet
<1>4. f \in Surjection(1 .. n, V)
  BY <1>3 DEF Surjection
<1> HIDE DEF V, f, n
<1>5. IsFiniteSet(V)
  BY <1>2, <1>4, FS_Surjection
<1> QED BY <1>5, FS_Subset, FS_CardinalityType DEF V

(* A moof leaves the decrypter with what it says of the tracks. *)
LEMMA ProcessMoofOk ==
  ASSUME NEW d, DecOk(d), NEW moof, MoofOk(moof)
  PROVE  /\ DecOk(ProcessMoof(d, moof).dec)
         /\ ProcessMoof(d, moof).dec.tracks = [t \in Trafs(moof.body) |-> TrackInfo(d, moof.body, t)]
<1> DEFINE body == moof.body
           n == Cardinality({c.traf : c \in ToSet(body)} \ {0})
           begun == BeginMoof(d, body)
           infos == [t \in 1 .. n |-> TrackInfo(d, body, t)]
           sizes == SampleSizes(d, body, Children(body, 1 .. n, "trun"))
           size == DefaultSize(d, body, Children(body, 1 .. n, "tfhd"))
           after == [begun EXCEPT !.tracks = @ \o infos, !.sizes = sizes, !.defaultSize = size]
<1>1. IsSequence(body) /\ \A c \in ToSet(body) : IsChild(c)
  BY DEF MoofOk, IsBox
<1>2. ProcessMoof(d, moof).dec = after
  BY DEF ProcessMoof
<1> HIDE DEF body
<1>2a. [t \in Trafs(body) |-> TrackInfo(d, body, t)] = infos
  BY DEF Trafs
<1>3. n \in Nat /\ sizes \in Seq(Nat) /\ size \in Nat
  BY <1>1, TrafsAre, SizesAre
<1>4. \A t \in 1 .. n : TrackOk(TrackInfo(d, body, t))
  BY <1>1, TrackInfoIs
<1> HIDE DEF n, sizes, size
<1>5. DOMAIN begun = DOMAIN d /\ begun.tracks = <<>>
  BY DEF BeginMoof, DecOk
<1>6. infos = [t \in 1 .. n |-> infos[t]] /\ \A t \in 1 .. n : TrackOk(infos[t])
  BY <1>4
<1> HIDE DEF infos
<1>7. IsSequence(infos) /\ DOMAIN infos = 1 .. n
  BY <1>3, <1>6, PlacesMake
<1>8. <<>> \o infos = infos
  <2> DEFINE T == ToSet(infos)
  <2>1. infos \in Seq(T)
    BY <1>7 DEF IsSequence
  <2> HIDE DEF T
  <2> QED BY <2>1, ConcatEmptySeq
<1> HIDE DEF begun
<1>9. /\ DOMAIN after = DOMAIN d
      /\ after.tracks = infos /\ after.sizes = sizes /\ after.defaultSize = size
  BY <1>5, <1>8 DEF DecOk
<1> HIDE DEF after
<1>10. TracksOk(infos)
  BY <1>6, <1>7 DEF TracksOk
<1>11. DecOk(after) /\ after.tracks = infos
  BY <1>3, <1>9, <1>10 DEF DecOk
<1> QED BY <1>2, <1>2a, <1>11 DEF infos, body

-----------------------------------------------------------------------------
(* The fragments yielded *)

(* Pieces of no or one member one behind the other: none is lost. *)
LEMMA FlattenUnits ==
  ASSUME NEW n \in Nat, NEW f, f = [i \in 1 .. n |-> f[i]],
         \A i \in 1 .. n : f[i] = <<>> \/ \E x : f[i] = <<x>>
  PROVE  /\ IsSequence(FlattenSeq(f))
         /\ Cardinality({i \in 1 .. n : f[i] = <<>>}) \in Nat
         /\ Len(FlattenSeq(f)) + Cardinality({i \in 1 .. n : f[i] = <<>>}) = n
         /\ \A i \in 1 .. n : \A x : f[i] = <<x>> => x \in ToSet(FlattenSeq(f))
         /\ \A x \in ToSet(FlattenSeq(f)) : \E i \in 1 .. n : f[i] = <<x>>
<1> DEFINE U == UNION {ToSet(f[i]) : i \in 1 .. n}
           M(m) == [i \in 1 .. m |-> f[i]]
           F(m) == FlattenSeq(M(m))
           E(m) == {i \in 1 .. m : f[i] = <<>>}
           Good(m) == /\ F(m) \in Seq(U)
                      /\ Cardinality(E(m)) \in Nat /\ Len(F(m)) + Cardinality(E(m)) = m
                      /\ \A i \in 1 .. m : \A x : f[i] = <<x>> => \E j \in 1 .. Len(F(m)) : F(m)[j] = x
                      /\ \A j \in 1 .. Len(F(m)) : \E i \in 1 .. m : f[i] = <<F(m)[j]>>
           W == {m \in Nat : m <= n => Good(m)}
<1>0. \A x : <<x>> # <<>> /\ Len(<<x>>) = 1 /\ <<x>>[1] = x /\ DOMAIN <<x>> = 1 .. 1
  OBVIOUS
<1>1. ASSUME NEW i \in 1 .. n PROVE f[i] \in Seq(U)
  <2>1. CASE f[i] = <<>>
    <3> HIDE DEF U
    <3> QED BY <2>1, EmptySeq
  <2>2. ASSUME NEW x, f[i] = <<x>> PROVE f[i] \in Seq(U)
    <3>1. x \in ToSet(f[i])
      BY <1>0, <2>2 DEF ToSet
    <3>2. x \in U
      BY <3>1
    <3> HIDE DEF U
    <3>3. <<x>> \in [1 .. 1 -> U]
      BY <3>2
    <3>4. <<x>> \in Seq(U)
      BY <3>3
    <3> QED BY <2>2, <3>4
  <2> QED BY <2>1, <2>2
<1> HIDE DEF U
<1>2. ASSUME NEW m \in 0 .. n PROVE M(m) \in Seq(Seq(U)) /\ Len(M(m)) = m
  <2>1. \A i \in 1 .. m : i \in 1 .. n
    OBVIOUS
  <2>2. M(m) \in [1 .. m -> Seq(U)]
    BY <1>1, <2>1
  <2> HIDE DEF M
  <2> QED BY <2>2
<1>3. ASSUME NEW m \in 0 .. n - 1 PROVE M(m + 1) = Append(M(m), f[m + 1])
  <2>1. m \in 0 .. n /\ m + 1 \in 1 .. n
    OBVIOUS
  <2>2. f[m + 1] \in Seq(U)
    BY <1>1, <2>1
  <2> QED BY <1>2, <2>1, <2>2
<1>4. 0 \in W
  <2>1. F(0) = <<>>
    <3>1. Len(M(0)) = 0 /\ M(0) = <<>>
      OBVIOUS
    <3> HIDE DEF M
    <3> QED BY <3>1 DEF FlattenSeq
  <2>2. E(0) = {} /\ Cardinality({}) = 0
    BY FS_EmptySet
  <2>3. <<>> \in Seq(U) /\ Len(<<>>) = 0
    BY EmptySeq
  <2> HIDE DEF F, E
  <2>4. Cardinality(E(0)) = 0 /\ Len(F(0)) = 0 /\ F(0) \in Seq(U)
    <3>1. Cardinality(E(0)) = 0
      BY <2>2, Zenon
    <3>2. Len(F(0)) = 0 /\ F(0) \in Seq(U)
      BY <2>1, <2>3, Zenon
    <3> QED BY <3>1, <3>2
  <2>5. Good(0)
    BY <2>4
  <2> HIDE DEF Good
  <2> QED BY <2>5
<1>5. ASSUME NEW m \in W PROVE m + 1 \in W
  <2> HIDE DEF Good
  <2> SUFFICES ASSUME m + 1 <= n PROVE Good(m + 1)
    OBVIOUS
  <2>1. m \in Nat /\ m \in 0 .. n - 1 /\ m \in 0 .. n /\ m + 1 \in 1 .. n /\ Good(m)
    OBVIOUS
  <2> HIDE DEF W
  <2> USE DEF Good
  <2>2. /\ F(m + 1) = F(m) \o f[m + 1] /\ F(m + 1) \in Seq(U)
        /\ f[m + 1] \in Seq(U)
    <3>1. M(m) \in Seq(Seq(U)) /\ f[m + 1] \in Seq(U) /\ M(m + 1) = Append(M(m), f[m + 1])
      BY <1>1, <1>2, <1>3, <2>1
    <3>2. F(m) \in Seq(U)
      BY <2>1
    <3> HIDE DEF M
    <3> QED BY <3>1, <3>2, FlattenAppend
  <2>3. IsFiniteSet(E(m))
    <3>1. m \in Int /\ 1 \in Int /\ E(m) \subseteq 1 .. m
      BY <2>1
    <3> HIDE DEF E
    <3>2. IsFiniteSet(1 .. m)
      BY <3>1, FS_Interval
    <3> QED BY <3>1, <3>2, FS_Subset
  <2> HIDE DEF M, F
  <2>4. CASE f[m + 1] = <<>>
    <3>1. F(m + 1) = F(m)
      BY <2>1, <2>2, <2>4, ConcatEmptySeq
    <3>2. E(m + 1) = E(m) \cup {m + 1} /\ m + 1 \notin E(m)
      BY <2>1, <2>4
    <3> HIDE DEF E
    <3>3. Cardinality(E(m + 1)) = Cardinality(E(m)) + 1
      BY <2>3, <3>2, FS_AddElement
    <3>4. \A x : f[m + 1] # <<x>>
      BY <1>0, <2>4
    <3>5. \A i \in 1 .. m : i \in 1 .. m + 1
      BY <2>1
    <3>6. \A i \in 1 .. m + 1 : i \in 1 .. m \/ i = m + 1
      BY <2>1
    <3>7. Cardinality(E(m + 1)) \in Nat /\ Len(F(m + 1)) + Cardinality(E(m + 1)) = m + 1
      BY <2>1, <3>1, <3>3
    <3> QED BY <2>1, <2>2, <3>1, <3>4, <3>5, <3>6, <3>7
  <2>5. CASE \E x : f[m + 1] = <<x>>
    <3>1. PICK y : f[m + 1] = <<y>>
      BY <2>5
    <3>2. E(m + 1) = E(m)
      <4>1. f[m + 1] # <<>>
        BY <1>0, <3>1
      <4> QED BY <2>1, <4>1
    <3>3. y \in U
      <4> DEFINE one == <<y>>
      <4>1. one \in Seq(U) /\ Len(one) = 1 /\ one[1] = y
        BY <1>0, <2>2, <3>1
      <4> HIDE DEF one
      <4>2. one[1] \in U
        BY <4>1
      <4> QED BY <4>1, <4>2
    <3>4. /\ Len(F(m + 1)) = Len(F(m)) + 1 /\ Len(F(m)) \in Nat
          /\ \A j \in 1 .. Len(F(m)) : F(m + 1)[j] = F(m)[j]
          /\ F(m + 1)[Len(F(m)) + 1] = y
      <4> DEFINE one == <<y>>
                 s == F(m)
      <4>1. one \in Seq(U) /\ Len(one) = 1 /\ one[1] = y /\ s \in Seq(U) /\ F(m + 1) = s \o one
        BY <1>0, <2>1, <2>2, <3>1
      <4> HIDE DEF one, s
      <4>2. Len(s) \in Nat /\ Len(s \o one) = Len(s) + 1
            /\ (\A j \in 1 .. Len(s) : (s \o one)[j] = s[j]) /\ (s \o one)[Len(s) + 1] = one[1]
        <5>1. /\ Len(s) \in Nat /\ Len(s \o one) = Len(s) + Len(one)
              /\ \A j \in 1 .. Len(s) + Len(one) :
                   (s \o one)[j] = IF j <= Len(s) THEN s[j] ELSE one[j - Len(s)]
          <6>1. s \in Seq(U) /\ one \in Seq(U)
            BY <4>1
          <6> QED BY ONLY <6>1, ConcatProperties
        <5> DEFINE l == Len(s)
                   t == s \o one
        <5>2. l \in Nat /\ \A j \in 1 .. l + 1 : t[j] = IF j <= l THEN s[j] ELSE one[j - l]
          BY <4>1, <5>1
        <5> HIDE DEF l, t
        <5>3. (\A j \in 1 .. l : t[j] = s[j]) /\ t[l + 1] = one[1]
          BY <5>2
        <5> QED BY <4>1, <5>1, <5>3 DEF l, t
      <4> QED BY <4>1, <4>2 DEF s
    <3> HIDE DEF E
    <3>5. Cardinality(E(m + 1)) \in Nat /\ Len(F(m + 1)) + Cardinality(E(m + 1)) = m + 1
      <4> DEFINE c == Cardinality(E(m))
                 l == Len(F(m))
      <4>1. c \in Nat /\ l \in Nat /\ l + c = m
        BY <2>1, <3>4
      <4>2. Cardinality(E(m + 1)) = c /\ Len(F(m + 1)) = l + 1
        BY <3>2, <3>4
      <4> HIDE DEF c, l
      <4> QED BY <2>1, <4>1, <4>2
    <3>6. ASSUME NEW i \in 1 .. m + 1, NEW x, f[i] = <<x>>
          PROVE  \E j \in 1 .. Len(F(m + 1)) : F(m + 1)[j] = x
      <4>1. CASE i = m + 1
        <5>1. x = y
          BY <3>1, <3>6, <4>1
        <5>2. Len(F(m)) + 1 \in 1 .. Len(F(m + 1))
          BY <3>4
        <5> QED BY <3>4, <5>1, <5>2
      <4>2. CASE i # m + 1
        <5>1. i \in 1 .. m
          BY <2>1, <4>2
        <5>2. PICK j \in 1 .. Len(F(m)) : F(m)[j] = x
          BY <2>1, <3>6, <5>1
        <5>3. j \in 1 .. Len(F(m + 1)) /\ F(m + 1)[j] = x
          BY <3>4, <5>2
        <5> QED BY <5>3
      <4> QED BY <4>1, <4>2
    <3>7. ASSUME NEW j \in 1 .. Len(F(m + 1)) PROVE \E i \in 1 .. m + 1 : f[i] = <<F(m + 1)[j]>>
      <4>1. CASE j = Len(F(m)) + 1
        <5>1. m + 1 \in 1 .. m + 1
          BY <2>1
        <5> QED BY <3>1, <3>4, <4>1, <5>1
      <4>2. CASE j # Len(F(m)) + 1
        <5>1. j \in 1 .. Len(F(m))
          BY <3>4, <4>2
        <5>2. PICK i \in 1 .. m : f[i] = <<F(m)[j]>>
          BY <2>1, <5>1
        <5> DEFINE x == F(m + 1)[j]
        <5>3. x = F(m)[j] /\ i \in 1 .. m + 1
          BY <2>1, <3>4, <5>1
        <5> HIDE DEF x
        <5>4. f[i] = <<x>>
          BY <5>2, <5>3
        <5>5. i \in 1 .. m + 1 /\ f[i] = <<F(m + 1)[j]>>
          BY <5>3, <5>4 DEF x
        <5> QED BY <5>5
      <4> QED BY <4>1, <4>2
    <3> QED BY <2>2, <3>5, <3>6, <3>7
  <2> QED BY <2>1, <2>4, <2>5
<1> HIDE DEF W, Good
<1>6. W = Nat
  BY <1>4, <1>5, SetInduction DEF W
<1>7. Good(n)
  BY <1>6 DEF W
<1>8. F(n) = FlattenSeq(f)
  OBVIOUS
<1> HIDE DEF F, M
<1> DEFINE s == FlattenSeq(f)
<1>9. /\ s \in Seq(U)
      /\ Cardinality(E(n)) \in Nat /\ Len(s) + Cardinality(E(n)) = n
      /\ \A i \in 1 .. n : \A x : f[i] = <<x>> => \E j \in 1 .. Len(s) : s[j] = x
      /\ \A j \in 1 .. Len(s) : \E i \in 1 .. n : f[i] = <<s[j]>>
  BY <1>7, <1>8 DEF Good
<1> HIDE DEF s
<1>10. IsSequence(s) /\ DOMAIN s = 1 .. Len(s) /\ ToSet(s) = {s[j] : j \in DOMAIN s}
  BY <1>9, SeqIsSequence DEF ToSet
<1>11. \A x \in ToSet(s) : \E i \in 1 .. n : f[i] = <<x>>
  <2> TAKE x \in ToSet(s)
  <2>1. PICK j \in 1 .. Len(s) : x = s[j]
    BY <1>10
  <2> QED BY <1>9, <2>1
<1>12. \A i \in 1 .. n : \A x : f[i] = <<x>> => x \in ToSet(s)
  BY <1>9, <1>10
<1> QED BY <1>9, <1>10, <1>11, <1>12 DEF s, E

(* Every traf says what track it is of, so that none is made up. *)
Headed(body) == \A c \in ToSet(body) : c.traf # 0 => Children(body, {c.traf}, "tfhd") # {}

(* What is written for a child of a moof. *)
LEMMA RewrittenIs ==
  ASSUME NEW d, NEW body, IsSequence(body), Headed(body), NEW i \in DOMAIN body
  PROVE  Rewritten(d, body, i) = IF body[i].traf # 0 /\ body[i].kind \in Stripped THEN <<>>
                                 ELSE IF body[i].traf # 0 /\ body[i].kind = "trun"
                                      THEN <<ModifyTrun(d, body[i])>> ELSE <<body[i]>>
<1> DEFINE c == body[i]
           first == c.traf # 0 /\ \A j \in 1 .. i - 1 : body[j].traf # c.traf
           piece == IF c.traf # 0 /\ c.kind \in Stripped THEN <<>>
                    ELSE IF c.traf # 0 /\ c.kind = "trun" THEN <<ModifyTrun(d, c)>> ELSE <<c>>
           made == IF first /\ d.track > 0 /\ Children(body, {c.traf}, "tfhd") = {}
                   THEN <<[kind |-> "tfhd", traf |-> c.traf, track |-> d.track, size |-> 0]>> ELSE <<>>
<1>1. Rewritten(d, body, i) = made \o piece
  BY DEF Rewritten
<1>2. c \in ToSet(body)
  BY SequenceIs
<1>3. made = <<>>
  BY <1>2 DEF Headed
<1>4. piece = <<>> \/ \E x : piece = <<x>>
  OBVIOUS
<1>5. \E S : piece \in Seq(S)
  <2> HIDE DEF piece
  <2>1. CASE piece = <<>>
    BY <2>1, EmptySeq
  <2>2. ASSUME NEW x, piece = <<x>> PROVE piece \in Seq({x})
    <3>1. <<x>> \in [1 .. 1 -> {x}]
      OBVIOUS
    <3>2. <<x>> \in Seq({x})
      BY <3>1
    <3> QED BY <2>2, <3>2
  <2> QED BY <1>4, <2>1, <2>2
<1> HIDE DEF made, piece
<1>6. <<>> \o piece = piece
  BY <1>5, ConcatEmptySeq
<1> QED BY <1>1, <1>3, <1>6 DEF piece

(* The moof yielded: shorter by the stripped boxes, its truns modified.     *)
LEMMA MoofYielded ==
  ASSUME NEW d, DecOk(d), NEW moof, MoofOk(moof), Headed(moof.body)
  PROVE  LET box == ProcessMoof(d, moof).box
             begun == BeginMoof(d, moof.body)
         IN  /\ box.type = moof.type /\ IsSequence(box.body)
             /\ Overhead(moof.body) \in Nat /\ begun.overhead = Overhead(moof.body)
             /\ Len(box.body) + Overhead(moof.body) = Len(moof.body)
             /\ Truns(box) = {ModifyTrun(begun, c) : c \in Truns(moof)}
<1> DEFINE body == moof.body
           n == Len(body)
           begun == BeginMoof(d, body)
           f == [i \in 1 .. n |-> Rewritten(begun, body, i)]
           kept == FlattenSeq(f)
           box == ProcessMoof(d, moof).box
           gone == {i \in 1 .. n : body[i].traf # 0 /\ body[i].kind \in Stripped}
<1>1. /\ IsSequence(body) /\ (\A c \in ToSet(body) : IsChild(c))
      /\ moof = [type |-> moof.type, form |-> moof.form, body |-> body]
  BY DEF MoofOk, IsBox
<1>2. n \in Nat /\ DOMAIN body = 1 .. n /\ Headed(body)
  BY <1>1, SequenceIs
<1>3. begun.overhead = Overhead(body)
  BY DEF BeginMoof, DecOk
<1>4. Overhead(body) = Cardinality(gone)
  BY <1>2 DEF Overhead
<1>5. box = [moof EXCEPT !.body = kept]
  <2>1. box = [moof EXCEPT !.body = FlattenSeq([i \in DOMAIN body |-> Rewritten(begun, body, i)])]
    BY DEF ProcessMoof
  <2>2. [i \in DOMAIN body |-> Rewritten(begun, body, i)] = f
    BY <1>2
  <2> HIDE DEF box, f
  <2> QED BY <2>1, <2>2
<1> HIDE DEF body, box, begun
<1>6. ASSUME NEW i \in 1 .. n
      PROVE f[i] = IF i \in gone THEN <<>>
                   ELSE IF body[i].traf # 0 /\ body[i].kind = "trun"
                        THEN <<ModifyTrun(begun, body[i])>> ELSE <<body[i]>>
  <2>1. i \in DOMAIN body /\ f[i] = Rewritten(begun, body, i)
    BY <1>2
  <2> QED BY <1>1, <1>2, <2>1, RewrittenIs
<1>7. \A x : <<x>> # <<>>
  OBVIOUS
<1>8. f = [i \in 1 .. n |-> f[i]]
  OBVIOUS
<1> HIDE DEF f, kept, n
<1>9. {i \in 1 .. n : f[i] = <<>>} = gone
  BY <1>6, <1>7
<1>10. \A i \in 1 .. n : f[i] = <<>> \/ \E x : f[i] = <<x>>
  BY <1>6
<1> HIDE DEF gone
<1>11. /\ IsSequence(kept) /\ Cardinality(gone) \in Nat /\ Len(kept) + Cardinality(gone) = n
       /\ \A i \in 1 .. n : \A x : f[i] = <<x>> => x \in ToSet(kept)
       /\ \A x \in ToSet(kept) : \E i \in 1 .. n : f[i] = <<x>>
  BY <1>2, <1>8, <1>9, <1>10, FlattenUnits, ZenonT(40) DEF kept
<1>12. box.type = moof.type /\ box.body = kept
  BY <1>1, <1>5
<1> DEFINE new == {ModifyTrun(begun, c) : c \in Truns(moof)}
<1>13. ToSet(body) = {body[i] : i \in 1 .. n}
  BY <1>2 DEF ToSet
<1>14. \A x, y : <<x>> = <<y>> => x = y
  OBVIOUS
<1>15. ASSUME NEW c \in ToSet(body), c.kind = "trun"
       PROVE ModifyTrun(begun, c).kind = "trun" /\ ModifyTrun(begun, c).traf = c.traf
  <2>1. c \in [kind : {"trun"}, traf : Nat, offset : Int, sizes : {c.sizes}]
    BY <1>1, <1>15 DEF IsChild
  <2> QED BY <2>1 DEF ModifyTrun
<1>16. ASSUME NEW x \in Truns(box) PROVE x \in new
  <2>1. x \in ToSet(kept) /\ x.kind = "trun" /\ x.traf # 0
    BY <1>12 DEF Truns
  <2>2. PICK i \in 1 .. n : f[i] = <<x>>
    BY <1>11, <2>1
  <2>3. i \notin gone
    BY <1>6, <1>7, <2>2
  <2>4. CASE body[i].traf # 0 /\ body[i].kind = "trun"
    <3>1. x = ModifyTrun(begun, body[i])
      BY <1>6, <1>14, <2>2, <2>3, <2>4
    <3>2. body[i] \in Truns(moof)
      BY <1>13, <2>4 DEF Truns, body
    <3> QED BY <3>1, <3>2
  <2>5. CASE ~(body[i].traf # 0 /\ body[i].kind = "trun")
    <3>1. x = body[i]
      BY <1>6, <1>14, <2>2, <2>3, <2>5
    <3> QED BY <2>1, <2>5, <3>1
  <2> QED BY <2>4, <2>5
<1>17. ASSUME NEW c \in Truns(moof) PROVE ModifyTrun(begun, c) \in Truns(box)
  <2>1. c \in ToSet(body) /\ c.kind = "trun" /\ c.traf # 0
    BY DEF Truns, body
  <2>2. PICK i \in 1 .. n : c = body[i]
    BY <1>13, <2>1
  <2>3. i \notin gone
    BY <2>1, <2>2 DEF gone, Stripped
  <2>4. f[i] = <<ModifyTrun(begun, c)>>
    BY <1>6, <2>1, <2>2, <2>3
  <2>5. ModifyTrun(begun, c) \in ToSet(kept)
    BY <1>11, <2>4
  <2> QED BY <1>12, <1>15, <2>1, <2>5 DEF Truns
<1>18. Truns(box) = new
  BY <1>16, <1>17
<1> QED BY <1>3, <1>4, <1>11, <1>12, <1>18 DEF box, begun, body, n

(* What an offset behind the header of the mdat leads to. *)
LEMMA PackedAt ==
  ASSUME NEW moof, NEW mdat, IsSequence(moof.body), IsSequence(mdat.body),
         NEW j \in 1 .. Len(mdat.body)
  PROVE  (Pack(moof) \o Pack(mdat))[Len(moof.body) + 4 + j] = mdat.body[j]
<1> DEFINE U == ToSet(moof.body) \cup ToSet(mdat.body)
                \cup {SizeUnit(Len(moof.body) + 2), TypeUnit(moof.type),
                      SizeUnit(Len(mdat.body) + 2), TypeUnit(mdat.type)}
           h == <<SizeUnit(Len(moof.body) + 2), TypeUnit(moof.type)>>
           g == <<SizeUnit(Len(mdat.body) + 2), TypeUnit(mdat.type)>>
           a == moof.body
           b == mdat.body
           p == h \o a
           q == g \o b
<1>1. a \in Seq(U) /\ b \in Seq(U)
  BY SeqMonotonic DEF IsSequence
<1>2. h \in Seq(U) /\ g \in Seq(U) /\ Len(h) = 2 /\ Len(g) = 2
  OBVIOUS
<1>3. Pack(moof) = p /\ Pack(mdat) = q
  BY DEF Pack
<1> DEFINE l == Len(a)
<1>4. l \in Nat /\ Len(b) \in Nat
  BY <1>1
<1> HIDE DEF U, h, g, a, b
<1>5. p \in Seq(U) /\ Len(p) = 2 + l
  <2>1. p \in Seq(U) /\ Len(p) = Len(h) + Len(a)
    BY ONLY <1>1, <1>2, ConcatProperties
  <2> HIDE DEF p
  <2> QED BY <1>2, <2>1
<1>6. /\ q \in Seq(U) /\ Len(q) = 2 + Len(b)
      /\ \A i \in 1 .. 2 + Len(b) : q[i] = IF i <= 2 THEN g[i] ELSE b[i - 2]
  <2>1. /\ q \in Seq(U) /\ Len(q) = Len(g) + Len(b)
        /\ \A i \in 1 .. Len(g) + Len(b) : q[i] = IF i <= Len(g) THEN g[i] ELSE b[i - Len(g)]
    BY ONLY <1>1, <1>2, ConcatProperties
  <2> HIDE DEF q
  <2> QED BY <1>2, <2>1
<1> HIDE DEF p, q, l
<1>7. q[2 + j] = b[j]
  <2>1. j \in 1 .. Len(b)
    BY DEF b
  <2>2. 2 + j \in 1 .. 2 + Len(b) /\ ~(2 + j <= 2) /\ 2 + j - 2 = j
    BY <1>4, <2>1
  <2> QED BY <1>6, <2>2
<1>8. (p \o q)[l + 4 + j] = q[2 + j]
  <2> DEFINE m == Len(q)
             t == p \o q
  <2>1. m = 2 + Len(b) /\ j \in 1 .. Len(b)
    BY <1>6 DEF b
  <2>2. \A i \in 1 .. Len(p) + m : t[i] = IF i <= Len(p) THEN p[i] ELSE q[i - Len(p)]
    <3>1. p \in Seq(U) /\ q \in Seq(U)
      BY <1>5, <1>6
    <3> QED BY ONLY <3>1, ConcatProperties
  <2>3. \A i \in 1 .. 2 + l + m : t[i] = IF i <= 2 + l THEN p[i] ELSE q[i - (2 + l)]
    BY <1>5, <2>2
  <2> HIDE DEF m, t
  <2> DEFINE i == l + 4 + j
  <2>4. i \in 1 .. 2 + l + m /\ ~(i <= 2 + l) /\ i - (2 + l) = 2 + j
    BY <1>4, <2>1
  <2> HIDE DEF i
  <2>5. t[i] = q[2 + j]
    BY <2>3, <2>4
  <2> QED BY <2>5 DEF t, i
<1> QED BY <1>3, <1>7, <1>8 DEF a, b, l

(* The fragments whose data offsets lead into their mdat. *)
Reaches(moof, mdat) ==
  /\ MoofOk(moof) /\ Headed(moof.body)
  /\ \A c \in Truns(moof) :
       c.offset \in Len(moof.body) + 4 .. Len(moof.body) + 4 + Len(mdat.body) - 1

(* The decrypted fragment's runs start where they did. *)
LEMMA RunStartsKept ==
  ASSUME NEW d, DecOk(d), NEW moof, NEW mdat, Reaches(moof, mdat), AreBytes(mdat.body),
         NEW plain, SameBytes(mdat.body, plain.body)
  PROVE  RunStarts(ProcessMoof(d, moof).box, plain) = RunStarts(moof, mdat)
<1> DEFINE box == ProcessMoof(d, moof).box
           begun == BeginMoof(d, moof.body)
           n == Len(moof.body)
           v == Overhead(moof.body)
           m == Len(box.body)
           L == Len(mdat.body)
<1>1. /\ IsSequence(moof.body) /\ \A c \in ToSet(moof.body) : IsChild(c)
      /\ MoofOk(moof) /\ Headed(moof.body)
  BY DEF Reaches, MoofOk, IsBox
<1>2. /\ IsSequence(box.body) /\ v \in Nat /\ begun.overhead = v /\ m + v = n
      /\ Truns(box) = {ModifyTrun(begun, c) : c \in Truns(moof)}
  BY <1>1, MoofYielded
<1>3. IsSequence(plain.body) /\ DOMAIN plain.body = DOMAIN mdat.body
      /\ Len(plain.body) = L /\ L \in Nat /\ n \in Nat /\ m \in Nat
  BY <1>1, <1>2, SequenceIs DEF SameBytes, AreBytes
<1> HIDE DEF box, begun, n, v, m, L
<1>4. ASSUME NEW c \in Truns(moof)
      PROVE  LET e == ModifyTrun(begun, c) IN
             /\ e.traf = c.traf /\ e.sizes = c.sizes
             /\ RunStart(e, box, plain).kind = RunStart(c, moof, mdat).kind
             /\ RunStart(e, box, plain).id = RunStart(c, moof, mdat).id
  <2> DEFINE e == ModifyTrun(begun, c)
             o == c.offset
  <2>1. /\ c \in [kind : {"trun"}, traf : Nat, offset : Int, sizes : {c.sizes}]
        /\ o \in n + 4 .. n + 4 + L - 1
    BY <1>1 DEF Truns, IsChild, Reaches, n, L
  <2>2. e.traf = c.traf /\ e.sizes = c.sizes /\ e.offset = IF o = 0 THEN 0 ELSE o - v
    BY <1>2, <2>1 DEF ModifyTrun
  <2> HIDE DEF e, o
  <2> DEFINE j == o - (n + 3)
  <2>3. /\ o \in Int /\ o # 0 /\ j \in 1 .. L /\ o + 1 = n + 4 + j /\ (o - v) + 1 = m + 4 + j
    <3>1. m + v = n /\ v \in Nat /\ m \in Nat /\ n \in Nat /\ L \in Nat /\ o \in n + 4 .. n + 4 + L - 1
      BY <1>2, <1>3, <2>1
    <3> QED BY ONLY <3>1
  <2> HIDE DEF j
  <2>8. (Pack(moof) \o Pack(mdat))[n + 4 + j] = mdat.body[j]
    BY <1>1, <1>3, <2>3, PackedAt, ZenonT(40) DEF n, L, AreBytes
  <2>4. RunStart(c, moof, mdat) = mdat.body[j]
    BY <2>3, <2>8 DEF RunStart, o
  <2>5. RunStart(e, box, plain) = plain.body[j]
    <3>1. e.offset + 1 = m + 4 + j
      BY <2>2, <2>3
    <3>2. (Pack(box) \o Pack(plain))[m + 4 + j] = plain.body[j]
      <4>1. j \in 1 .. Len(plain.body)
        BY <1>3, <2>3
      <4> QED BY <1>2, <1>3, <4>1, PackedAt DEF m
    <3> QED BY <3>1, <3>2 DEF RunStart
  <2>6. j \in DOMAIN mdat.body
    BY <2>3, SequenceIs DEF L, AreBytes
  <2>7. /\ IsByte(plain.body[j]) /\ IsByte(mdat.body[j])
        /\ plain.body[j].id = mdat.body[j].id
    BY <1>3, <2>6 DEF SameBytes, AreBytes
  <2>9. plain.body[j].kind = mdat.body[j].kind
    BY <2>7 DEF IsByte
  <2> QED BY <2>2, <2>4, <2>5, <2>7, <2>9 DEF e
<1> DEFINE Start(c, a, b) == <<c.traf, c.sizes, RunStart(c, a, b).kind, RunStart(c, a, b).id>>
<1>5. /\ RunStarts(box, plain) = {Start(e, box, plain) : e \in Truns(box)}
      /\ RunStarts(moof, mdat) = {Start(c, moof, mdat) : c \in Truns(moof)}
  BY DEF RunStarts
<1>6. \A c \in Truns(moof) : Start(ModifyTrun(begun, c), box, plain) = Start(c, moof, mdat)
  BY <1>4
<1> HIDE DEF Start
<1>7. RunStarts(box, plain) = RunStarts(moof, mdat)
  BY <1>2, <1>5, <1>6
<1> QED BY <1>7 DEF box

(* Boxes with the same contents have the same runs. *)
LEMMA RunStartsSame ==
  ASSUME NEW a, NEW b, a.type = b.type, a.body = b.body,
         NEW x, NEW y, x.type = y.type, x.body = y.body
  PROVE  RunStarts(a, x) = RunStarts(b, y)
<1>1. Truns(a) = Truns(b) /\ Pack(a) = Pack(b) /\ Pack(x) = Pack(y)
  BY DEF Truns, Pack
<1>2. \A c : RunStart(c, a, x) = RunStart(c, b, y)
  BY <1>1 DEF RunStart
<1> QED BY <1>1, <1>2 DEF RunStarts

-----------------------------------------------------------------------------
(* What is yielded, and the decrypter it is yielded by *)

(* A fragment of a segment, by CencAssumption. *)
LEMMA FragmentIs ==
  ASSUME segment \in Segment, NEW k \in DOMAIN segment.boxes
  PROVE  LET box == segment.boxes[k] IN
         /\ IsBox(box)
         /\ box.type = "moof" => MoofOk(box)
         /\ box.type = "mdat" => AreBytes(box.body)
<1> DEFINE box == segment.boxes[k]
<1>1. /\ IsBox(box)
      /\ box.type = "moof" => \A c \in ToSet(box.body) : IsChild(c)
      /\ box.type = "mdat" => \A u \in ToSet(box.body) : IsByte(u)
  BY CencAssumption
<1> HIDE DEF box
<1>2. box.type = "moof" => MoofOk(box)
  BY <1>1 DEF MoofOk
<1>3. box.type = "mdat" => AreBytes(box.body)
  <2>1. IsSequence(box.body)
    BY <1>1 DEF IsBox
  <2> QED BY <1>1, <2>1, SequenceIs DEF AreBytes
<1> QED BY <1>1, <1>2, <1>3 DEF box

(* Processing a box gives one of its type and leaves the decrypter in order. *)
LEMMA ProcessBoxIs ==
  ASSUME NEW d, DecOk(d), NEW box, IsBox(box),
         box.type = "moof" => MoofOk(box), box.type = "mdat" => AreBytes(box.body)
  PROVE  LET one == ProcessBox(d, box) IN
         /\ DecOk(one.dec) /\ one.box.type = box.type
         /\ box.type = "moof" => one.box = ProcessMoof(d, box).box
         /\ box.type = "mdat" => SameBytes(box.body, one.box.body)
<1> DEFINE one == ProcessBox(d, box)
<1>1. CASE box.type = "moof"
  <2>1. one = ProcessMoof(d, box)
    BY <1>1 DEF ProcessBox, ProcessAtom
  <2>2. DecOk(one.dec)
    BY <1>1, <2>1, ProcessMoofOk
  <2>3. one.box = [box EXCEPT !.body =
                     FlattenSeq([i \in DOMAIN box.body |-> Rewritten(BeginMoof(d, box.body), box.body, i)])]
    BY <2>1 DEF ProcessMoof
  <2> HIDE DEF one
  <2>4. one.box.type = box.type
    BY <2>3 DEF IsBox
  <2> QED BY <1>1, <2>1, <2>2, <2>4 DEF one
<1>2. CASE box.type = "mdat"
  <2>1. one = [dec |-> d, box |-> DecryptMdat(d, box)]
    BY <1>2 DEF ProcessBox, ProcessAtom
  <2>2. one.box = [box EXCEPT !.body = DecryptBody(d, box.body)]
    BY <2>1 DEF DecryptMdat
  <2>3. one.box.type = box.type /\ one.box.body = DecryptBody(d, box.body)
    BY <2>2 DEF IsBox
  <2>4. SameBytes(box.body, DecryptBody(d, box.body))
    BY <1>2, BodySame DEF DecOk
  <2> QED BY <1>2, <2>1, <2>3, <2>4
<1>3. CASE box.type \notin {"moof", "mdat"}
  BY <1>3 DEF ProcessBox
<1> QED BY <1>1, <1>2, <1>3

(* Every fragment yielded is one of the segment's, its runs where they were. *)
Hits(boxes) ==
  \A i \in DOMAIN boxes \ {1} : boxes[i - 1].type = "moof" /\ boxes[i].type = "mdat" =>
    \E k \in DOMAIN segment.boxes \ {1} :
      /\ segment.boxes[k - 1].type = "moof" /\ segment.boxes[k].type = "mdat"
      /\ RunStarts(boxes[i - 1], boxes[i]) = RunStarts(segment.boxes[k - 1], segment.boxes[k])

(* If a moof was yielded last, it is that of the box processed last. *)
EndsWith(boxes, k) ==
  Len(boxes) # 0 /\ boxes[Len(boxes)].type = "moof" =>
    /\ k # 0 /\ segment.boxes[k].type = "moof"
    /\ \E d : DecOk(d) /\ boxes[Len(boxes)] = ProcessMoof(d, segment.boxes[k]).box

Chained(k) ==
  LET b == Boxwise(segment, k) IN
  /\ IsSequence(b.boxes) /\ DecOk(b.dec)
  /\ Regular => EndsWith(b.boxes, k) /\ Hits(b.boxes)

(* What Regular says of a moof and the box behind it. *)
LEMMA RegularIs ==
  ASSUME segment \in Segment, Regular, NEW k \in DOMAIN segment.boxes, segment.boxes[k].type = "moof"
  PROVE  /\ k + 1 \in DOMAIN segment.boxes /\ segment.boxes[k + 1].type = "mdat"
         /\ Reaches(segment.boxes[k], segment.boxes[k + 1])
<1> DEFINE moof == segment.boxes[k]
           mdat == segment.boxes[k + 1]
<1>1. /\ k + 1 \in DOMAIN segment.boxes /\ mdat.type = "mdat"
      /\ \A c \in ToSet(moof.body) : c.traf # 0 => Children(moof.body, {c.traf}, "tfhd") # {}
      /\ \A c \in Truns(moof) :
           c.offset \in Len(moof.body) + 4 .. Len(moof.body) + 4 + Len(mdat.body) - 1
  BY DEF Regular
<1>2. MoofOk(moof)
  BY FragmentIs
<1> QED BY <1>1, <1>2 DEF Reaches, Headed

(* Nothing of the segment is yielded with the init segment. *)
LEMMA ChainedFirst ==
  ASSUME segment \in Segment
  PROVE  Chained(0)
<1> DEFINE init == ProcessInit(NewDecrypter(KeyMap(segment.ids, segment.keys)), segment.init)
           B == segment.init
           b == Boxwise(segment, 0)
<1>1. IsSequence(B) /\ (\A i \in DOMAIN B : IsBox(B[i])) /\ IsSequence(segment.boxes)
  BY CencAssumption
<1>2. /\ DecOk(init.dec) /\ IsSequence(init.boxes) /\ DOMAIN init.boxes = DOMAIN B
      /\ \A i \in DOMAIN B : B[i].type # "moov" => init.boxes[i] = B[i]
      /\ \A i \in DOMAIN B : B[i].type = "moov" => init.boxes[i].type = "moov"
  BY <1>1, NewDecrypterOk, ProcessInitIs
<1>3. b = Primed(segment)
  BY <1>1, SequenceIs, BoxwiseStep
<1>4. b.dec = init.dec /\ b.boxes = IF segment.includeInit THEN init.boxes ELSE <<>>
  BY <1>3 DEF Primed
<1> HIDE DEF init, b
<1>5. IsSequence(<<>>) /\ DOMAIN <<>> = {} /\ Len(<<>>) = 0
  BY EmptySeq DEF IsSequence
<1>6. ASSUME Regular, NEW i \in DOMAIN b.boxes PROVE b.boxes[i].type \notin {"moof", "mdat"}
  <2>1. i \in DOMAIN B /\ b.boxes = init.boxes
    BY <1>2, <1>4, <1>5, <1>6
  <2>2. B[i].type \notin {"moof", "mdat"}
    BY <1>6, <2>1 DEF Regular
  <2> QED BY <1>2, <2>1, <2>2
<1>7. IsSequence(b.boxes) /\ DecOk(b.dec)
  BY <1>2, <1>4, <1>5
<1>8. ASSUME Regular PROVE EndsWith(b.boxes, 0) /\ Hits(b.boxes)
  <2>1. Len(b.boxes) # 0 => Len(b.boxes) \in DOMAIN b.boxes
    BY <1>7, SequenceIs
  <2>2. EndsWith(b.boxes, 0)
    BY <1>6, <1>8, <2>1 DEF EndsWith
  <2>3. Hits(b.boxes)
    BY <1>6, <1>8 DEF Hits
  <2> QED BY <2>2, <2>3
<1> QED BY <1>7, <1>8 DEF Chained, b

(* The next box goes on from there. *)
LEMMA ChainedNext ==
  ASSUME segment \in Segment, NEW k \in 0 .. Len(segment.boxes) - 1, Chained(k)
  PROVE  Chained(k + 1)
<1> DEFINE B == segment.boxes
           box == B[k + 1]
           b == Boxwise(segment, k)
           next == Boxwise(segment, k + 1)
           one == ProcessBox(b.dec, box)
           n == Len(b.boxes)
<1>1. Len(B) \in Nat /\ DOMAIN B = 1 .. Len(B) /\ k + 1 \in DOMAIN B
  BY CencAssumption, SequenceIs
<1>2. next = AddBox(b, box)
  BY <1>1, BoxwiseStep
<1>3. /\ IsSequence(b.boxes) /\ DecOk(b.dec)
      /\ Regular => EndsWith(b.boxes, k) /\ Hits(b.boxes)
  BY DEF Chained
<1>4. /\ DecOk(one.dec) /\ one.box.type = box.type
      /\ box.type = "moof" => one.box = ProcessMoof(b.dec, box).box
      /\ box.type = "mdat" => AreBytes(box.body) /\ SameBytes(box.body, one.box.body)
  BY <1>1, <1>3, FragmentIs, ProcessBoxIs
<1>5. next = IF box.type = "sidx" THEN b ELSE [dec |-> one.dec, boxes |-> Append(b.boxes, one.box)]
  BY <1>2 DEF AddBox
<1>6. k + 1 # 0 /\ k + 1 - 1 = k /\ (k # 0 => k \in DOMAIN B)
  BY <1>1
<1>7. n \in Nat /\ DOMAIN b.boxes = 1 .. n
  BY <1>3, SequenceIs
<1>8. ASSUME Regular, k # 0, B[k].type = "moof" PROVE box.type = "mdat" /\ Reaches(B[k], box)
  BY <1>6, <1>8, RegularIs
<1> HIDE DEF b, next, one, box
<1>9. CASE box.type = "sidx"
  <2>1. next = b
    BY <1>5, <1>9
  <2>2. ASSUME Regular PROVE EndsWith(b.boxes, k + 1)
    BY <1>3, <1>8, <1>9, <2>2 DEF EndsWith
  <2> QED BY <1>3, <2>1, <2>2 DEF Chained, next
<1>10. CASE box.type # "sidx"
  <2> DEFINE t == Append(b.boxes, one.box)
  <2>1. next.dec = one.dec /\ next.boxes = t
    BY <1>5, <1>10
  <2>2. /\ IsSequence(t) /\ Len(t) = n + 1 /\ DOMAIN t = 1 .. n + 1
        /\ t[n + 1] = one.box /\ \A i \in 1 .. n : t[i] = b.boxes[i]
    <3> DEFINE S == ToSet(b.boxes) \cup {one.box}
    <3>1. b.boxes \in Seq(S) /\ one.box \in S
      BY <1>3, SeqMonotonic DEF IsSequence
    <3> HIDE DEF S
    <3>2. /\ t \in Seq(S) /\ Len(t) = n + 1
          /\ t[n + 1] = one.box /\ \A i \in 1 .. n : t[i] = b.boxes[i]
      BY <3>1, AppendProperties
    <3> HIDE DEF t
    <3> QED BY <3>2, SeqIsSequence, SequenceIs
  <2> HIDE DEF t
  <2>3. ASSUME Regular PROVE EndsWith(t, k + 1)
    <3> SUFFICES ASSUME t[n + 1].type = "moof"
                 PROVE  /\ B[k + 1].type = "moof"
                        /\ \E d : DecOk(d) /\ t[n + 1] = ProcessMoof(d, B[k + 1]).box
      BY <1>6, <2>2 DEF EndsWith
    <3>1. box.type = "moof"
      BY <1>4, <2>2
    <3> QED BY <1>3, <1>4, <2>2, <3>1 DEF box
  <2>4. ASSUME Regular PROVE Hits(t)
    <3> SUFFICES ASSUME NEW i \in DOMAIN t \ {1}, t[i - 1].type = "moof", t[i].type = "mdat"
                 PROVE  \E m \in DOMAIN B \ {1} :
                          /\ B[m - 1].type = "moof" /\ B[m].type = "mdat"
                          /\ RunStarts(t[i - 1], t[i]) = RunStarts(B[m - 1], B[m])
      BY DEF Hits
    <3>1. CASE i = n + 1
      <4>1. /\ n # 0 /\ i - 1 = n /\ t[i - 1] = b.boxes[n] /\ t[i] = one.box
        BY <1>7, <2>2, <3>1
      <4>2. b.boxes[n].type = "moof" /\ box.type = "mdat"
        BY <1>4, <4>1
      <4>3. /\ k # 0 /\ B[k].type = "moof"
            /\ \E d : DecOk(d) /\ b.boxes[n] = ProcessMoof(d, B[k]).box
        BY <1>3, <2>4, <4>1, <4>2 DEF EndsWith
      <4>4. Reaches(B[k], box)
        BY <1>8, <2>4, <4>3
      <4>5. RunStarts(b.boxes[n], one.box) = RunStarts(B[k], box)
        BY <1>4, <4>2, <4>3, <4>4, RunStartsKept
      <4>6. k + 1 \in DOMAIN B \ {1}
        BY <1>1, <4>3
      <4>7. /\ B[(k + 1) - 1].type = "moof" /\ B[k + 1].type = "mdat"
            /\ RunStarts(t[i - 1], t[i]) = RunStarts(B[(k + 1) - 1], B[k + 1])
        BY <1>6, <4>1, <4>2, <4>3, <4>5 DEF box
      <4> QED BY <4>6, <4>7
    <3>2. CASE i # n + 1
      <4>1. i \in 1 .. n /\ i - 1 \in 1 .. n /\ i \in DOMAIN b.boxes \ {1}
        BY <1>7, <2>2, <3>2
      <4>2. t[i] = b.boxes[i] /\ t[i - 1] = b.boxes[i - 1]
        BY <2>2, <4>1
      <4> QED BY <1>3, <2>4, <4>1, <4>2 DEF Hits
    <3> QED BY <3>1, <3>2
  <2> QED BY <1>4, <2>1, <2>2, <2>3, <2>4 DEF Chained, next
<1> QED BY <1>9, <1>10

(* By induction every number of boxes is chained. *)
LEMMA AllChained ==
  ASSUME segment \in Segment
  PROVE  \A k \in 0 .. Len(segment.boxes) : Chained(k)
<1> DEFINE N == Len(segment.boxes)
           S == {k \in Nat : k \in 0 .. N => Chained(k)}
<1>1. N \in Nat
  BY CencAssumption, SequenceIs
<1>2. 0 \in S
  BY ChainedFirst
<1>3. ASSUME NEW k \in S PROVE k + 1 \in S
  <2> SUFFICES ASSUME k + 1 \in 0 .. N PROVE Chained(k + 1)
    OBVIOUS
  <2>1. k \in 0 .. N /\ k \in 0 .. N - 1
    BY <1>1
  <2>2. Chained(k)
    BY <2>1
  <2> QED BY <2>1, <2>2, ChainedNext
<1> HIDE DEF S
<1>4. S = Nat
  BY <1>2, <1>3, SetInduction DEF S
<1> QED BY <1>1, <1>4 DEF S

(* The stream has yielded what some number of boxes yield one by one, also  *)
(* when it has ended.                                                       *)
Given(k) == SameBoxes(out, Boxwise(segment, k).boxes)
OutInv == segment \in Segment /\ (out = <<>> \/ \E k \in 0 .. Len(segment.boxes) : Given(k))

(* In every state in which it reads, that is the reader's invariant. *)
LEMMA ProcessedIsGiven ==
  ASSUME CencInv, cencPc \in {"parse", "read", "tail"}
  PROVE  OutInv
<1>1. \E k \in 0 .. Len(segment.boxes) : Processed(k)
  BY DEF CencInv
<1> QED BY <1>1 DEF CencInv, OutInv, Processed, Given

(* The streams that end or fail yield nothing more. *)
LEMMA OutStep ==
  ASSUME OutInv, CencInv', [CencNext]_cencVars
  PROVE  OutInv'
<1>1. CASE cencPc' \in {"parse", "read", "tail"}
  <2>1. (CencInv /\ cencPc \in {"parse", "read", "tail"} => OutInv)'
    BY ProcessedIsGiven, PTL
  <2> QED BY <1>1, <2>1
<1>2. CASE cencPc' \notin {"parse", "read", "tail"}
  <2>1. UNCHANGED <<segment, out>>
    BY <1>2 DEF CencNext, cencVars, StartStream, ReadHeader, PassTail, NeedHeader, TakePart,
                EmitBox, Receive, UpstreamEnds, UpstreamFails
  <2> QED BY <2>1 DEF OutInv, Given
<1> QED BY <1>1, <1>2

(* What decrypt_segment_streaming has yielded is what the first boxes of     *)
(* the segment give, in every state, those in which it has failed or ended  *)
(* included.                                                                *)
THEOREM OutInvariant == CencSpec => []OutInv
<1>1. CencInit => OutInv
  BY DEF CencInit, OutInv
<1>2. OutInv /\ CencInv' /\ [CencNext]_cencVars => OutInv'
  BY OutStep
<1> QED BY <1>1, <1>2, CencInvariant, PTL DEF CencSpec

(* The data offsets of the truns yielded by decrypt_segment_streaming lead  *)
(* to the byte they led to in the segment, though process_moof has stripped *)
(* the moof in front of it: for every regular segment, every protection and *)
(* every way its bytes are cut into chunks.                                 *)
THEOREM OffsetsStayHit == CencSpec => []OffsetsHit
<1>1. OutInv => OffsetsHit
  <2> SUFFICES ASSUME OutInv, Regular PROVE Hits(out)
    BY DEF OffsetsHit, Hits
  <2>1. CASE out = <<>>
    <3>1. DOMAIN out = {}
      BY <2>1
    <3> QED BY <3>1 DEF Hits
  <2>2. ASSUME NEW k \in 0 .. Len(segment.boxes), Given(k) PROVE Hits(out)
    <3> DEFINE boxes == Boxwise(segment, k).boxes
    <3>1. Chained(k)
      BY AllChained DEF OutInv
    <3>2. Hits(boxes) /\ IsSequence(boxes)
      BY <3>1 DEF Chained
    <3>3. SameBoxes(out, boxes)
      BY <2>2 DEF Given
    <3> HIDE DEF boxes
    <3> SUFFICES ASSUME NEW i \in DOMAIN out \ {1}, out[i - 1].type = "moof", out[i].type = "mdat"
                 PROVE  \E m \in DOMAIN segment.boxes \ {1} :
                          /\ segment.boxes[m - 1].type = "moof" /\ segment.boxes[m].type = "mdat"
                          /\ RunStarts(out[i - 1], out[i])
                               = RunStarts(segment.boxes[m - 1], segment.boxes[m])
      BY DEF Hits
    <3>4. i \in DOMAIN boxes \ {1} /\ i - 1 \in DOMAIN boxes /\ i \in DOMAIN out /\ i - 1 \in DOMAIN out
      BY <3>2, <3>3, SequenceIs DEF SameBoxes
    <3>5. /\ out[i].type = boxes[i].type /\ out[i].body = boxes[i].body
          /\ out[i - 1].type = boxes[i - 1].type /\ out[i - 1].body = boxes[i - 1].body
      BY <3>3, <3>4 DEF SameBoxes
    <3>6. RunStarts(out[i - 1], out[i]) = RunStarts(boxes[i - 1], boxes[i])
      BY <3>5, RunStartsSame
    <3> QED BY <3>2, <3>4, <3>5, <3>6 DEF Hits
  <2> QED BY <2>1, <2>2 DEF OutInv
<1> QED BY <1>1, OutInvariant, PTL

-----------------------------------------------------------------------------
(* The media yielded *)

(* What two sequences joined hold. *)
LEMMA ConcatIs ==
  ASSUME NEW s, NEW t, IsSequence(s), IsSequence(t)
  PROVE  /\ IsSequence(s \o t) /\ Len(s \o t) = Len(s) + Len(t)
         /\ Len(s) \in Nat /\ Len(t) \in Nat
         /\ DOMAIN (s \o t) = 1 .. Len(s) + Len(t)
         /\ \A i \in 1 .. Len(s) : (s \o t)[i] = s[i]
         /\ \A i \in 1 .. Len(t) : (s \o t)[Len(s) + i] = t[i]
<1> DEFINE U == ToSet(s) \cup ToSet(t)
<1>1. s \in Seq(U) /\ t \in Seq(U)
  BY SeqMonotonic DEF IsSequence
<1> HIDE DEF U
<1> DEFINE c == s \o t
           l == Len(s)
           m == Len(t)
<1>2. /\ c \in Seq(U) /\ Len(c) = l + m
      /\ \A i \in 1 .. l + m : c[i] = IF i <= l THEN s[i] ELSE t[i - l]
  BY ONLY <1>1, ConcatProperties
<1>3. l \in Nat /\ m \in Nat
  BY <1>1
<1> HIDE DEF c, l, m
<1>4. \A i \in 1 .. l : c[i] = s[i]
  BY <1>2, <1>3
<1>5. ASSUME NEW i \in 1 .. m PROVE c[l + i] = t[i]
  <2>1. l + i \in 1 .. l + m /\ ~(l + i <= l) /\ (l + i) - l = i
    BY <1>3
  <2> QED BY <1>2, <2>1
<1>6. IsSequence(c) /\ DOMAIN c = 1 .. l + m
  BY <1>2, SeqIsSequence, SequenceIs
<1> QED BY <1>2, <1>3, <1>4, <1>5, <1>6 DEF c, l, m

(* The media of a box, and of boxes that are sequences. *)
MediumOf(box) == IF box.type = "mdat" THEN box.body ELSE <<>>
MediaOk(boxes) == IsSequence(boxes) /\ \A i \in DOMAIN boxes : IsSequence(MediumOf(boxes[i]))

(* The media of boxes are a sequence. *)
LEMMA MediaIs ==
  ASSUME NEW boxes, MediaOk(boxes)
  PROVE  IsSequence(MediaOf(boxes))
<1> DEFINE n == Len(boxes)
           f == [i \in DOMAIN boxes |-> MediumOf(boxes[i])]
<1>1. n \in Nat /\ DOMAIN boxes = 1 .. n
  BY SequenceIs DEF MediaOk
<1>2. f = [i \in 1 .. n |-> f[i]] /\ \A i \in 1 .. n : IsSequence(f[i])
  BY <1>1 DEF MediaOk
<1>3. MediaOf(boxes) = FlattenSeq(f)
  BY DEF MediaOf, MediumOf
<1> HIDE DEF f, n
<1> QED BY <1>1, <1>2, <1>3, FlattenSeqs

(* The media of one more box come behind those before. *)
LEMMA MediaAdds ==
  ASSUME NEW boxes, MediaOk(boxes), NEW x, IsSequence(MediumOf(x))
  PROVE  MediaOk(Append(boxes, x)) /\ MediaOf(Append(boxes, x)) = MediaOf(boxes) \o MediumOf(x)
<1> DEFINE n == Len(boxes)
           more == Append(boxes, x)
           s == [i \in 1 .. n |-> MediumOf(boxes[i])]
           e == MediumOf(x)
           U == (UNION {ToSet(s[i]) : i \in 1 .. n}) \cup ToSet(e)
           S == ToSet(boxes) \cup {x}
<1>1. IsSequence(boxes) /\ n \in Nat /\ DOMAIN boxes = 1 .. n /\ \A i \in 1 .. n : IsSequence(MediumOf(boxes[i]))
  BY SequenceIs DEF MediaOk
<1>2. boxes \in Seq(S) /\ x \in S
  BY <1>1, SeqMonotonic DEF IsSequence
<1> HIDE DEF S
<1>3. /\ more \in Seq(S) /\ Len(more) = n + 1
      /\ more[n + 1] = x /\ \A i \in 1 .. n : more[i] = boxes[i]
  BY <1>2, AppendProperties
<1> HIDE DEF more
<1>4. IsSequence(more) /\ DOMAIN more = 1 .. n + 1
  BY <1>3, SeqIsSequence, SequenceIs
<1>5. ASSUME NEW i \in 1 .. n + 1 PROVE IsSequence(MediumOf(more[i]))
  <2>1. i = n + 1 \/ i \in 1 .. n
    BY <1>1
  <2> QED BY <1>1, <1>3, <2>1
<1>6. ASSUME NEW i \in 1 .. n PROVE s[i] \in Seq(U)
  <2>1. s[i] \in Seq(ToSet(s[i]))
    BY <1>1 DEF IsSequence
  <2>2. ToSet(s[i]) \subseteq U
    OBVIOUS
  <2> HIDE DEF s, U
  <2> QED BY <2>1, <2>2, SeqMonotonic
<1>7. e \in Seq(U)
  <2>1. e \in Seq(ToSet(e)) /\ ToSet(e) \subseteq U
    BY DEF IsSequence
  <2> HIDE DEF e, U
  <2> QED BY <2>1, SeqMonotonic
<1> HIDE DEF U
<1>8. s \in Seq(Seq(U)) /\ Len(s) = n
  <2>1. s \in [1 .. n -> Seq(U)]
    BY <1>6
  <2> HIDE DEF s
  <2> QED BY <1>1, <2>1
<1>9. FlattenSeq(s) \in Seq(U)
  BY <1>8, FlattenIn
<1>10. FlattenSeq(Append(s, e)) = FlattenSeq(s) \o e
  <2> HIDE DEF s, e
  <2> QED BY <1>7, <1>8, <1>9, FlattenAppend
<1>11. MediaOf(boxes) = FlattenSeq(s)
  <2>1. [i \in DOMAIN boxes |-> MediumOf(boxes[i])] = s
    BY <1>1
  <2> HIDE DEF s
  <2> QED BY <2>1 DEF MediaOf, MediumOf
<1>12. MediaOf(more) = FlattenSeq(Append(s, e))
  <2> DEFINE t == [i \in DOMAIN more |-> MediumOf(more[i])]
             u == Append(s, e)
  <2>1. u \in Seq(Seq(U)) /\ Len(u) = n + 1 /\ u[n + 1] = e /\ \A i \in 1 .. n : u[i] = s[i]
    <3> HIDE DEF s, e
    <3> QED BY <1>7, <1>8, AppendProperties
  <2>2. t = [i \in 1 .. n + 1 |-> t[i]] /\ \A i \in 1 .. n + 1 : t[i] = MediumOf(more[i])
    BY <1>4
  <2>3. \A i \in 1 .. n : s[i] = MediumOf(boxes[i])
    OBVIOUS
  <2>4. MediaOf(more) = FlattenSeq(t)
    BY DEF MediaOf, MediumOf
  <2> HIDE DEF t, u, s
  <2>5. u = [i \in 1 .. n + 1 |-> u[i]]
    BY <2>1
  <2>6. \A i \in 1 .. n + 1 : t[i] = u[i]
    <3> TAKE i \in 1 .. n + 1
    <3>1. i = n + 1 \/ i \in 1 .. n
      BY <1>1
    <3> QED BY <1>3, <2>1, <2>2, <2>3, <3>1
  <2>7. t = u
    BY <2>2, <2>5, <2>6
  <2> QED BY <2>4, <2>7 DEF u
<1>13. MediaOk(more)
  BY <1>4, <1>5 DEF MediaOk
<1> QED BY <1>10, <1>11, <1>12, <1>13 DEF more, e

(* The media of the first k boxes, and what is yielded of them. *)
Taken(k) == MediaOf(SubSeq(segment.boxes, 1, k))
Got(k) == MediaOf(Boxwise(segment, k).boxes)

(* There are no media in the init segment. *)
InitHasNone == \A i \in DOMAIN segment.init : segment.init[i].type # "mdat"

(* The decrypter clears the k-th box of the media it has the keys of. *)
BoxClear(k) ==
  segment.boxes[k].type = "mdat" =>
    \A p \in DOMAIN segment.boxes[k].body :
      DecryptBody(Boxwise(segment, k - 1).dec, segment.boxes[k].body)[p]
        = Cleared(segment.boxes[k].body[p])

Matched(k) ==
  /\ MediaOk(SubSeq(segment.boxes, 1, k)) /\ MediaOk(Boxwise(segment, k).boxes)
  /\ AreBytes(Taken(k)) /\ SameBytes(Taken(k), Got(k))
  /\ (\A j \in 1 .. k : BoxClear(j)) => \A i \in DOMAIN Got(k) : Got(k)[i] = Cleared(Taken(k)[i])

(* Nothing comes of boxes without media. *)
LEMMA NoMedia ==
  ASSUME NEW boxes, IsSequence(boxes), \A i \in DOMAIN boxes : boxes[i].type # "mdat"
  PROVE  MediaOk(boxes) /\ MediaOf(boxes) = <<>>
<1> DEFINE n == Len(boxes)
           f == [i \in DOMAIN boxes |-> MediumOf(boxes[i])]
<1>1. n \in Nat /\ DOMAIN boxes = 1 .. n
  BY SequenceIs
<1>2. \A i \in 1 .. n : f[i] = <<>>
  BY <1>1 DEF MediumOf
<1>3. f = [i \in 1 .. n |-> f[i]]
  BY <1>1
<1>4. MediaOf(boxes) = FlattenSeq(f)
  BY DEF MediaOf, MediumOf
<1>5. MediaOk(boxes)
  <2>1. IsSequence(<<>>)
    BY EmptySeq DEF IsSequence
  <2> QED BY <2>1 DEF MediaOk, MediumOf
<1> HIDE DEF f, n
<1>6. {i \in 1 .. n : f[i] = <<>>} = 1 .. n /\ Cardinality(1 .. n) = n
  BY <1>1, <1>2, FS_Interval
<1> DEFINE s == FlattenSeq(f)
<1>7. IsSequence(s) /\ Len(s) + n = n
  BY <1>1, <1>2, <1>3, <1>6, FlattenUnits
<1> HIDE DEF s
<1>8. s = <<>>
  <2>1. Len(s) \in Nat /\ s \in Seq(ToSet(s))
    BY <1>7, SequenceIs DEF IsSequence
  <2>2. Len(s) = 0
    BY <1>1, <1>7, <2>1
  <2> QED BY <2>1, <2>2, EmptySeq
<1> QED BY <1>4, <1>5, <1>8 DEF s

(* Nothing is yielded of an init segment without media. *)
LEMMA MatchedFirst ==
  ASSUME segment \in Segment, InitHasNone
  PROVE  Matched(0)
<1> DEFINE init == ProcessInit(NewDecrypter(KeyMap(segment.ids, segment.keys)), segment.init)
           B == segment.init
           b == Boxwise(segment, 0)
           none == SubSeq(segment.boxes, 1, 0)
<1>1. IsSequence(B) /\ (\A i \in DOMAIN B : IsBox(B[i])) /\ IsSequence(segment.boxes)
  BY CencAssumption
<1>2. /\ IsSequence(init.boxes) /\ DOMAIN init.boxes = DOMAIN B
      /\ \A i \in DOMAIN B : B[i].type # "moov" => init.boxes[i] = B[i]
      /\ \A i \in DOMAIN B : B[i].type = "moov" => init.boxes[i].type = "moov"
  BY <1>1, NewDecrypterOk, ProcessInitIs
<1>3. b = Primed(segment)
  BY <1>1, SequenceIs, BoxwiseStep
<1>4. b.boxes = IF segment.includeInit THEN init.boxes ELSE <<>>
  BY <1>3 DEF Primed
<1> HIDE DEF init, b
<1>5. IsSequence(<<>>) /\ DOMAIN <<>> = {}
  BY EmptySeq DEF IsSequence
<1>6. \A i \in DOMAIN b.boxes : b.boxes[i].type # "mdat"
  BY <1>2, <1>4, <1>5 DEF InitHasNone
<1>7. IsSequence(b.boxes)
  BY <1>2, <1>4, <1>5
<1>8. MediaOk(b.boxes) /\ Got(0) = <<>>
  BY <1>6, <1>7, NoMedia DEF Got, b
<1>9. none = <<>>
  BY <1>1 DEF IsSequence
<1>10. MediaOk(none) /\ Taken(0) = <<>>
  BY <1>5, <1>9, NoMedia DEF Taken
<1> QED BY <1>5, <1>8, <1>10 DEF Matched, b, none, SameBytes, AreBytes

(* The first boxes and one more. *)
LEMMA FirstAndNext ==
  ASSUME NEW s, IsSequence(s), NEW k \in 0 .. Len(s) - 1
  PROVE  SubSeq(s, 1, k + 1) = Append(SubSeq(s, 1, k), s[k + 1])
<1> DEFINE T == ToSet(s)
<1>1. s \in Seq(T) /\ Len(s) \in Nat
  BY DEF IsSequence
<1> HIDE DEF T
<1> QED BY <1>1

(* Bytes stay bytes and what they are when more come behind them. *)
LEMMA SameBytesJoin ==
  ASSUME NEW s, NEW t, AreBytes(s), SameBytes(s, t), NEW x, NEW y, AreBytes(x), SameBytes(x, y)
  PROVE  AreBytes(s \o x) /\ SameBytes(s \o x, t \o y)
<1> DEFINE l == Len(s)
           m == Len(x)
           a == s \o x
           b == t \o y
<1>1. IsSequence(s) /\ IsSequence(t) /\ IsSequence(x) /\ IsSequence(y)
  BY DEF SameBytes, AreBytes
<1>2. l \in Nat /\ m \in Nat /\ DOMAIN s = 1 .. l /\ DOMAIN x = 1 .. m
      /\ Len(t) = l /\ Len(y) = m
  BY <1>1, SequenceIs DEF SameBytes
<1>3. /\ IsSequence(a) /\ DOMAIN a = 1 .. l + m
      /\ \A i \in 1 .. l : a[i] = s[i]
      /\ \A i \in 1 .. m : a[l + i] = x[i]
  BY <1>1, ConcatIs
<1>4. /\ IsSequence(b) /\ DOMAIN b = 1 .. l + m
      /\ \A i \in 1 .. l : b[i] = t[i]
      /\ \A i \in 1 .. m : b[l + i] = y[i]
  BY <1>1, <1>2, ConcatIs
<1> HIDE DEF a, b, l, m
<1>5. ASSUME NEW i \in 1 .. l + m PROVE IsByte(a[i]) /\ IsByte(b[i]) /\ b[i].id = a[i].id
  <2>1. CASE i \in 1 .. l
    BY <1>2, <1>3, <1>4, <2>1 DEF AreBytes, SameBytes
  <2>2. CASE i \notin 1 .. l
    <3>1. i - l \in 1 .. m /\ l + (i - l) = i
      BY <1>2, <2>2
    <3>2. a[i] = x[i - l] /\ b[i] = y[i - l]
      BY <1>3, <1>4, <3>1
    <3> QED BY <1>2, <3>1, <3>2 DEF AreBytes, SameBytes
  <2> QED BY <2>1, <2>2
<1> QED BY <1>3, <1>4, <1>5 DEF a, b, AreBytes, SameBytes

(* Each box adds its media, in their places. *)
LEMMA MatchedNext ==
  ASSUME segment \in Segment, NEW k \in 0 .. Len(segment.boxes) - 1, Matched(k)
  PROVE  Matched(k + 1)
<1> DEFINE B == segment.boxes
           box == B[k + 1]
           b == Boxwise(segment, k)
           next == Boxwise(segment, k + 1)
           one == ProcessBox(b.dec, box)
           x == MediumOf(box)
           y == MediumOf(one.box)
<1>1. IsSequence(B) /\ Len(B) \in Nat /\ DOMAIN B = 1 .. Len(B) /\ k + 1 \in DOMAIN B /\ k \in 0 .. Len(B)
  BY CencAssumption, SequenceIs
<1>2. next = AddBox(b, box)
  BY <1>1, BoxwiseStep
<1>3. DecOk(b.dec)
  BY <1>1, AllChained DEF Chained
<1>4. /\ one.box.type = box.type /\ IsBox(box)
      /\ box.type = "mdat" => AreBytes(box.body) /\ SameBytes(box.body, one.box.body)
  BY <1>1, <1>3, FragmentIs, ProcessBoxIs
<1>5. next = IF box.type = "sidx" THEN b ELSE [dec |-> one.dec, boxes |-> Append(b.boxes, one.box)]
  BY <1>2 DEF AddBox
<1>6. IsSequence(<<>>) /\ DOMAIN <<>> = {}
  BY EmptySeq DEF IsSequence
<1>7. AreBytes(x) /\ SameBytes(x, y)
  <2>1. CASE box.type = "mdat"
    BY <1>4, <2>1 DEF MediumOf
  <2>2. CASE box.type # "mdat"
    BY <1>4, <1>6, <2>2 DEF MediumOf, AreBytes, SameBytes
  <2> QED BY <2>1, <2>2
<1>8. ASSUME BoxClear(k + 1), NEW i \in DOMAIN y PROVE y[i] = Cleared(x[i])
  <2>1. CASE box.type = "mdat"
    <3>1. one = [dec |-> b.dec, box |-> DecryptMdat(b.dec, box)]
      BY <2>1 DEF ProcessBox, ProcessAtom
    <3>2. one.box = [box EXCEPT !.body = DecryptBody(b.dec, box.body)]
      BY <3>1 DEF DecryptMdat
    <3>3. y = DecryptBody(b.dec, box.body) /\ x = box.body
      BY <1>4, <2>1, <3>2 DEF IsBox, MediumOf
    <3>4. DOMAIN y = DOMAIN x
      BY <1>7 DEF SameBytes
    <3>5. k + 1 - 1 = k
      OBVIOUS
    <3>6. \A p \in DOMAIN box.body : DecryptBody(b.dec, box.body)[p] = Cleared(box.body[p])
      BY <1>8, <2>1, <3>5 DEF BoxClear
    <3> HIDE DEF x, y, b, box
    <3> QED BY <1>8, <3>3, <3>4, <3>6
  <2>2. CASE box.type # "mdat"
    <3>1. y = <<>>
      BY <1>4, <2>2 DEF MediumOf
    <3> QED BY <1>6, <1>8, <3>1
  <2> QED BY <2>1, <2>2
<1>9. /\ MediaOk(SubSeq(B, 1, k)) /\ MediaOk(b.boxes)
      /\ AreBytes(Taken(k)) /\ SameBytes(Taken(k), Got(k))
      /\ (\A j \in 1 .. k : BoxClear(j)) => \A i \in DOMAIN Got(k) : Got(k)[i] = Cleared(Taken(k)[i])
  BY DEF Matched
<1>10. IsSequence(x) /\ IsSequence(y) /\ IsSequence(Taken(k)) /\ IsSequence(Got(k))
  BY <1>7, <1>9 DEF AreBytes, SameBytes
<1>11. MediaOk(SubSeq(B, 1, k + 1)) /\ Taken(k + 1) = Taken(k) \o x
  <2>1. SubSeq(B, 1, k + 1) = Append(SubSeq(B, 1, k), box)
    BY <1>1, FirstAndNext
  <2> QED BY <1>9, <1>10, <2>1, MediaAdds DEF Taken
<1>12. MediaOk(next.boxes) /\ Got(k + 1) = Got(k) \o y
  <2>1. CASE box.type = "sidx"
    <3>1. next = b /\ y = <<>>
      BY <1>4, <1>5, <2>1 DEF MediumOf
    <3>2. Got(k) \o <<>> = Got(k)
      <4> DEFINE T == ToSet(Got(k))
      <4>1. Got(k) \in Seq(T)
        BY <1>10 DEF IsSequence
      <4> HIDE DEF T
      <4> QED BY <4>1, ConcatEmptySeq
    <3>3. Got(k + 1) = Got(k)
      BY <3>1 DEF Got
    <3> QED BY <1>9, <3>1, <3>2, <3>3
  <2>2. CASE box.type # "sidx"
    <3>1. next.boxes = Append(b.boxes, one.box)
      BY <1>5, <2>2
    <3> HIDE DEF b, next, one
    <3>2. MediaOk(Append(b.boxes, one.box)) /\ MediaOf(Append(b.boxes, one.box)) = MediaOf(b.boxes) \o y
      BY <1>9, <1>10, MediaAdds
    <3> QED BY <3>1, <3>2 DEF Got, b, next
  <2> QED BY <2>1, <2>2
<1> DEFINE s == Taken(k)
           t == Got(k)
<1> HIDE DEF x, y
<1>13. AreBytes(s \o x) /\ SameBytes(s \o x, t \o y)
  BY <1>7, <1>9, SameBytesJoin
<1>14. ASSUME \A j \in 1 .. k + 1 : BoxClear(j), NEW i \in DOMAIN (t \o y)
       PROVE  (t \o y)[i] = Cleared((s \o x)[i])
  <2> DEFINE l == Len(s)
             m == Len(x)
  <2>1. /\ Len(t) = l /\ Len(y) = m /\ l \in Nat /\ m \in Nat
        /\ DOMAIN t = 1 .. l /\ DOMAIN y = 1 .. m
    BY <1>7, <1>9, <1>10, SequenceIs DEF SameBytes
  <2>2. /\ \A j \in 1 .. l : (s \o x)[j] = s[j] /\ (t \o y)[j] = t[j]
        /\ \A j \in 1 .. m : (s \o x)[l + j] = x[j] /\ (t \o y)[l + j] = y[j]
        /\ DOMAIN (t \o y) = 1 .. l + m
    <3>1. /\ \A j \in 1 .. Len(s) : (s \o x)[j] = s[j]
          /\ \A j \in 1 .. Len(x) : (s \o x)[Len(s) + j] = x[j]
      BY <1>10, ConcatIs
    <3>2. /\ \A j \in 1 .. Len(t) : (t \o y)[j] = t[j]
          /\ \A j \in 1 .. Len(y) : (t \o y)[Len(t) + j] = y[j]
          /\ DOMAIN (t \o y) = 1 .. Len(t) + Len(y)
      BY <1>10, ConcatIs
    <3> HIDE DEF s, t
    <3> QED BY <2>1, <3>1, <3>2
  <2>3. /\ \A j \in 1 .. k : BoxClear(j)
        /\ BoxClear(k + 1)
    BY <1>1, <1>14
  <2>4. \A j \in 1 .. l : t[j] = Cleared(s[j])
    BY <1>9, <2>1, <2>3
  <2>5. \A j \in 1 .. m : y[j] = Cleared(x[j])
    BY <1>8, <2>1, <2>3
  <2> HIDE DEF l, m, s, t
  <2>6. CASE i \in 1 .. l
    BY <2>2, <2>4, <2>6
  <2>7. CASE i \notin 1 .. l
    <3>1. i - l \in 1 .. m /\ l + (i - l) = i
      BY <1>14, <2>1, <2>2, <2>7
    <3> QED BY <2>2, <2>5, <3>1, ZenonT(40)
  <2> QED BY <2>6, <2>7
<1> QED BY <1>11, <1>12, <1>13, <1>14 DEF Matched, next, s, t

(* By induction every number of boxes is matched. *)
LEMMA AllMatched ==
  ASSUME segment \in Segment, InitHasNone
  PROVE  \A k \in 0 .. Len(segment.boxes) : Matched(k)
<1> DEFINE N == Len(segment.boxes)
           S == {k \in Nat : k \in 0 .. N => Matched(k)}
<1>1. N \in Nat
  BY CencAssumption, SequenceIs
<1>2. 0 \in S
  BY MatchedFirst
<1>3. ASSUME NEW k \in S PROVE k + 1 \in S
  <2> SUFFICES ASSUME k + 1 \in 0 .. N PROVE Matched(k + 1)
    OBVIOUS
  <2>1. k \in 0 .. N /\ k \in 0 .. N - 1
    BY <1>1
  <2>2. Matched(k)
    BY <2>1
  <2> QED BY <2>1, <2>2, MatchedNext
<1> HIDE DEF S
<1>4. S = Nat
  BY <1>2, <1>3, SetInduction DEF S
<1> QED BY <1>1, <1>4 DEF S

(* The media of the first boxes are at the beginning of those of all boxes. *)
LEMMA TakenGrows ==
  ASSUME segment \in Segment, InitHasNone, NEW k \in 0 .. Len(segment.boxes)
  PROVE  LET given == MediaOf(segment.boxes) IN
         Len(Taken(k)) <= Len(given) /\ \A i \in 1 .. Len(Taken(k)) : Taken(k)[i] = given[i]
<1> DEFINE B == segment.boxes
           N == Len(B)
           Begins(m) == /\ Len(Taken(k)) <= Len(Taken(m))
                        /\ \A i \in 1 .. Len(Taken(k)) : Taken(k)[i] = Taken(m)[i]
           S == {m \in Nat : k + m <= N => Begins(k + m)}
<1>1. IsSequence(B) /\ N \in Nat /\ DOMAIN B = 1 .. N /\ k \in Nat /\ k <= N
  BY CencAssumption, SequenceIs
<1>2. \A m \in 0 .. N : MediaOk(SubSeq(B, 1, m)) /\ IsSequence(Taken(m)) /\ Len(Taken(m)) \in Nat
  BY AllMatched, SequenceIs DEF Matched, AreBytes
<1>3. Begins(k)
  BY <1>2
<1>4. ASSUME NEW m \in S PROVE m + 1 \in S
  <2> SUFFICES ASSUME k + (m + 1) <= N PROVE Begins(k + (m + 1))
    OBVIOUS
  <2> DEFINE j == k + m
  <2>1. j \in 0 .. N - 1 /\ j \in 0 .. N /\ j + 1 = k + (m + 1) /\ Begins(j) /\ j + 1 \in DOMAIN B
        /\ j + 1 \in 0 .. N
    BY <1>1
  <2> HIDE DEF j
  <2> DEFINE x == MediumOf(B[j + 1])
  <2>2. IsSequence(x)
    <3>1. /\ IsBox(B[j + 1])
          /\ B[j + 1].type = "mdat" => AreBytes(B[j + 1].body)
      BY <2>1, FragmentIs
    <3> QED BY <3>1, EmptySeq DEF IsBox, MediumOf, IsSequence
  <2>3. Taken(j + 1) = Taken(j) \o x
    <3>1. SubSeq(B, 1, j + 1) = Append(SubSeq(B, 1, j), B[j + 1])
      BY <1>1, <2>1, FirstAndNext
    <3> QED BY <1>2, <2>1, <2>2, <3>1, MediaAdds DEF Taken
  <2> HIDE DEF x
  <2> DEFINE a == Len(Taken(k))
             b == Len(Taken(j))
             c == Len(Taken(j + 1))
  <2>4. a \in Nat /\ b \in Nat /\ c \in Nat /\ Len(x) \in Nat /\ c = b + Len(x)
        /\ \A i \in 1 .. b : Taken(j + 1)[i] = Taken(j)[i]
    BY <1>2, <2>1, <2>2, <2>3, ConcatIs
  <2>5. a <= b /\ \A i \in 1 .. a : Taken(k)[i] = Taken(j)[i]
    BY <2>1
  <2> HIDE DEF a, b, c
  <2>6. a <= c /\ \A i \in 1 .. a : Taken(k)[i] = Taken(j + 1)[i]
    <3>1. a <= c /\ \A i \in 1 .. a : i \in 1 .. b
      BY <2>4, <2>5
    <3> QED BY <2>4, <2>5, <3>1
  <2> QED BY <2>1, <2>6 DEF a, c
<1>5. 0 \in S
  <2>1. k + 0 = k
    BY <1>1
  <2> HIDE DEF Begins
  <2> QED BY <1>3, <2>1
<1> HIDE DEF S, Begins
<1>6. S = Nat
  BY <1>4, <1>5, SetInduction DEF S
<1>7. Begins(N)
  <2>1. N - k \in Nat /\ k + (N - k) = N /\ k + (N - k) <= N
    BY <1>1
  <2> HIDE DEF N
  <2> QED BY <1>6, <2>1 DEF S
<1>8. Taken(N) = MediaOf(B)
  <2>1. SubSeq(B, 1, N) = B
    BY <1>1 DEF IsSequence
  <2> QED BY <2>1 DEF Taken
<1> QED BY <1>7, <1>8 DEF Begins

(* What is yielded of the media in any state. *)
LEMMA MediaYielded ==
  ASSUME OutInv, InitHasNone
  PROVE  LET given == MediaOf(segment.boxes)
             got   == MediaOf(out)
         IN  /\ Len(got) <= Len(given)
             /\ \A i \in DOMAIN got : IsByte(got[i]) /\ got[i].id = given[i].id
             /\ (\A k \in DOMAIN segment.boxes : BoxClear(k)) =>
                  \A i \in DOMAIN got : got[i] = Cleared(given[i])
<1> DEFINE given == MediaOf(segment.boxes)
           got == MediaOf(out)
           N == Len(segment.boxes)
<1>1. segment \in Segment /\ N \in Nat /\ DOMAIN segment.boxes = 1 .. N
  BY CencAssumption, SequenceIs DEF OutInv
<1>2. IsSequence(given)
  <2>1. MediaOk(segment.boxes)
    <3>1. \A i \in DOMAIN segment.boxes : IsSequence(MediumOf(segment.boxes[i]))
      <4> TAKE i \in DOMAIN segment.boxes
      <4>1. IsBox(segment.boxes[i])
        BY <1>1, FragmentIs
      <4> QED BY <4>1, EmptySeq DEF IsBox, MediumOf, IsSequence
    <3>2. IsSequence(segment.boxes)
      BY <1>1, CencAssumption
    <3> QED BY <3>1, <3>2 DEF MediaOk
  <2> QED BY <2>1, MediaIs
<1>3. Len(given) \in Nat
  BY <1>2, SequenceIs
<1>4. CASE out = <<>>
  <2>1. got = <<>> /\ DOMAIN <<>> = {} /\ Len(<<>>) = 0
    <3>1. IsSequence(<<>>) /\ DOMAIN <<>> = {}
      BY EmptySeq DEF IsSequence
    <3> QED BY <1>4, <3>1, NoMedia
  <2> QED BY <1>3, <2>1
<1>5. ASSUME NEW k \in 0 .. N, Given(k)
      PROVE  /\ Len(got) <= Len(given)
             /\ \A i \in DOMAIN got : IsByte(got[i]) /\ got[i].id = given[i].id
             /\ (\A j \in DOMAIN segment.boxes : BoxClear(j)) =>
                  \A i \in DOMAIN got : got[i] = Cleared(given[i])
  <2>1. Matched(k)
    BY <1>1, AllMatched
  <2>2. got = Got(k)
    <3> DEFINE boxes == Boxwise(segment, k).boxes
    <3>1. SameBoxes(out, boxes)
      BY <1>5 DEF Given
    <3> HIDE DEF boxes
    <3>2. [i \in DOMAIN out |-> IF out[i].type = "mdat" THEN out[i].body ELSE <<>>]
            = [i \in DOMAIN boxes |-> IF boxes[i].type = "mdat" THEN boxes[i].body ELSE <<>>]
      BY <3>1 DEF SameBoxes
    <3> QED BY <3>2 DEF MediaOf, Got, boxes
  <2>3. Len(Taken(k)) <= Len(given) /\ \A i \in 1 .. Len(Taken(k)) : Taken(k)[i] = given[i]
    BY <1>1, TakenGrows
  <2>4. /\ AreBytes(Taken(k)) /\ SameBytes(Taken(k), got)
        /\ (\A j \in 1 .. k : BoxClear(j)) => \A i \in DOMAIN got : got[i] = Cleared(Taken(k)[i])
    BY <2>1, <2>2 DEF Matched
  <2> HIDE DEF got, given
  <2>5. Len(got) = Len(Taken(k)) /\ DOMAIN got = 1 .. Len(Taken(k))
    BY <2>4, SequenceIs DEF SameBytes, AreBytes
  <2>6. \A j \in 1 .. k : j \in DOMAIN segment.boxes
    BY <1>1
  <2> QED BY <2>3, <2>4, <2>5, <2>6 DEF SameBytes, AreBytes
<1> QED BY <1>4, <1>5 DEF OutInv

(* The media yielded are the bytes of the segment, in order, with none left *)
(* out, repeated or made up.                                                *)
MediaInPlace ==
  LET given == MediaOf(segment.boxes)
      got   == MediaOf(out)
  IN  /\ Len(got) <= Len(given)
      /\ \A i \in DOMAIN got : IsByte(got[i]) /\ got[i].id = given[i].id

(* decrypt_segment_streaming neither drops nor repeats nor moves a byte of  *)
(* the media, whatever the boxes, the keys and the chunks.                  *)
THEOREM MediaStayInPlace == CencSpec => [](InitHasNone => MediaInPlace)
<1>1. OutInv => (InitHasNone => MediaInPlace)
  BY MediaYielded DEF MediaInPlace
<1> QED BY <1>1, OutInvariant, PTL

-----------------------------------------------------------------------------
(* Samples encrypted as ISO/IEC 23001-7 says: the mask of every byte        *)

Clear(byte) == [byte EXCEPT !.mask = {}]

-----------------------------------------------------------------------------
(* The keystream byte of a byte that has no other clears it. *)
LEMMA FlipClears ==
  ASSUME NEW b, IsByte(b), NEW keystream, b.mask = {keystream}
  PROVE  Flip(b, keystream) = Clear(b)
<1>1. ({keystream} \ {keystream}) \cup ({keystream} \ {keystream}) = {}
  OBVIOUS
<1>2. Flip(b, keystream) = [b EXCEPT !.mask = (b.mask \ {keystream}) \cup ({keystream} \ b.mask)]
  BY DEF Flip
<1> QED BY <1>1, <1>2 DEF Clear

(* A byte without a mask is in the clear. *)
LEMMA ClearStays ==
  ASSUME NEW b, IsByte(b), b.mask = {}
  PROVE  b = Clear(b)
<1>1. b = [kind |-> "byte", id |-> b.id, mask |-> b.mask]
  BY DEF IsByte
<1>2. Clear(b) = [kind |-> "byte", id |-> b.id, mask |-> {}]
  BY <1>1 DEF Clear
<1> QED BY <1>1, <1>2

(* Quotient and remainder. *)
LEMMA Divided ==
  ASSUME NEW a \in Nat, NEW d \in Nat \ {0}
  PROVE  /\ a \div d \in Nat /\ a % d \in Nat /\ a % d < d
         /\ a = d * (a \div d) + (a % d)
BY SMT

(* The quotient and the remainder of what is put together of them. *)
LEMMA DividedOnce ==
  ASSUME NEW d \in Nat \ {0}, NEW q \in Nat, NEW r \in 0 .. d - 1
  PROVE  (d * q + r) \div d = q /\ (d * q + r) % d = r
<1>1. r + q * d = d * q + r /\ r \div d = 0
  BY SMT
<1>2. (r + q * d) \div d = q
  BY <1>1, DivStep
<1> DEFINE a == d * q + r
<1>3. a \in Nat /\ a \div d = q
  BY <1>1, <1>2, SMT
<1> HIDE DEF a
<1>4. a = d * (a \div d) + (a % d)
  BY <1>3, Divided
<1> QED BY <1>3, <1>4 DEF a

(* Whole divisors do not change a remainder. *)
LEMMA RemainderStep ==
  ASSUME NEW q \in Nat, NEW o \in Nat, NEW d \in Nat \ {0}
  PROVE  (q * d + o) % d = o % d
<1> DEFINE k == o \div d
           r == o % d
<1>1. k \in Nat /\ r \in 0 .. d - 1 /\ o = d * k + r
  BY Divided
<1> HIDE DEF k, r
<1>2. q * d + o = d * (q + k) + r /\ q + k \in Nat
  BY <1>1, SMT
<1>3. (d * (q + k) + r) % d = r
  BY <1>1, <1>2, DividedOnce
<1> QED BY <1>2, <1>3 DEF r

(* CTR decryption clears what is masked with the keystream. *)
LEMMA CtrClears ==
  ASSUME NEW data, AreBytes(data), NEW key, NEW iv, NEW q \in Nat,
         Streamed(data, key, iv, q * Block)
  PROVE  \A j \in DOMAIN data : CtrDecrypt(data, key, iv, q)[j] = Clear(data[j])
<1> TAKE j \in DOMAIN data
<1> DEFINE o == j - 1
<1>1. o \in 0 .. Len(data) - 1 /\ o \in Nat /\ o + 1 = j
  BY SequenceIs DEF AreBytes
<1> HIDE DEF o
<1>2. (q * Block + o) \div Block = q + o \div Block
  <2>1. (o + q * Block) \div Block = o \div Block + q
    BY <1>1, BlockAssumption, DivStep
  <2>2. o \div Block \in Nat /\ q * Block \in Nat
    BY <1>1, BlockAssumption, Divided, SMT
  <2> DEFINE m == q * Block
             k == o \div Block
  <2>3. m + o = o + m /\ k + q = q + k
    BY <1>1, <2>2
  <2> HIDE DEF m, k
  <2>4. (m + o) \div Block = q + k
    BY <2>1, <2>3 DEF m, k
  <2> QED BY <2>4 DEF m, k
<1>3. (q * Block + o) % Block = o % Block
  BY <1>1, BlockAssumption, RemainderStep
<1>4. data[j].mask = {<<"ctr", key, iv, q + o \div Block, o % Block>>}
  BY <1>1, <1>2, <1>3 DEF Streamed
<1>5. CtrDecrypt(data, key, iv, q)[j] = Flip(data[j], <<"ctr", key, iv, q + o \div Block, o % Block>>)
  BY <1>1 DEF CtrDecrypt, o
<1> QED BY <1>4, <1>5, FlipClears DEF AreBytes

(* Multiples are in the order of what they are multiples of. *)
LEMMA Multiplied ==
  ASSUME NEW a \in Nat, NEW b \in Nat, NEW d \in Nat \ {0}
  PROVE  a <= b <=> a * d <= b * d
<1>1. ASSUME NEW x \in Nat, NEW y \in Nat, x <= y PROVE x * d <= y * d
  <2> DEFINE k == y - x
  <2>1. k \in Nat /\ y = x + k
    BY <1>1
  <2> HIDE DEF k
  <2>2. y * d = x * d + k * d
    BY <2>1, Distribute
  <2>3. x * d \in Nat /\ k * d \in Nat
    BY <2>1, SMT
  <2> QED BY <2>2, <2>3
<1>2. ASSUME b < a PROVE ~(a * d <= b * d)
  <2>1. (b + 1) * d <= a * d
    BY <1>1, <1>2
  <2>2. (b + 1) * d = b * d + 1 * d
    BY Distribute
  <2>3. b * d \in Nat /\ a * d \in Nat /\ 1 * d = d
    BY SMT
  <2> QED BY <2>1, <2>2, <2>3
<1> QED BY <1>1, <1>2

(* The whole blocks among n bytes: a byte o is in block o \div d. *)
LEMMA WholeBlocks ==
  ASSUME NEW n \in Nat, NEW o \in Nat, NEW d \in Nat \ {0}
  PROVE  /\ (o \div d + 1) * d <= n <=> o < (n \div d) * d
         /\ o < (n \div d) * d <=> o \div d < n \div d
         /\ o < d <=> o \div d = 0
         /\ (o \div d) * d <= o
<1> DEFINE b == o \div d
           r == o % d
           q == n \div d
           s == n % d
<1>1. /\ b \in Nat /\ r \in Nat /\ r < d /\ o = d * b + r
      /\ q \in Nat /\ s \in Nat /\ s < d /\ n = d * q + s
  BY Divided
<1> HIDE DEF b, r, q, s
<1> DEFINE bd == b * d
           qd == q * d
<1>2. /\ bd \in Nat /\ qd \in Nat /\ o = bd + r /\ n = qd + s
      /\ (b + 1) * d = bd + d /\ (q + 1) * d = qd + d
  BY <1>1, SMT
<1>3. /\ b + 1 <= q <=> bd + d <= qd
      /\ q <= b <=> qd <= bd
      /\ q + 1 <= b + 1 <=> qd + d <= bd + d
  BY <1>1, <1>2, Multiplied
<1>4. b # 0 => d <= bd
  <2> SUFFICES ASSUME b # 0 PROVE d <= bd
    OBVIOUS
  <2>1. 1 <= b /\ 1 \in Nat
    BY <1>1
  <2>2. 1 * d <= b * d
    BY <1>1, <2>1, Multiplied
  <2> QED BY <2>2
<1>5. b = 0 => bd = 0
  BY <1>1, SMT
<1> HIDE DEF bd, qd
<1>6. bd + d <= n <=> o < qd
  BY <1>1, <1>2, <1>3
<1>7. o < qd <=> b < q
  BY <1>1, <1>2, <1>3
<1>8. o < d <=> b = 0
  BY <1>1, <1>2, <1>4, <1>5
<1>9. bd <= o
  BY <1>1, <1>2
<1> QED BY <1>2, <1>6, <1>7, <1>8, <1>9 DEF bd, qd, b, q

(* One chain over all whole blocks. *)
WholeChain(data, key, iv) ==
  \A o \in 0 .. Len(data) - 1 :
    data[o + 1].mask =
      IF (o \div Block + 1) * Block <= Len(data)
      THEN {<<"cbc", key, IF o \div Block = 0 THEN <<"iv", iv>>
                          ELSE <<"block", data[(o \div Block - 1) * Block + 1].id>>, o % Block>>}
      ELSE {}

(* CBC decryption clears blocks that are all chained. *)
LEMMA CbcClears ==
  ASSUME NEW data, AreBytes(data), NEW key, NEW iv, WholeChain(data, key, iv)
  PROVE  \A j \in DOMAIN data : CbcDecrypt(data, key, iv)[j] = Clear(data[j])
<1> TAKE j \in DOMAIN data
<1> DEFINE o == j - 1
           n == Len(data)
           b == o \div Block
           link == IF b = 0 THEN <<"iv", iv>> ELSE <<"block", data[(b - 1) * Block + 1].id>>
<1>1. o \in 0 .. n - 1 /\ o \in Nat /\ o + 1 = j /\ n \in Nat
  BY SequenceIs DEF AreBytes
<1>2. CbcDecrypt(data, key, iv)[j]
        = IF j > (n \div Block) * Block THEN data[j]
          ELSE Flip(data[j], <<"cbc", key, IF j <= Block THEN <<"iv", iv>>
                                           ELSE <<"block", data[(b - 1) * Block + 1].id>>, o % Block>>)
  BY DEF CbcDecrypt
<1>3. data[j].mask = IF (b + 1) * Block <= n THEN {<<"cbc", key, link, o % Block>>} ELSE {}
  BY <1>1 DEF WholeChain
<1> HIDE DEF o, n
<1>4. /\ (b + 1) * Block <= n <=> o < (n \div Block) * Block
      /\ o < Block <=> b = 0
  BY <1>1, BlockAssumption, WholeBlocks
<1>5. (n \div Block) * Block \in Nat
  BY <1>1, BlockAssumption, Divided, SMT
<1> HIDE DEF b
<1> DEFINE m == (n \div Block) * Block
<1>6. /\ j > m <=> ~(o < m)
      /\ j <= Block <=> o < Block
  BY <1>1, <1>5, BlockAssumption
<1>7. IsByte(data[j])
  BY DEF AreBytes
<1> HIDE DEF m
<1>8. CASE o < m
  <2>1. data[j].mask = {<<"cbc", key, link, o % Block>>}
    BY <1>3, <1>4, <1>8 DEF m
  <2>2. CbcDecrypt(data, key, iv)[j] = Flip(data[j], <<"cbc", key, link, o % Block>>)
    BY <1>2, <1>4, <1>6, <1>8 DEF m
  <2> HIDE DEF link
  <2> QED BY <1>7, <2>1, <2>2, FlipClears
<1>9. CASE ~(o < m)
  <2>1. data[j].mask = {}
    BY <1>3, <1>4, <1>9 DEF m
  <2>2. CbcDecrypt(data, key, iv)[j] = data[j]
    BY <1>2, <1>6, <1>9 DEF m
  <2> QED BY <1>7, <2>1, <2>2, ClearStays
<1> QED BY <1>8, <1>9

(* How many members of C are less, and the places of n that are in blocks   *)
(* of C.                                                                    *)
Under(C, b)     == Cardinality({c \in C : c < b})
InBlocks(n, d, C) == {j \in 1 .. n : (j - 1) \div d \in C}

(* How many of the first x places are in blocks of C. *)
LEMMA ChosenRank ==
  ASSUME NEW n \in Nat, NEW d \in Nat \ {0}, NEW C \in SUBSET Nat, NEW x \in 0 .. n
  PROVE  /\ Under(C, x \div d) \in Nat
         /\ PlaceOf(InBlocks(n, d, C), x)
              = Under(C, x \div d) * d + IF x \div d \in C THEN x % d ELSE 0
<1> DEFINE S == InBlocks(n, d, C)
           G(b) == Cardinality({c \in C : c < b})
           R(y) == Cardinality({k \in S : k <= y})
           Q(y) == G(y \div d) * d + IF y \div d \in C THEN y % d ELSE 0
           W == {y \in Nat : y \in 0 .. n => R(y) = Q(y)}
<1> USE DEF InBlocks
<1>0. \A c \in C : c \in Nat
  OBVIOUS
<1>1. \A b \in Nat : IsFiniteSet({c \in C : c < b}) /\ G(b) \in Nat
  <2> TAKE b \in Nat
  <2>1. IsFiniteSet(0 .. b) /\ {c \in C : c < b} \in SUBSET (0 .. b)
    <3>1. ASSUME NEW c \in C, c < b PROVE c \in 0 .. b
      <4>1. c \in Nat /\ b \in Nat
        BY <1>0
      <4> QED BY <3>1, <4>1
    <3>2. IsFiniteSet(0 .. b)
      <4>1. 0 \in Int /\ b \in Int
        OBVIOUS
      <4> QED BY <4>1, FS_Interval
    <3>3. {c \in C : c < b} \subseteq 0 .. b
      BY <3>1
    <3> QED BY <3>2, <3>3
  <2> QED BY <2>1, FS_Subset, FS_CardinalityType
<1>2. IsFiniteSet(S) /\ S \in SUBSET Nat
  <2>1. IsFiniteSet(1 .. n) /\ S \in SUBSET (1 .. n)
    BY FS_Interval
  <2> QED BY <2>1, FS_Subset
<1>3. 0 \in W
  <2>1. {k \in S : k <= 0} = {}
    OBVIOUS
  <2>2. 0 \div d = 0 /\ 0 % d = 0
    BY SMT
  <2>3. {c \in C : c < 0} = {}
    <3>1. ASSUME NEW c \in C PROVE ~(c < 0)
      <4>1. c \in Nat
        BY <1>0
      <4> QED BY <4>1
    <3> QED BY <3>1
  <2>4. R(0) = 0 /\ G(0) = 0
    BY <2>1, <2>3, FS_EmptySet
  <2>5. 0 * d = 0
    BY SMT
  <2>6. Q(0) = 0
    <3>1. G(0 \div d) = 0
      BY <2>2, <2>4
    <3>2. Q(0) = 0 * d + 0
      BY <2>2, <3>1
    <3> QED BY <2>5, <3>2
  <2> QED BY <2>4, <2>6
<1>4. ASSUME NEW y \in W PROVE y + 1 \in W
  <2> SUFFICES ASSUME y + 1 \in 0 .. n PROVE R(y + 1) = Q(y + 1)
    OBVIOUS
  <2> DEFINE b == y \div d
             r == y % d
  <2>1. y \in Nat /\ y \in 0 .. n /\ R(y) = Q(y)
    OBVIOUS
  <2>2. b \in Nat /\ r \in Nat /\ r < d /\ y = d * b + r
    BY <2>1, Divided
  <2>3. y + 1 \in S <=> b \in C
    BY <2>1
  <2>4. R(y + 1) = R(y) + IF b \in C THEN 1 ELSE 0
    <3> DEFINE T == {k \in S : k <= y}
    <3>1. IsFiniteSet(T) /\ Cardinality(T) \in Nat
      BY <1>2, FS_Subset, FS_CardinalityType
    <3>2. {k \in S : k <= y + 1} = IF y + 1 \in S THEN T \cup {y + 1} ELSE T
      BY <1>2, <2>1
    <3>3. y + 1 \notin T
      BY <2>1
    <3> HIDE DEF b
    <3>4. Cardinality(T \cup {y + 1}) = Cardinality(T) + 1
      BY <3>1, <3>3, FS_AddElement
    <3>5. R(y) = Cardinality(T) /\ R(y + 1) = Cardinality(IF y + 1 \in S THEN T \cup {y + 1} ELSE T)
      BY <3>2
    <3> HIDE DEF T, R
    <3> QED BY <2>3, <3>1, <3>4, <3>5
  <2>5. R(y) = G(b) * d + IF b \in C THEN r ELSE 0
    BY <2>1
  <2>6. G(b) \in Nat /\ G(b + 1) \in Nat /\ G(b + 1) = G(b) + IF b \in C THEN 1 ELSE 0
    <3> DEFINE T == {c \in C : c < b}
    <3>1. IsFiniteSet(T) /\ Cardinality(T) \in Nat
      BY <1>1, <2>2
    <3>2. \A c \in C : c < b + 1 <=> c < b \/ c = b
      <4>1. b \in Nat
        BY <2>2
      <4> HIDE DEF b
      <4> QED BY <1>0, <4>1
    <3>3. {c \in C : c < b + 1} = IF b \in C THEN T \cup {b} ELSE T
      <4> HIDE DEF b
      <4> QED BY <3>2 DEF T
    <3>4. b \notin T
      BY <2>2
    <3>5. Cardinality(T \cup {b}) = Cardinality(T) + 1
      <4> HIDE DEF b, T
      <4> QED BY <3>1, <3>4, FS_AddElement
    <3>6. b \in Nat /\ b + 1 \in Nat
      BY <2>2
    <3> HIDE DEF b
    <3>7. G(b) \in Nat /\ G(b + 1) \in Nat
      BY <1>1, <3>6
    <3>8. G(b) = Cardinality(T) /\ G(b + 1) = Cardinality(IF b \in C THEN T \cup {b} ELSE T)
      BY <3>3 DEF T
    <3> HIDE DEF G, T
    <3> QED BY <3>1, <3>5, <3>7, <3>8
  <2> DEFINE g == G(b)
             h == G(b + 1)
  <2>7. CASE r + 1 < d
    <3>1. y + 1 = d * b + (r + 1) /\ r + 1 \in 0 .. d - 1
      BY <2>2, <2>7, SMT
    <3>2. (y + 1) \div d = b /\ (y + 1) % d = r + 1
      <4> DEFINE t == r + 1
      <4> HIDE DEF t, b
      <4>1. (d * b + t) \div d = b /\ (d * b + t) % d = t
        BY <2>2, <3>1, DividedOnce DEF t
      <4> QED BY <3>1, <4>1 DEF t
    <3>3. Q(y + 1) = g * d + IF b \in C THEN r + 1 ELSE 0
      BY <3>2
    <3>4. g * d \in Nat
      BY <2>6, SMT
    <3> DEFINE m == g * d
    <3> HIDE DEF m, b, r, g, R, Q
    <3> QED BY <2>2, <2>4, <2>5, <3>3, <3>4 DEF m, g
  <2>8. CASE r + 1 = d
    <3>1. y + 1 = d * (b + 1) + 0 /\ 0 \in 0 .. d - 1
      BY <2>2, <2>8, SMT
    <3>2. (y + 1) \div d = b + 1 /\ (y + 1) % d = 0
      <4> DEFINE c == b + 1
      <4>1. c \in Nat
        BY <2>2
      <4> HIDE DEF c, b
      <4>2. (d * c + 0) \div d = c /\ (d * c + 0) % d = 0
        BY <3>1, <4>1, DividedOnce
      <4> QED BY <3>1, <4>2 DEF c
    <3>3. Q(y + 1) = h * d + IF b + 1 \in C THEN 0 ELSE 0
      BY <3>2
    <3>4. h * d = g * d + IF b \in C THEN d ELSE 0
      <4>1. (g + 1) * d = g * d + 1 * d /\ (g + 0) * d = g * d
        BY <2>6, Distribute
      <4>2. 1 * d = d /\ g * d \in Nat
        BY <2>6, SMT
      <4> HIDE DEF g, h, b
      <4> QED BY <2>6, <4>1, <4>2 DEF g, h
    <3>5. g * d \in Nat /\ h * d \in Nat
      BY <2>6, SMT
    <3> DEFINE m == g * d
               l == h * d
    <3> HIDE DEF m, l, b, r, g, h, R, Q
    <3> QED BY <2>2, <2>4, <2>5, <2>8, <3>3, <3>4, <3>5 DEF m, l, g
  <2> QED BY <2>2, <2>7, <2>8
<1> HIDE DEF W, R, Q
<1>5. W = Nat
  BY <1>3, <1>4, SetInduction DEF W
<1>6. R(x) = Q(x)
  BY <1>5 DEF W
<1>7. x \div d \in Nat
  BY Divided
<1> QED BY <1>1, <1>6, <1>7 DEF R, Q, PlaceOf, Under

(* The whole chain is that of a pattern that skips no block. *)
LEMMA ChainWhole ==
  ASSUME NEW data, AreBytes(data), NEW key, NEW iv, NEW crypt \in Nat \ {0},
         ChainedBy(data, key, iv, crypt, 0)
  PROVE  WholeChain(data, key, iv)
<1> DEFINE n == Len(data)
<1>1. n \in Nat
  BY SequenceIs DEF AreBytes
<1>2. \A b \in Nat : b % (crypt + 0) < crypt
  BY Divided
<1> SUFFICES ASSUME NEW o \in 0 .. n - 1
             PROVE  data[o + 1].mask =
                      IF (o \div Block + 1) * Block <= n
                      THEN {<<"cbc", key, IF o \div Block = 0 THEN <<"iv", iv>>
                                          ELSE <<"block", data[(o \div Block - 1) * Block + 1].id>>,
                              o % Block>>}
                      ELSE {}
  BY DEF WholeChain
<1> DEFINE b == o \div Block
           B == Before(data, crypt, 0, b)
<1>3. b \in Nat
  BY BlockAssumption, Divided
<1>4. InChain(data, crypt, 0, b) <=> (b + 1) * Block <= n
  BY <1>2, <1>3 DEF InChain
<1>5. data[o + 1].mask = IF InChain(data, crypt, 0, b)
                         THEN {<<"cbc", key, ChainedTo(data, crypt, 0, iv, b), o % Block>>} ELSE {}
  BY DEF ChainedBy
<1> HIDE DEF b, n
<1>6. ASSUME (b + 1) * Block <= n PROVE B = 0 .. b - 1
  <2>1. ASSUME NEW c \in 0 .. b - 1 PROVE InChain(data, crypt, 0, c)
    <3>1. c \in Nat /\ c + 1 \in Nat /\ b + 1 \in Nat /\ c + 1 <= b + 1
      BY <1>3
    <3>2. (c + 1) * Block <= (b + 1) * Block
      BY <3>1, BlockAssumption, Multiplied
    <3>3. (c + 1) * Block \in Nat /\ (b + 1) * Block \in Nat
      BY <3>1, BlockAssumption, SMT
    <3> DEFINE p == (c + 1) * Block
               q == (b + 1) * Block
    <3>4. p <= n
      <4>1. p \in Nat /\ q \in Nat /\ p <= q /\ q <= n
        BY <1>6, <3>2, <3>3
      <4> HIDE DEF p, q
      <4> QED BY <1>1, <4>1
    <3> QED BY <1>2, <3>1, <3>4 DEF InChain, n
  <2> QED BY <2>1 DEF Before
<1>7. ASSUME (b + 1) * Block <= n
      PROVE  ChainedTo(data, crypt, 0, iv, b)
               = IF b = 0 THEN <<"iv", iv>> ELSE <<"block", data[(b - 1) * Block + 1].id>>
  <2>1. B = 0 .. b - 1
    BY <1>6, <1>7
  <2>2. CASE b = 0
    <3>1. B = {}
      BY <2>1, <2>2
    <3> QED BY <2>2, <3>1 DEF ChainedTo
  <2>3. CASE b # 0
    <3>1. b - 1 \in B /\ B # {}
      BY <1>3, <2>1, <2>3
    <3>2. IsFiniteSet(B) /\ B \in SUBSET Nat
      <4>1. 0 \in Int /\ b - 1 \in Int
        BY <1>3
      <4>2. IsFiniteSet(0 .. b - 1)
        BY <4>1, FS_Interval
      <4>3. \A c \in 0 .. b - 1 : c \in Nat
        OBVIOUS
      <4> QED BY <2>1, <4>2, <4>3
    <3>3. Greatest(B) \in B /\ \A c \in B : Greatest(B) >= c
      <4> HIDE DEF B
      <4> QED BY <3>1, <3>2, GreatestIs
    <3>4. Greatest(B) = b - 1
      <4> DEFINE g == Greatest(B)
      <4>1. g \in 0 .. b - 1 /\ g >= b - 1
        BY <2>1, <3>1, <3>3
      <4> HIDE DEF g
      <4>2. g = b - 1
        BY <1>3, <4>1
      <4> QED BY <4>2 DEF g
    <3> QED BY <2>3, <3>1, <3>4 DEF ChainedTo
  <2> QED BY <2>2, <2>3
<1> QED BY <1>4, <1>5, <1>7 DEF b, n

(* A pattern that chooses no block leaves everything in the clear. *)
LEMMA ChainNothing ==
  ASSUME NEW data, AreBytes(data), NEW key, NEW iv, NEW skip \in Nat \ {0},
         ChainedBy(data, key, iv, 0, skip)
  PROVE  \A j \in DOMAIN data : data[j] = Clear(data[j])
<1> TAKE j \in DOMAIN data
<1> DEFINE o == j - 1
           b == o \div Block
<1>1. o \in 0 .. Len(data) - 1 /\ o \in Nat /\ o + 1 = j
  BY SequenceIs DEF AreBytes
<1>2. b \in Nat
  BY <1>1, BlockAssumption, Divided
<1> HIDE DEF b, o
<1>3. b % skip \in Nat /\ 0 + skip = skip
  BY <1>2, Divided
<1>4. ~InChain(data, 0, skip, b)
  <2> DEFINE r == b % skip
  <2>1. r \in Nat
    BY <1>3
  <2> HIDE DEF r
  <2>2. ~(r < 0)
    BY <2>1
  <2> QED BY <1>3, <2>2 DEF InChain, r
<1>5. data[j].mask = {}
  BY <1>1, <1>4 DEF ChainedBy, b
<1> QED BY <1>5, ClearStays DEF AreBytes

(* The bytes a pattern chooses, and their places among each other. *)
InPattern(data, crypt, skip) == {j \in DOMAIN data : InChain(data, crypt, skip, (j - 1) \div Block)}

(* The place of a chosen byte counts the chosen blocks before its own. *)
LEMMA InPatternAt ==
  ASSUME NEW data, AreBytes(data), NEW crypt, NEW skip
  PROVE  LET S    == InPattern(data, crypt, skip)
             G(b) == Cardinality(Before(data, crypt, skip, b))
         IN  /\ \A j \in S : /\ G((j - 1) \div Block) \in Nat
                             /\ PlaceOf(S, j)
                                  = G((j - 1) \div Block) * Block + ((j - 1) % Block) + 1
             /\ \E g \in Nat : Cardinality(S) = g * Block
<1> DEFINE S    == InPattern(data, crypt, skip)
           G(b) == Cardinality(Before(data, crypt, skip, b))
           n == Len(data)
           C == {b \in Nat : InChain(data, crypt, skip, b)}
           R(x) == PlaceOf(S, x)
<1>1. n \in Nat /\ DOMAIN data = 1 .. n
  BY SequenceIs DEF AreBytes
<1>2. \A j \in 1 .. n : (j - 1) \div Block \in Nat /\ j - 1 \in Nat
  <2> TAKE j \in 1 .. n
  <2>1. j - 1 \in Nat
    OBVIOUS
  <2> QED BY <2>1, BlockAssumption, Divided
<1>3. S = InBlocks(n, Block, C)
  BY <1>1, <1>2 DEF InPattern, InBlocks
<1>4. \A b \in Nat : Under(C, b) = G(b)
  <2> TAKE b \in Nat
  <2>1. \A c : c \in Nat /\ c < b <=> c \in 0 .. b - 1
    OBVIOUS
  <2>2. {c \in C : c < b} = Before(data, crypt, skip, b)
    BY <2>1 DEF Before
  <2> QED BY <2>2 DEF Under
<1> HIDE DEF S, G, C, n
<1>5. ASSUME NEW x \in 0 .. n
      PROVE  /\ x \div Block \in Nat
             /\ G(x \div Block) \in Nat
             /\ R(x) = G(x \div Block) * Block + IF x \div Block \in C THEN x % Block ELSE 0
  <2>1. x \div Block \in Nat
    BY BlockAssumption, Divided
  <2>2. Under(C, x \div Block) = G(x \div Block)
    BY <1>4, <2>1
  <2>3. C \in SUBSET Nat
    BY DEF C
  <2>4. Block \in Nat \ {0} /\ n \in Nat /\ x \in 0 .. n
    BY <1>1, BlockAssumption
  <2>5. \A N \in Nat : \A D \in SUBSET Nat : \A y \in 0 .. N :
          /\ Under(D, y \div Block) \in Nat
          /\ PlaceOf(InBlocks(N, Block, D), y)
               = Under(D, y \div Block) * Block + IF y \div Block \in D THEN y % Block ELSE 0
    BY ONLY ChosenRank, BlockAssumption
  <2>6. /\ Under(C, x \div Block) \in Nat
        /\ PlaceOf(InBlocks(n, Block, C), x)
             = Under(C, x \div Block) * Block + IF x \div Block \in C THEN x % Block ELSE 0
    <3>1. C \in SUBSET Nat
      BY <2>3
    <3>2. n \in Nat
      BY <2>4
    <3>3. x \in 0 .. n
      BY <2>4
    <3>4. \A y \in 0 .. n : Under(C, y \div Block) \in Nat
      BY <3>1, <3>2, <2>5
    <3>5. \A y \in 0 .. n : PlaceOf(InBlocks(n, Block, C), y)
             = Under(C, y \div Block) * Block + IF y \div Block \in C THEN y % Block ELSE 0
      BY <3>1, <3>2, <2>5
    <3> QED BY <3>3, <3>4, <3>5
  <2> QED BY <1>3, <2>1, <2>2, <2>6
<1>6. IsFiniteSet(S) /\ \A j \in S : j \in 1 .. n
  <2>1. IsFiniteSet(1 .. n) /\ S \subseteq 1 .. n
    BY <1>1, <1>3, FS_Interval DEF InBlocks
  <2> QED BY <2>1, FS_Subset
<1>7. ASSUME NEW j \in S
      PROVE  /\ G((j - 1) \div Block) \in Nat
             /\ R(j) = G((j - 1) \div Block) * Block + ((j - 1) % Block) + 1
  <2> DEFINE x == j - 1
             T == {k \in S : k <= x}
  <2>1. x \in 0 .. n /\ x \in Nat /\ x + 1 = j /\ x \div Block \in C
    BY <1>1, <1>3, <1>6 DEF InBlocks
  <2>2. G(x \div Block) \in Nat /\ R(x) = G(x \div Block) * Block + (x % Block)
    BY <1>5, <2>1
  <2>3. {k \in S : k <= j} = T \cup {j}
    BY <1>6, <2>1
  <2>4. j \notin T
    BY <1>6, <2>1
  <2>5. IsFiniteSet(T) /\ Cardinality(T) = R(x)
    BY <1>6, FS_Subset DEF PlaceOf
  <2> HIDE DEF T, x
  <2>6. Cardinality(T \cup {j}) = Cardinality(T) + 1
    BY <2>4, <2>5, FS_AddElement
  <2> QED BY <2>2, <2>3, <2>5, <2>6 DEF x, PlaceOf
<1>8. \E g \in Nat : Cardinality(S) = g * Block
  <2> DEFINE q == n \div Block
  <2>1. q \in Nat /\ n \in 0 .. n
    BY <1>1, BlockAssumption, Divided
  <2>2. {k \in S : k <= n} = S
    BY <1>1, <1>6
  <2>3. ~((q + 1) * Block <= n)
    <3>1. /\ (q + 1) * Block <= n <=> n < q * Block
          /\ n < q * Block <=> q < q
      BY <1>1, BlockAssumption, WholeBlocks
    <3> QED BY <2>1, <3>1
  <2>4. q \notin C
    BY <2>3 DEF C, InChain, n
  <2>5. G(q) \in Nat /\ R(n) = G(q) * Block + 0
    BY <1>5, <2>1, <2>4
  <2>6. G(q) * Block \in Nat
    BY <2>5, BlockAssumption, SMT
  <2>7. R(n) = G(q) * Block
    <3> DEFINE m == G(q) * Block
    <3> HIDE DEF m, q
    <3> QED BY <2>5, <2>6 DEF m
  <2> QED BY <2>2, <2>5, <2>7 DEF PlaceOf
<1>9. \A j \in S : /\ G((j - 1) \div Block) \in Nat
                   /\ R(j) = G((j - 1) \div Block) * Block + ((j - 1) % Block) + 1
  BY <1>7
<1>10. \A j \in S : /\ G((j - 1) \div Block) \in Nat
                    /\ PlaceOf(S, j)
                         = G((j - 1) \div Block) * Block + ((j - 1) % Block) + 1
  BY <1>9 DEF R
<1> QED BY ONLY <1>8, <1>10 DEF S, G

FirstByte(p) == p * Block + 1

(* The covered block before another one, and the first of its bytes. *)
LEMMA BlockBefore ==
  ASSUME NEW data, AreBytes(data), NEW crypt, NEW skip, NEW b \in Nat,
         Before(data, crypt, skip, b) # {}
  PROVE  LET p == Greatest(Before(data, crypt, skip, b)) IN
         /\ p \in Nat /\ FirstByte(p) \in InPattern(data, crypt, skip)
         /\ (FirstByte(p) - 1) \div Block = p /\ (FirstByte(p) - 1) % Block = 0
         /\ Cardinality(Before(data, crypt, skip, p)) \in Nat
         /\ Cardinality(Before(data, crypt, skip, b)) = Cardinality(Before(data, crypt, skip, p)) + 1
<1> DEFINE n == Len(data)
           B == Before(data, crypt, skip, b)
           p == Greatest(B)
           A == Before(data, crypt, skip, p)
           j == FirstByte(p)
<1>1. n \in Nat /\ DOMAIN data = 1 .. n
  BY SequenceIs DEF AreBytes
<1>2. \A c : c \in B <=> c \in 0 .. b - 1 /\ InChain(data, crypt, skip, c)
  BY DEF Before
<1>3. \A c : c \in A <=> c \in 0 .. p - 1 /\ InChain(data, crypt, skip, c)
  BY DEF Before
<1>4. B # {}
  OBVIOUS
<1> HIDE DEF B, A
<1>5. IsFiniteSet(B) /\ B \in SUBSET Nat
  <2>1. 0 \in Int /\ b - 1 \in Int
    OBVIOUS
  <2>2. IsFiniteSet(0 .. b - 1)
    BY <2>1, FS_Interval
  <2>3. B \subseteq 0 .. b - 1 /\ \A c \in 0 .. b - 1 : c \in Nat
    BY <1>2
  <2> QED BY <2>2, <2>3, FS_Subset
<1>6. p \in B /\ \A c \in B : p >= c
  BY <1>4, <1>5, GreatestIs
<1> HIDE DEF p
<1>7. p \in Nat /\ p < b /\ InChain(data, crypt, skip, p)
  BY <1>2, <1>6
<1>8. B = A \cup {p} /\ p \notin A
  <2>1. ASSUME NEW c PROVE c \in B <=> c \in A \/ c = p
    <3>1. c \in B => c \in Nat /\ c <= p
      BY <1>2, <1>6, <1>7
    <3>2. c \in 0 .. p - 1 => c \in 0 .. b - 1
      BY <1>7
    <3>3. c \in Nat /\ c <= p => c \in 0 .. p - 1 \/ c = p
      BY <1>7
    <3> QED BY <1>2, <1>3, <1>6, <3>1, <3>2, <3>3
  <2>2. p \notin A
    BY <1>3, <1>7
  <2> QED BY <2>1, <2>2
<1>9. IsFiniteSet(A) /\ Cardinality(A) \in Nat /\ Cardinality(B) = Cardinality(A) + 1
  <2>1. IsFiniteSet(A)
    BY <1>5, <1>8, FS_Subset
  <2> QED BY <1>8, <2>1, FS_AddElement, FS_CardinalityType
<1>10. /\ p * Block \in Nat /\ j - 1 = p * Block /\ j = p * Block + 1
       /\ (p + 1) * Block = p * Block + Block
  <2>1. (p + 1) * Block = p * Block + 1 * Block
    BY <1>7, BlockAssumption, Distribute
  <2>2. p * Block \in Nat /\ 1 * Block = Block
    BY <1>7, BlockAssumption, SMT
  <2> DEFINE m == p * Block
  <2>3. m \in Nat /\ m + 1 - 1 = m
    BY <2>2
  <2> QED BY <2>1, <2>2, <2>3 DEF FirstByte
<1>11. (j - 1) \div Block = p /\ (j - 1) % Block = 0
  <2>1. 0 \in 0 .. Block - 1 /\ Block * p + 0 = p * Block
    BY <1>7, BlockAssumption, SMT
  <2>2. (Block * p + 0) \div Block = p /\ (Block * p + 0) % Block = 0
    BY <1>7, <2>1, BlockAssumption, DividedOnce
  <2> QED BY <1>10, <2>1, <2>2
<1>12. j \in DOMAIN data
  <2> DEFINE m == p * Block
  <2>1. m + Block <= n /\ m \in Nat /\ j = m + 1
    BY <1>7, <1>10 DEF InChain
  <2> HIDE DEF m
  <2> QED BY <1>1, <2>1, BlockAssumption
<1>13. j \in InPattern(data, crypt, skip)
  BY <1>7, <1>11, <1>12 DEF InPattern
<1> QED BY <1>7, <1>9, <1>11, <1>13 DEF A, B, p

(* The bytes a pattern chooses are one chain of whole blocks. *)
LEMMA ChosenChain ==
  ASSUME NEW data, AreBytes(data), NEW key, NEW iv, NEW crypt \in Nat, NEW skip \in Nat,
         ChainedBy(data, key, iv, crypt, skip)
  PROVE  LET some == Filtered(data, InPattern(data, crypt, skip)) IN
         AreBytes(some) /\ WholeChain(some, key, iv)
<1> DEFINE S    == InPattern(data, crypt, skip)
           some == Filtered(data, S)
           G(b) == Cardinality(Before(data, crypt, skip, b))
           n == Len(data)
           N == Cardinality(S)
<1>1. n \in Nat /\ DOMAIN data = 1 .. n /\ IsSequence(data)
  BY SequenceIs DEF AreBytes
<1>2. S \in SUBSET (DOMAIN data) /\ \A j \in S : InChain(data, crypt, skip, (j - 1) \div Block)
  BY DEF InPattern
<1>3. /\ \A j \in S : /\ G((j - 1) \div Block) \in Nat
                      /\ PlaceOf(S, j) = G((j - 1) \div Block) * Block + ((j - 1) % Block) + 1
      /\ \E g \in Nat : N = g * Block
  BY InPatternAt
<1>4. \A j \in DOMAIN data : InChain(data, crypt, skip, (j - 1) \div Block) => j \in S
  BY DEF InPattern
<1> HIDE DEF S, some
<1>5. /\ IsSequence(some) /\ Len(some) = N /\ N \in Nat
      /\ \A j \in S : PlaceOf(S, j) \in 1 .. N /\ some[PlaceOf(S, j)] = data[j]
      /\ \A k \in 1 .. N : \E j \in S : PlaceOf(S, j) = k /\ some[k] = data[j]
  BY <1>1, <1>2, FilteredAt DEF PlaceOf, some
<1> HIDE DEF N, n, G
<1>6. DOMAIN some = 1 .. N
  BY <1>5, SequenceIs
<1>7. AreBytes(some)
  BY <1>2, <1>5, <1>6 DEF AreBytes
<1>8. ASSUME NEW o \in 0 .. N - 1
      PROVE  some[o + 1].mask =
               IF (o \div Block + 1) * Block <= N
               THEN {<<"cbc", key, IF o \div Block = 0 THEN <<"iv", iv>>
                                   ELSE <<"block", some[(o \div Block - 1) * Block + 1].id>>,
                       o % Block>>}
               ELSE {}
  <2>1. o + 1 \in 1 .. N /\ o \in Nat
    BY <1>5
  <2>2. PICK j \in S : PlaceOf(S, j) = o + 1 /\ some[o + 1] = data[j]
    BY <1>5, <2>1
  <2> DEFINE x == j - 1
             b == x \div Block
             r == x % Block
  <2>3. x \in 0 .. n - 1 /\ x \in Nat /\ x + 1 = j
    BY <1>1, <1>2
  <2>4. InChain(data, crypt, skip, b) /\ G(b) \in Nat
        /\ PlaceOf(S, j) = G(b) * Block + r + 1
    BY <1>2, <1>3
  <2>5. b \in Nat /\ r \in 0 .. Block - 1 /\ x = Block * b + r
    BY <2>3, BlockAssumption, Divided
  <2>6. data[j].mask = {<<"cbc", key, ChainedTo(data, crypt, skip, iv, b), r>>}
    BY <2>3, <2>4 DEF ChainedBy, n
  <2> HIDE DEF x, b, r
  <2>7. o = Block * G(b) + r
    <3>1. G(b) * Block \in Nat /\ G(b) * Block = Block * G(b)
      BY <2>4, BlockAssumption, SMT
    <3> DEFINE m == G(b) * Block
    <3>2. m \in Nat /\ o + 1 = m + r + 1 /\ m = Block * G(b)
      BY <2>2, <2>4, <3>1
    <3> HIDE DEF m
    <3>3. o = m + r
      BY <2>1, <2>5, <3>2
    <3> QED BY <3>2, <3>3
  <2>8. o \div Block = G(b) /\ o % Block = r
    <3> DEFINE g == G(b)
    <3> HIDE DEF g
    <3>1. (Block * g + r) \div Block = g /\ (Block * g + r) % Block = r
      BY <2>4, <2>5, BlockAssumption, DividedOnce DEF g
    <3> QED BY <2>7, <3>1 DEF g
  <2>9. (o \div Block + 1) * Block <= N
    <3>1. PICK g \in Nat : N = g * Block
      BY <1>3
    <3>2. o \div Block < g
      <4>1. o < g * Block
        BY <1>5, <2>1, <3>1
      <4>2. (g * Block) \div Block = g
        <5>1. 0 \in 0 .. Block - 1 /\ Block * g + 0 = g * Block
          BY BlockAssumption, SMT
        <5>2. (Block * g + 0) \div Block = g
          BY <5>1, BlockAssumption, DividedOnce
        <5> QED BY <5>1, <5>2
      <4>3. /\ o < ((g * Block) \div Block) * Block <=> o \div Block < (g * Block) \div Block
        BY <1>5, <2>1, <3>1, BlockAssumption, WholeBlocks
      <4> QED BY <4>1, <4>2, <4>3
    <3>3. (o \div Block + 1) * Block <= N <=> o < (N \div Block) * Block
      BY <1>5, <2>1, BlockAssumption, WholeBlocks
    <3>4. o < (N \div Block) * Block <=> o \div Block < N \div Block
      BY <1>5, <2>1, BlockAssumption, WholeBlocks
    <3>5. N \div Block = g
      <4>1. 0 \in 0 .. Block - 1 /\ Block * g + 0 = g * Block
        BY BlockAssumption, SMT
      <4>2. (Block * g + 0) \div Block = g
        BY <4>1, BlockAssumption, DividedOnce
      <4> QED BY <3>1, <4>1, <4>2
    <3> QED BY <3>2, <3>3, <3>4, <3>5
  <2>10. ChainedTo(data, crypt, skip, iv, b)
           = IF G(b) = 0 THEN <<"iv", iv>> ELSE <<"block", some[(G(b) - 1) * Block + 1].id>>
    <3> DEFINE B == Before(data, crypt, skip, b)
               p == Greatest(B)
    <3>1. G(b) = Cardinality(B)
      BY DEF G
    <3>2. CASE B = {}
      <4>1. G(b) = 0
        BY <3>1, <3>2, FS_EmptySet
      <4> QED BY <3>2, <4>1 DEF ChainedTo
    <3>3. CASE B # {}
      <4>1. /\ p \in Nat /\ FirstByte(p) \in S
            /\ (FirstByte(p) - 1) \div Block = p /\ (FirstByte(p) - 1) % Block = 0
            /\ G(p) \in Nat /\ G(b) = G(p) + 1
        BY <2>5, <3>3, BlockBefore DEF G, S
      <4> DEFINE k == FirstByte(p)
      <4>2. k \in S /\ (k - 1) \div Block = p /\ (k - 1) % Block = 0
        BY <4>1
      <4>3. ChainedTo(data, crypt, skip, iv, b) = <<"block", data[k].id>>
        BY <3>3 DEF ChainedTo, FirstByte
      <4> HIDE DEF k, p, B
      <4>4. PlaceOf(S, k) = G(p) * Block + 0 + 1
        BY <1>3, <4>2
      <4>5. G(p) * Block \in Nat
        BY <4>1, BlockAssumption, SMT
      <4>6. PlaceOf(S, k) = G(p) * Block + 1
        <5> DEFINE m == G(p) * Block
        <5>1. PlaceOf(S, k) = m + 0 + 1 /\ m \in Nat
          BY <4>4, <4>5
        <5> HIDE DEF m
        <5>2. PlaceOf(S, k) = m + 1
          BY <5>1
        <5> QED BY <5>2 DEF m
      <4>7. some[G(p) * Block + 1] = data[k]
        BY <1>5, <4>2, <4>6
      <4>8. G(b) # 0 /\ G(b) - 1 = G(p)
        BY <4>1
      <4> QED BY <4>3, <4>7, <4>8
    <3> QED BY <3>2, <3>3
  <2> QED BY <2>2, <2>6, <2>8, <2>9, <2>10
<1> QED BY <1>5, <1>7, <1>8 DEF WholeChain, some, S, N

(* decrypt_cbcs_pattern clears what was encrypted with its pattern. *)
LEMMA PatternClears ==
  ASSUME NEW data, AreBytes(data), NEW key, NEW iv,
         NEW crypt \in Nat, NEW skip \in Nat, crypt # 0 \/ skip # 0,
         ChainedBy(data, key, iv, crypt, skip)
  PROVE  \A j \in DOMAIN data : PatternDecrypt(data, key, iv, crypt, skip)[j] = Clear(data[j])
<1> DEFINE S == InPattern(data, crypt, skip)
           some == Filtered(data, S)
           plain == CbcDecrypt(some, key, iv)
<1>1. ASSUME NEW j \in DOMAIN data, crypt # 0, skip # 0
      PROVE  PatternDecrypt(data, key, iv, crypt, skip)[j]
               = IF j \in S THEN plain[PlaceOf(S, j)] ELSE data[j]
  <2> DEFINE number(k) == (k - 1) \div Block
             chosen == {k \in DOMAIN data : /\ number(k) % (crypt + skip) < crypt
                                            /\ (number(k) + 1) * Block <= Len(data)}
             rank(k) == Cardinality({i \in chosen : i <= k})
             dec1 == CbcDecrypt(Filtered(data, chosen), key, iv)
  <2>1. PatternDecrypt(data, key, iv, crypt, skip)[j]
          = IF j \in chosen THEN dec1[rank(j)] ELSE data[j]
    BY <1>1 DEF PatternDecrypt
  <2>2. chosen = S
    BY DEF InPattern, InChain
  <2>3. rank(j) = PlaceOf(S, j)
    BY <2>2 DEF PlaceOf
  <2> HIDE DEF S, rank, chosen
  <2> QED BY <2>1, <2>2, <2>3
<1>2. CASE crypt = 0
  <2>1. PatternDecrypt(data, key, iv, crypt, skip) = data
    BY <1>2 DEF PatternDecrypt
  <2>2. skip \in Nat \ {0} /\ ChainedBy(data, key, iv, 0, skip)
    BY <1>2
  <2> QED BY <2>1, <2>2, ChainNothing
<1>3. CASE crypt # 0 /\ skip = 0
  <2>1. PatternDecrypt(data, key, iv, crypt, skip) = CbcDecrypt(data, key, iv)
    BY <1>3 DEF PatternDecrypt
  <2>2. crypt \in Nat \ {0} /\ ChainedBy(data, key, iv, crypt, 0)
    BY <1>3
  <2>3. WholeChain(data, key, iv)
    BY <2>2, ChainWhole
  <2> QED BY <2>1, <2>3, CbcClears
<1>4. CASE crypt # 0 /\ skip # 0
  <2>1. AreBytes(some) /\ WholeChain(some, key, iv)
    BY ChosenChain
  <2>2. \A k \in DOMAIN some : plain[k] = Clear(some[k])
    BY <2>1, CbcClears
  <2>3. S \in SUBSET (DOMAIN data) /\ IsSequence(data)
    BY DEF InPattern, AreBytes
  <2> HIDE DEF S
  <2>4. /\ Len(some) = Cardinality(S)
        /\ \A j \in S : PlaceOf(S, j) \in 1 .. Cardinality(S) /\ some[PlaceOf(S, j)] = data[j]
    BY <2>3, FilteredAt DEF PlaceOf
  <2>5. DOMAIN some = 1 .. Cardinality(S)
    BY <2>1, <2>4, SequenceIs DEF AreBytes
  <2> HIDE DEF some, plain
  <2> TAKE j \in DOMAIN data
  <2>6. CASE j \in S
    BY <1>1, <1>4, <2>2, <2>4, <2>5, <2>6
  <2>7. CASE j \notin S
    <3> DEFINE o == j - 1
    <3>1. o \in 0 .. Len(data) - 1 /\ o + 1 = j
      BY SequenceIs DEF AreBytes
    <3>2. ~InChain(data, crypt, skip, o \div Block)
      BY <2>7 DEF InPattern, S
    <3> HIDE DEF o
    <3>3. data[j].mask = {}
      BY <3>1, <3>2 DEF ChainedBy
    <3>4. data[j] = Clear(data[j])
      BY <3>3, ClearStays DEF AreBytes
    <3> QED BY <1>1, <1>4, <2>7, <3>4
  <2> QED BY <2>6, <2>7
<1> QED BY <1>2, <1>3, <1>4

-----------------------------------------------------------------------------
(* Sub-samples are what the sizes of their parts make them. *)
LEMMA SubsAre ==
  ASSUME NEW subs \in Seq([clear : Nat, enc : Nat])
  PROVE  /\ Len(subs) \in Nat /\ DOMAIN subs = 1 .. Len(subs)
         /\ \A i \in 1 .. Len(subs) : subs[i].clear \in Nat /\ subs[i].enc \in Nat
         /\ SubEnds(subs)[0] = 0
         /\ \A i \in 0 .. Len(subs) : SubEnds(subs)[i] \in Nat
         /\ \A i \in 1 .. Len(subs) : SubEnds(subs)[i] = SubEnds(subs)[i - 1] + (subs[i].clear + subs[i].enc)
<1> DEFINE m == Len(subs)
           sizes == [i \in DOMAIN subs |-> subs[i].clear + subs[i].enc]
<1>1. m \in Nat /\ DOMAIN subs = 1 .. m /\ \A k \in 1 .. m : subs[k].clear \in Nat /\ subs[k].enc \in Nat
  <2> DEFINE T == [clear : Nat, enc : Nat]
  <2>1. \A x \in T : x.clear \in Nat /\ x.enc \in Nat
    OBVIOUS
  <2>2. subs \in Seq(T)
    OBVIOUS
  <2> HIDE DEF T
  <2>3. m \in Nat /\ DOMAIN subs = 1 .. m /\ \A k \in 1 .. m : subs[k] \in T
    BY <2>2
  <2> QED BY <2>1, <2>3
<1>2. /\ sizes = [k \in 1 .. m |-> sizes[k]]
      /\ \A k \in 1 .. m : sizes[k] \in Nat /\ sizes[k] = subs[k].clear + subs[k].enc
  BY <1>1
<1>3. SubEnds(subs) = Ends(sizes)
  BY DEF SubEnds
<1> HIDE DEF sizes, m
<1>4. /\ Ends(sizes)[0] = 0 /\ \A k \in 1 .. m : Ends(sizes)[k] = Ends(sizes)[k - 1] + sizes[k]
      /\ \A k \in 0 .. m : Ends(sizes)[k] \in Nat
  BY <1>1, <1>2, EndsAre
<1> QED BY <1>1, <1>2, <1>3, <1>4 DEF m

(* Where the loop over the sub-samples that cover a sample is. *)
LEMMA PartOf ==
  ASSUME NEW subs \in Seq([clear : Nat, enc : Nat]), NEW n \in Nat,
         SubEnds(subs)[Len(subs)] = n, NEW j \in 1 .. n
  PROVE  \E i \in DOMAIN subs :
           LET from == SubEnds(subs)[i - 1]
               blocks == Ends([k \in DOMAIN subs |-> (subs[k].enc + Block - 1) \div Block])
               part == PartAt(n, subs, j)
           IN  /\ from < j /\ j <= SubEnds(subs)[i]
               /\ j <= from + subs[i].clear => part.kind = "clear"
               /\ ~(j <= from + subs[i].clear) =>
                    part = [kind |-> "protected", from |-> from + subs[i].clear,
                            to |-> SubEnds(subs)[i], blocks |-> blocks[i - 1]]
<1> DEFINE m == Len(subs)
           sizes == [i \in DOMAIN subs |-> subs[i].clear + subs[i].enc]
           counts == [i \in DOMAIN subs |-> (subs[i].enc + Block - 1) \div Block]
           end == Ends(sizes)
           blocks == Ends(counts)
           i == CHOOSE i \in DOMAIN subs : end[i - 1] < j /\ j <= end[i]
           part == PartAt(n, subs, j)
           P(kind, from, to, k) == [kind |-> kind, from |-> from, to |-> IF to < n THEN to ELSE n,
                                    blocks |-> blocks[k]]
<1>1. part = IF end[m] < j THEN P("rest", end[m], n, m)
             ELSE IF j <= end[i - 1] + subs[i].clear
                  THEN P("clear", end[i - 1], end[i - 1] + subs[i].clear, i - 1)
                  ELSE P("protected", end[i - 1] + subs[i].clear, end[i], i - 1)
  BY DEF PartAt
<1>2. SubEnds(subs) = end
  BY DEF SubEnds
<1> HIDE DEF sizes, blocks, part, m, end
<1>3. /\ m \in Nat /\ DOMAIN subs = 1 .. m
      /\ \A k \in 1 .. m : subs[k].clear \in Nat /\ subs[k].enc \in Nat
      /\ end[0] = 0 /\ \A k \in 0 .. m : end[k] \in Nat
      /\ \A k \in 1 .. m : end[k] = end[k - 1] + (subs[k].clear + subs[k].enc)
  BY <1>2, SubsAre DEF m
<1>4. end[m] = n
  BY <1>2 DEF m
<1>5. \A k \in 1 .. m : end[k - 1] <= end[k]
  <2> TAKE k \in 1 .. m
  <2>1. k - 1 \in 0 .. m /\ k \in 0 .. m
    BY <1>3
  <2>2. /\ end[k - 1] \in Nat /\ subs[k].clear \in Nat /\ subs[k].enc \in Nat
        /\ end[k] = end[k - 1] + (subs[k].clear + subs[k].enc)
    BY <1>3, <2>1
  <2> QED BY <2>2
<1>6. \E k \in 1 .. m : end[k - 1] < j /\ j <= end[k]
  BY <1>3, <1>4, <1>5, EndsHold
<1>7. i \in 1 .. m /\ end[i - 1] < j /\ j <= end[i]
  BY <1>3, <1>6
<1> HIDE DEF i
<1>8. end[i] \in Nat /\ end[i] <= n
  <2>1. i \in 0 .. m /\ m \in 0 .. m /\ i <= m
    BY <1>3, <1>7
  <2> QED BY <1>3, <1>4, <1>5, <2>1, EndsHold
<1>9. (IF end[i] < n THEN end[i] ELSE n) = end[i]
  BY <1>8
<1>10. ~(end[m] < j)
  BY <1>4
<1>11. j <= end[i - 1] + subs[i].clear => part.kind = "clear"
  BY <1>1, <1>10
<1>12. ~(j <= end[i - 1] + subs[i].clear) =>
         part = [kind |-> "protected", from |-> end[i - 1] + subs[i].clear, to |-> end[i],
                 blocks |-> blocks[i - 1]]
  BY <1>1, <1>9, <1>10
<1>13. i \in DOMAIN subs
  BY <1>3, <1>7
<1> QED BY <1>2, <1>7, <1>11, <1>12, <1>13 DEF part, blocks

(* The blocks of the protected parts that are whole blocks. *)
LEMMA BlocksCount ==
  ASSUME NEW subs \in Seq([clear : Nat, enc : Nat]),
         \A i \in DOMAIN subs : i < Len(subs) => subs[i].enc % Block = 0,
         NEW i \in DOMAIN subs
  PROVE  LET blocks == Ends([k \in DOMAIN subs |-> (subs[k].enc + Block - 1) \div Block]) IN
         blocks[i - 1] \in Nat /\ RunEnds(subs)[i - 1] = blocks[i - 1] * Block
<1> DEFINE m == Len(subs)
           counts == [k \in DOMAIN subs |-> (subs[k].enc + Block - 1) \div Block]
           encs == [k \in DOMAIN subs |-> subs[k].enc]
           c == Ends(counts)
           e == Ends(encs)
           W == {k \in Nat : k < m => e[k] = c[k] * Block}
<1>1. m \in Nat /\ DOMAIN subs = 1 .. m /\ \A k \in 1 .. m : subs[k].enc \in Nat
  BY SubsAre
<1>2. RunEnds(subs) = e
  BY DEF RunEnds
<1>3. /\ counts = [k \in 1 .. m |-> counts[k]]
      /\ \A k \in 1 .. m : counts[k] = (subs[k].enc + Block - 1) \div Block
      /\ encs = [k \in 1 .. m |-> encs[k]]
      /\ \A k \in 1 .. m : encs[k] = subs[k].enc
  BY <1>1
<1>4. \A k \in 1 .. m : k < m => subs[k].enc % Block = 0
  BY <1>1
<1> HIDE DEF counts, encs, c, e, m
<1>5. \A k \in 1 .. m : counts[k] \in Nat
  <2> TAKE k \in 1 .. m
  <2>1. subs[k].enc + Block - 1 \in Nat
    BY <1>1, BlockAssumption
  <2> QED BY <1>3, <2>1, BlockAssumption, Divided
<1>6. /\ c[0] = 0 /\ \A k \in 1 .. m : c[k] = c[k - 1] + counts[k]
      /\ \A k \in 0 .. m : c[k] \in Nat
  BY <1>1, <1>3, <1>5, EndsAre DEF c
<1>7. /\ e[0] = 0 /\ \A k \in 1 .. m : e[k] = e[k - 1] + encs[k]
      /\ \A k \in 0 .. m : e[k] \in Nat
  BY <1>1, <1>3, EndsAre DEF e
<1>8. 0 \in W
  BY <1>6, <1>7, BlockAssumption, SMT
<1>9. ASSUME NEW k \in W PROVE k + 1 \in W
  <2> SUFFICES ASSUME k + 1 < m PROVE e[k + 1] = c[k + 1] * Block
    OBVIOUS
  <2>1. k \in Nat /\ k + 1 \in 1 .. m /\ (k + 1) - 1 = k /\ k \in 0 .. m /\ e[k] = c[k] * Block
    <3>1. k \in Nat /\ (k < m => e[k] = c[k] * Block)
      OBVIOUS
    <3> HIDE DEF W
    <3>2. k \in Nat /\ k < m
      BY <1>1, <3>1
    <3>3. k + 1 \in 1 .. m /\ (k + 1) - 1 = k /\ k \in 0 .. m
      BY <1>1, <3>2
    <3> QED BY <3>1, <3>2, <3>3
  <2> DEFINE x == subs[k + 1].enc
             q == x \div Block
  <2>2. x \in Nat /\ x % Block = 0 /\ q \in Nat /\ x = Block * q + (x % Block)
    BY <1>1, <1>4, <2>1, BlockAssumption, Divided
  <2>3. counts[k + 1] = (x + Block - 1) \div Block /\ encs[k + 1] = x
    BY <1>3, <2>1
  <2> HIDE DEF x, q
  <2>4. x = Block * q /\ x = q * Block
    BY <2>2, BlockAssumption, SMT
  <2>5. counts[k + 1] = q
    <3>1. Block - 1 \in 0 .. Block - 1 /\ x + Block - 1 = x + (Block - 1)
      BY <2>2, BlockAssumption
    <3> DEFINE r == Block - 1
    <3> HIDE DEF r
    <3>2. (Block * q + r) \div Block = q
      BY <2>2, <3>1, BlockAssumption, DividedOnce DEF r
    <3> QED BY <2>3, <2>4, <3>1, <3>2 DEF r
  <2>6. e[k + 1] = e[k] + x /\ c[k + 1] = c[k] + q
    BY <1>6, <1>7, <2>1, <2>3, <2>5
  <2>7. c[k] \in Nat /\ (c[k] + q) * Block = c[k] * Block + q * Block
    <3>1. c[k] \in Nat
      BY <1>6, <2>1
    <3> QED BY <2>2, <3>1, BlockAssumption, Distribute
  <2> QED BY <2>1, <2>4, <2>6, <2>7
<1> HIDE DEF W
<1>10. W = Nat
  BY <1>8, <1>9, SetInduction DEF W
<1>11. i - 1 \in Nat /\ i - 1 < m /\ i - 1 \in 0 .. m
  BY <1>1
<1>12. e[i - 1] = c[i - 1] * Block
  BY <1>10, <1>11 DEF W
<1> QED BY <1>2, <1>6, <1>11, <1>12 DEF c, counts

(* A sample without sub-samples is one protected part. *)
LEMMA WholeSample ==
  ASSUME NEW sample, AreBytes(sample)
  PROVE  LET n == Len(sample)
             subs == SubSamples(n, <<>>)
         IN  /\ DOMAIN subs = {1} /\ Len(subs) = 1
             /\ ProtectedPart(sample, subs, 1) = sample
             /\ RunEnds(subs)[1 - 1] = 0
             /\ \A j \in 1 .. n : /\ PartAt(n, <<>>, j).kind = "rest"
                                  /\ PartAt(n, <<>>, j).from = 0
                                  /\ PartAt(n, <<>>, j).blocks = 0
                                  /\ Cut(sample, PartAt(n, <<>>, j)) = sample
<1> DEFINE n == Len(sample)
           sub == [clear |-> 0, enc |-> n]
           subs == SubSamples(n, <<>>)
<1>1. n \in Nat /\ IsSequence(sample) /\ SubSeq(sample, 1, n) = sample
  BY SequenceIs DEF AreBytes, IsSequence
<1>2. subs = <<sub>>
  BY DEF SubSamples
<1>3. sub \in [clear : Nat, enc : Nat] /\ sub.clear = 0 /\ sub.enc = n
  BY <1>1
<1> HIDE DEF sub, subs, n
<1>4. DOMAIN subs = {1} /\ Len(subs) = 1 /\ subs[1] = sub /\ subs \in Seq([clear : Nat, enc : Nat])
  <2>1. <<sub>> \in Seq([clear : Nat, enc : Nat])
    BY <1>3
  <2> QED BY <1>2, <2>1
<1>5. SubEnds(subs)[0] = 0 /\ SubEnds(subs)[1] = SubEnds(subs)[1 - 1] + (subs[1].clear + subs[1].enc)
  BY <1>4, SubsAre
<1>6. SubEnds(subs)[1 - 1] + subs[1].clear + 1 = 1 /\ SubEnds(subs)[1] = n
  BY <1>1, <1>3, <1>4, <1>5
<1>7. ProtectedPart(sample, subs, 1) = sample
  BY <1>1, <1>6 DEF ProtectedPart
<1>8. RunEnds(subs)[1 - 1] = 0
  <2> DEFINE encs == [i \in DOMAIN subs |-> subs[i].enc]
  <2>1. encs = [i \in 1 .. 1 |-> encs[i]] /\ \A i \in 1 .. 1 : encs[i] \in Nat
    <3>1. DOMAIN subs = 1 .. 1
      BY <1>4
    <3>2. encs = [i \in 1 .. 1 |-> subs[i].enc]
      BY <3>1
    <3> HIDE DEF encs
    <3>3. \A i \in 1 .. 1 : encs[i] = n
      BY <1>3, <1>4, <3>2
    <3> QED BY <1>1, <3>2, <3>3
  <2> HIDE DEF encs
  <2>2. Ends(encs)[0] = 0
    BY <2>1, EndsAre
  <2> QED BY <2>2 DEF RunEnds, encs
<1>9. ASSUME NEW j \in 1 .. n
      PROVE  /\ PartAt(n, <<>>, j).kind = "rest"
             /\ PartAt(n, <<>>, j).from = 0
             /\ PartAt(n, <<>>, j).to = n
             /\ PartAt(n, <<>>, j).blocks = 0
  <2> DEFINE e == <<>>
             sizes == [i \in DOMAIN e |-> e[i].clear + e[i].enc]
             counts == [i \in DOMAIN e |-> (e[i].enc + Block - 1) \div Block]
             end == Ends(sizes)
             blocks == Ends(counts)
             i == CHOOSE i \in DOMAIN e : end[i - 1] < j /\ j <= end[i]
             P(kind, from, to, k) == [kind |-> kind, from |-> from, to |-> IF to < n THEN to ELSE n,
                                      blocks |-> blocks[k]]
  <2>1. PartAt(n, e, j) = IF end[Len(e)] < j THEN P("rest", end[Len(e)], n, Len(e))
                          ELSE IF j <= end[i - 1] + e[i].clear
                               THEN P("clear", end[i - 1], end[i - 1] + e[i].clear, i - 1)
                               ELSE P("protected", end[i - 1] + e[i].clear, end[i], i - 1)
    BY DEF PartAt
  <2>2. sizes = [k \in 1 .. 0 |-> sizes[k]] /\ counts = [k \in 1 .. 0 |-> counts[k]] /\ Len(e) = 0
    <3>1. DOMAIN e = 1 .. 0 /\ Len(e) = 0
      OBVIOUS
    <3> HIDE DEF e
    <3> QED BY <3>1
  <2> HIDE DEF sizes, counts, e, i
  <2>3. end[0] = 0 /\ blocks[0] = 0
    <3>1. ASSUME NEW f, f = [k \in 1 .. 0 |-> f[k]] PROVE Ends(f)[0] = 0
      <4>1. \A k \in 1 .. 0 : f[k] \in Nat
        OBVIOUS
      <4> QED BY <3>1, <4>1, EndsAre
    <3> QED BY <2>2, <3>1
  <2> HIDE DEF end, blocks
  <2>4. end[Len(e)] < j
    BY <2>2, <2>3
  <2>5. PartAt(n, e, j) = P("rest", 0, n, 0)
    BY <2>1, <2>2, <2>3, <2>4
  <2> QED BY <2>3, <2>5 DEF e
<1>10. ASSUME NEW j \in 1 .. n PROVE Cut(sample, PartAt(n, <<>>, j)) = sample
  <2> DEFINE part == PartAt(n, <<>>, j)
  <2>1. part.from + 1 = 1 /\ part.to = n
    BY <1>9
  <2> HIDE DEF part
  <2>2. Cut(sample, part) = sample
    BY <1>1, <2>1 DEF Cut
  <2> QED BY <2>2 DEF part
<1> QED BY <1>4, <1>7, <1>8, <1>9, <1>10 DEF subs, n

(* decrypt_sample clears every byte of a sample that is sealed with its key. *)
LEMMA SampleClears ==
  ASSUME NEW sample, AreBytes(sample), NEW info, info.subs \in Seq([clear : Nat, enc : Nat]),
         NEW key, NEW scheme, NEW track, Sealed(sample, info, key, scheme, track)
  PROVE  \A j \in DOMAIN sample :
           DecryptSample(sample, info, key, scheme, track)[j] = Clear(sample[j])
<1> DEFINE n == Len(sample)
           subs == SubSamples(n, info.subs)
           civ == IF track.civ # None THEN track.civ ELSE info.iv
           part(j) == PartAt(n, info.subs, j)
           cut(j) == Cut(sample, part(j))
           at(j) == j - part(j).from
           pattern(data) == PatternDecrypt(data, key, civ, track.crypt, track.skip)
<1>1. n \in Nat /\ DOMAIN sample = 1 .. n /\ 0 \in Nat
  BY SequenceIs DEF AreBytes
<1>2. ASSUME NEW j \in DOMAIN sample
      PROVE  AreBytes(cut(j)) /\ at(j) \in DOMAIN cut(j) /\ cut(j)[at(j)] = sample[j]
  BY CutIs
<1>3. /\ SubEnds(subs)[Len(subs)] = n
      /\ \A i \in DOMAIN subs :
           /\ \A j \in SubEnds(subs)[i - 1] + 1 .. SubEnds(subs)[i - 1] + subs[i].clear : sample[j].mask = {}
           /\ scheme = "cbcs" => /\ track.crypt \in Nat /\ track.skip \in Nat
                                 /\ track.crypt # 0 \/ track.skip # 0
                                 /\ ChainedBy(ProtectedPart(sample, subs, i), key, civ, track.crypt, track.skip)
           /\ scheme = "cbc1" => Len(subs) = 1 /\ ChainedBy(ProtectedPart(sample, subs, i), key, info.iv, 1, 0)
           /\ scheme \notin {"cbcs", "cbc1"} =>
                /\ i < Len(subs) => subs[i].enc % Block = 0
                /\ Streamed(ProtectedPart(sample, subs, i), key, info.iv, RunEnds(subs)[i - 1])
  BY DEF Sealed
<1>4. ASSUME NEW j \in DOMAIN sample, scheme \notin {"cbcs", "cbc1"}
      PROVE  DecryptSample(sample, info, key, scheme, track)[j]
               = IF part(j).kind = "clear" THEN sample[j]
                 ELSE CtrDecrypt(cut(j), key, info.iv, part(j).blocks)[at(j)]
  BY <1>4 DEF DecryptSample, DecryptCenc
<1>5. ASSUME NEW j \in DOMAIN sample, scheme = "cbc1"
      PROVE  DecryptSample(sample, info, key, scheme, track)[j]
               = IF info.subs = <<>> THEN CbcDecrypt(sample, key, info.iv)[j]
                 ELSE IF part(j).kind # "protected" THEN sample[j]
                 ELSE CbcDecrypt(cut(j), key, info.iv)[at(j)]
  BY <1>5 DEF DecryptSample, DecryptCbc1
<1>6. ASSUME NEW j \in DOMAIN sample, scheme = "cbcs"
      PROVE  DecryptSample(sample, info, key, scheme, track)[j]
               = IF info.subs = <<>> THEN pattern(sample)[j]
                 ELSE IF part(j).kind # "protected" THEN sample[j]
                 ELSE pattern(cut(j))[at(j)]
  BY <1>6 DEF DecryptSample, DecryptCbcs
<1> HIDE DEF part, at, subs, n, civ
<1>7. ASSUME NEW data, AreBytes(data), ChainedBy(data, key, info.iv, 1, 0)
      PROVE  \A j \in DOMAIN data : CbcDecrypt(data, key, info.iv)[j] = Clear(data[j])
  <2>1. 1 \in Nat \ {0}
    OBVIOUS
  <2>2. WholeChain(data, key, info.iv)
    BY <1>7, <2>1, ChainWhole
  <2> QED BY <1>7, <2>2, CbcClears
<1>8. CASE info.subs = <<>>
  <2>1. /\ DOMAIN subs = {1} /\ Len(subs) = 1
        /\ ProtectedPart(sample, subs, 1) = sample /\ RunEnds(subs)[1 - 1] = 0
        /\ \A j \in 1 .. n : /\ part(j).kind = "rest" /\ part(j).from = 0
                             /\ part(j).blocks = 0 /\ cut(j) = sample
    BY <1>8, WholeSample DEF subs, n, part
  <2> TAKE j \in DOMAIN sample
  <2>2. j \in 1 .. n /\ 1 \in DOMAIN subs
    BY <1>1, <2>1
  <2>3. CASE scheme = "cbcs"
    <3>1. /\ track.crypt \in Nat /\ track.skip \in Nat /\ (track.crypt # 0 \/ track.skip # 0)
          /\ ChainedBy(sample, key, civ, track.crypt, track.skip)
      BY <1>3, <2>1, <2>2, <2>3
    <3>2. pattern(sample)[j] = Clear(sample[j])
      BY <3>1, PatternClears
    <3> QED BY <1>6, <1>8, <2>3, <3>2
  <2>4. CASE scheme = "cbc1"
    <3>1. ChainedBy(sample, key, info.iv, 1, 0)
      BY <1>3, <2>1, <2>2, <2>4
    <3>2. CbcDecrypt(sample, key, info.iv)[j] = Clear(sample[j])
      BY <1>7, <3>1
    <3> QED BY <1>5, <1>8, <2>4, <3>2
  <2>5. CASE scheme \notin {"cbcs", "cbc1"}
    <3>1. Streamed(sample, key, info.iv, RunEnds(subs)[1 - 1])
      BY <1>3, <2>1, <2>2, <2>5
    <3>2. RunEnds(subs)[1 - 1] = 0 * Block
      <4>1. 0 * Block = 0
        BY BlockAssumption, SMT
      <4> QED BY <2>1, <4>1
    <3>3. CtrDecrypt(sample, key, info.iv, 0)[j] = Clear(sample[j])
      <4>1. Streamed(sample, key, info.iv, 0 * Block)
        BY <3>1, <3>2
      <4> QED BY <1>1, <4>1, CtrClears
    <3>4. at(j) = j
      BY <1>1, <2>1, <2>2 DEF at
    <3> QED BY <1>4, <2>1, <2>2, <2>5, <3>3, <3>4
  <2> QED BY <2>3, <2>4, <2>5
<1>9. CASE info.subs # <<>>
  <2>1. subs = info.subs
    BY <1>9 DEF subs, SubSamples
  <2> TAKE j \in DOMAIN sample
  <2> DEFINE blocks == Ends([k \in DOMAIN subs |-> (subs[k].enc + Block - 1) \div Block])
             Is(i) == /\ SubEnds(subs)[i - 1] < j /\ j <= SubEnds(subs)[i]
                      /\ j <= SubEnds(subs)[i - 1] + subs[i].clear => part(j).kind = "clear"
                      /\ ~(j <= SubEnds(subs)[i - 1] + subs[i].clear) =>
                           part(j) = [kind |-> "protected", from |-> SubEnds(subs)[i - 1] + subs[i].clear,
                                      to |-> SubEnds(subs)[i], blocks |-> blocks[i - 1]]
  <2>2. PICK i \in DOMAIN subs : Is(i)
    <3>1. part(j) = PartAt(n, subs, j) /\ subs \in Seq([clear : Nat, enc : Nat])
      BY <2>1 DEF part
    <3>2. j \in 1 .. n /\ n \in Nat /\ SubEnds(subs)[Len(subs)] = n
      BY <1>1, <1>3
    <3> HIDE DEF Is
    <3>3. \E i \in DOMAIN subs :
            LET from == SubEnds(subs)[i - 1]
                counts == Ends([k \in DOMAIN subs |-> (subs[k].enc + Block - 1) \div Block])
                p == PartAt(n, subs, j)
            IN  /\ from < j /\ j <= SubEnds(subs)[i]
                /\ j <= from + subs[i].clear => p.kind = "clear"
                /\ ~(j <= from + subs[i].clear) =>
                     p = [kind |-> "protected", from |-> from + subs[i].clear,
                          to |-> SubEnds(subs)[i], blocks |-> counts[i - 1]]
      BY <3>1, <3>2, PartOf
    <3> QED BY <3>1, <3>3 DEF Is
  <2> DEFINE from == SubEnds(subs)[i - 1]
             start == from + subs[i].clear
             data == ProtectedPart(sample, subs, i)
  <2>3. /\ from \in Nat /\ start \in Nat /\ j \in Nat /\ i \in 1 .. Len(subs) /\ Len(subs) \in Nat
    <3>1. i \in 1 .. Len(subs) /\ i - 1 \in 0 .. Len(subs) /\ Len(subs) \in Nat
      BY <2>1, <2>2, SubsAre
    <3>2. from \in Nat /\ subs[i].clear \in Nat
      BY <2>1, <3>1, SubsAre
    <3> QED BY <1>1, <3>1, <3>2
  <2>4. CASE j <= start
    <3>1. part(j).kind = "clear"
      BY <2>2, <2>4
    <3>2. j \in from + 1 .. from + subs[i].clear
      BY <2>2, <2>3, <2>4
    <3>3. sample[j].mask = {}
      BY <1>3, <2>2, <3>2
    <3>4. sample[j] = Clear(sample[j])
      BY <3>3, ClearStays DEF AreBytes
    <3> QED BY <1>4, <1>5, <1>6, <1>9, <3>1, <3>4
  <2>5. CASE ~(j <= start)
    <3>1. /\ part(j).kind = "protected" /\ part(j).from = start /\ part(j).to = SubEnds(subs)[i]
          /\ part(j).blocks = blocks[i - 1]
      BY <2>2, <2>5
    <3>2. cut(j) = data
      BY <3>1 DEF Cut, ProtectedPart
    <3> HIDE DEF data, start, from, blocks, Is
    <3>3. AreBytes(data) /\ at(j) \in DOMAIN data /\ data[at(j)] = sample[j]
      BY <1>2, <3>2
    <3>4. CASE scheme = "cbcs"
      <4>1. /\ track.crypt \in Nat /\ track.skip \in Nat /\ (track.crypt # 0 \/ track.skip # 0)
            /\ ChainedBy(data, key, civ, track.crypt, track.skip)
        BY <1>3, <2>2, <3>4 DEF data
      <4>2. \A k \in DOMAIN data : pattern(data)[k] = Clear(data[k])
        BY <3>3, <4>1, PatternClears
      <4> QED BY <1>6, <1>9, <3>1, <3>2, <3>3, <3>4, <4>2
    <3>5. CASE scheme = "cbc1"
      <4>1. ChainedBy(data, key, info.iv, 1, 0)
        BY <1>3, <2>2, <3>5 DEF data
      <4>2. \A k \in DOMAIN data : CbcDecrypt(data, key, info.iv)[k] = Clear(data[k])
        BY <1>7, <3>3, <4>1
      <4> QED BY <1>5, <1>9, <3>1, <3>2, <3>3, <3>5, <4>2
    <3>6. CASE scheme \notin {"cbcs", "cbc1"}
      <4>1. /\ \A k \in DOMAIN subs : k < Len(subs) => subs[k].enc % Block = 0
            /\ Streamed(data, key, info.iv, RunEnds(subs)[i - 1])
        BY <1>3, <2>2, <3>6 DEF data
      <4>2. blocks[i - 1] \in Nat /\ RunEnds(subs)[i - 1] = blocks[i - 1] * Block
        BY <2>1, <2>2, <4>1, BlocksCount DEF blocks
      <4> DEFINE q == blocks[i - 1]
      <4>3. q \in Nat /\ Streamed(data, key, info.iv, q * Block)
        BY <4>1, <4>2
      <4> HIDE DEF q
      <4>4. \A k \in DOMAIN data : CtrDecrypt(data, key, info.iv, q)[k] = Clear(data[k])
        BY <3>3, <4>3, CtrClears
      <4> QED BY <1>4, <3>1, <3>2, <3>3, <3>6, <4>4 DEF q
    <3> QED BY <3>4, <3>5, <3>6
  <2> QED BY <2>4, <2>5
<1> QED BY <1>8, <1>9

-----------------------------------------------------------------------------
(* A byte in a sample is that byte of the sample. *)
LEMMA SampleOfBody ==
  ASSUME NEW tracks, TracksOk(tracks), NEW body, AreBytes(body),
         NEW k \in DOMAIN tracks, NEW i \in DOMAIN tracks[k].info,
         NEW p, FitsAt(tracks, Len(body), k, i, p), p \in DOMAIN body
  PROVE  LET data == SampleAt(tracks, body, k, i)
             j == p - EndAt(tracks, k, i - 1)
         IN  AreBytes(data) /\ j \in DOMAIN data /\ data[j] = body[p]
<1> DEFINE n == Len(body)
           from == EndAt(tracks, k, i - 1)
           to == EndAt(tracks, k, i)
           data == SubSeq(body, from + 1, to)
<1>1. n \in Nat /\ DOMAIN body = 1 .. n /\ IsSequence(body)
  BY SequenceIs DEF AreBytes
<1>2. TrackOk(tracks[k]) /\ FirstOffset(tracks) \in Int /\ FirstOffset(tracks) <= tracks[k].offset
  BY FirstOffsetIs DEF TracksOk
<1>3. from \in Nat /\ to \in Nat
  <2> DEFINE m == Len(tracks[k].info)
             end == SampleEnds(tracks[k], FirstOffset(tracks))
  <2>1. m \in Nat /\ DOMAIN tracks[k].info = 1 .. m /\ \A j \in 0 .. m : end[j] \in Nat
    BY <1>2, SampleEndsAre
  <2> HIDE DEF m, end
  <2>2. i \in 0 .. m /\ i - 1 \in 0 .. m
    BY <2>1
  <2> QED BY <2>1, <2>2 DEF EndAt, end
<1>4. from < p /\ p <= to /\ to <= n
  BY DEF FitsAt
<1>5. SampleAt(tracks, body, k, i) = data
  BY DEF SampleAt
<1> HIDE DEF from, to
<1>6. /\ IsSequence(data) /\ DOMAIN data = 1 .. to - from
      /\ \A j \in 1 .. to - from : data[j] = body[from + j]
  <2>1. from <= to
    BY <1>1, <1>3, <1>4
  <2> QED BY <1>1, <1>3, <1>4, <2>1, PartIs
<1>7. /\ \A j \in 1 .. to - from : from + j \in DOMAIN body
      /\ p - from \in 1 .. to - from /\ from + (p - from) = p
  BY <1>1, <1>3, <1>4
<1> HIDE DEF data, n
<1>8. AreBytes(data)
  BY <1>6, <1>7 DEF AreBytes
<1>9. data[p - from] = body[p]
  BY <1>6, <1>7
<1> QED BY <1>5, <1>6, <1>7, <1>8, <1>9 DEF from

(* What is to become of the bytes of an mdat that is encrypted so. *)
LEMMA BodyCleared ==
  ASSUME NEW d, TracksOk(d.tracks), NEW body, AreBytes(body), BodySealed(segment.known, d, body),
         NEW p \in DOMAIN body
  PROVE  DecryptBody(d, body)[p] = Cleared(body[p])
<1>1. CASE /\ DecryptBody(d, body)[p] = body[p]
           /\ \A k \in DOMAIN d.tracks : ~Writes(d, Len(body), k, p)
  BY <1>1 DEF BodySealed, Cleared
<1>2. ASSUME NEW k \in DOMAIN d.tracks, NEW i \in DOMAIN d.tracks[k].info,
             d.tracks[k].key # None, FitsAt(d.tracks, Len(body), k, i, p),
             DecryptBody(d, body)[p] = PlainAt(d, body, k, i)[p - EndAt(d.tracks, k, i - 1)]
      PROVE  DecryptBody(d, body)[p] = Cleared(body[p])
  <2> DEFINE data == SampleAt(d.tracks, body, k, i)
             j == p - EndAt(d.tracks, k, i - 1)
             info == d.tracks[k].info[i]
  <2>1. AreBytes(data) /\ j \in DOMAIN data /\ data[j] = body[p]
    BY <1>2, SampleOfBody
  <2>2. Sealed(data, info, d.tracks[k].key, d.scheme, d.tracks[k].enc)
    BY <1>2 DEF BodySealed, FitsAt
  <2>3. PlainAt(d, body, k, i) = DecryptSample(data, info, d.tracks[k].key, d.scheme, d.tracks[k].enc)
    BY DEF PlainAt, SampleAt
  <2>4. info.subs \in Seq([clear : Nat, enc : Nat])
    BY DEF TracksOk, TrackOk
  <2> HIDE DEF data, j, info
  <2>5. PlainAt(d, body, k, i)[j] = Clear(data[j])
    BY <2>1, <2>2, <2>3, <2>4, SampleClears
  <2>6. body[p].id[1] \in segment.known
    BY <1>2 DEF BodySealed, Writes
  <2> QED BY <1>2, <2>1, <2>5, <2>6 DEF Cleared, Clear, j
<1> QED BY <1>1, <1>2, BodyAt

-----------------------------------------------------------------------------
(* What the init segment says stays what it says. *)
AlikeInit(d, e) ==
  /\ e.keys = d.keys /\ e.kids = d.kids /\ e.settings = d.settings
  /\ e.scheme = d.scheme /\ e.ivSize = d.ivSize /\ e.civ = d.civ

(* A moof changes nothing of it. *)
LEMMA MoofKeepsInit ==
  ASSUME NEW d, DecOk(d), NEW moof
  PROVE  AlikeInit(d, ProcessMoof(d, moof).dec)
<1> DEFINE K == {"keys", "kids", "settings", "scheme", "ivSize", "civ"}
           begun == BeginMoof(d, moof.body)
<1>1. DOMAIN begun = DOMAIN d /\ K \subseteq DOMAIN d /\ \A x \in K : begun[x] = d[x]
  BY DEF BeginMoof, DecOk
<1> HIDE DEF begun
<1>2. \E a, b, c : ProcessMoof(d, moof).dec = [begun EXCEPT !.tracks = a, !.sizes = b, !.defaultSize = c]
  BY DEF ProcessMoof, begun
<1> HIDE DEF K
<1>3. \A x \in K : x \notin {"tracks", "sizes", "defaultSize"}
  BY DEF K
<1>4. \A x \in K : ProcessMoof(d, moof).dec[x] = begun[x]
  BY <1>1, <1>2, <1>3
<1>5. \A x \in K : ProcessMoof(d, moof).dec[x] = d[x]
  BY <1>1, <1>4
<1> QED BY <1>5 DEF K, AlikeInit

(* The decrypter in front of the k-th box and the one behind the init       *)
(* segment agree about it.                                                  *)
LEMMA InitStays ==
  ASSUME segment \in Segment, NEW k \in 0 .. Len(segment.boxes)
  PROVE  AlikeInit(Primed(segment).dec, Boxwise(segment, k).dec)
<1> DEFINE N == Len(segment.boxes)
           d == Primed(segment).dec
           S == {m \in Nat : m \in 0 .. N => AlikeInit(d, Boxwise(segment, m).dec)}
<1>1. N \in Nat /\ DOMAIN segment.boxes = 1 .. N
  BY CencAssumption, SequenceIs
<1>2. 0 \in S
  BY <1>1, BoxwiseStep DEF AlikeInit
<1>3. ASSUME NEW m \in S PROVE m + 1 \in S
  <2> SUFFICES ASSUME m + 1 \in 0 .. N PROVE AlikeInit(d, Boxwise(segment, m + 1).dec)
    OBVIOUS
  <2>1. m \in Nat /\ (m \in 0 .. N => AlikeInit(d, Boxwise(segment, m).dec))
    OBVIOUS
  <2> DEFINE b == Boxwise(segment, m)
             box == segment.boxes[m + 1]
             next == Boxwise(segment, m + 1)
  <2> HIDE DEF S, N, d
  <2>2. m \in 0 .. N /\ m \in 0 .. N - 1 /\ m + 1 \in 1 .. N
    BY <1>1, <2>1
  <2>3. AlikeInit(d, b.dec) /\ DecOk(b.dec)
    BY <2>1, <2>2, AllChained DEF Chained, N
  <2>4. next = AddBox(b, box)
    BY <1>1, <2>2, BoxwiseStep DEF N
  <2> HIDE DEF b, box, next
  <2>5. AlikeInit(b.dec, next.dec)
    <3>1. CASE box.type = "sidx"
      BY <2>4, <3>1 DEF AddBox, AlikeInit
    <3>2. CASE box.type # "sidx"
      <4>1. next.dec = ProcessBox(b.dec, box).dec
        BY <2>4, <3>2 DEF AddBox
      <4>2. CASE box.type = "moof"
        <5>1. ProcessBox(b.dec, box) = ProcessMoof(b.dec, box)
          BY <4>2 DEF ProcessBox, ProcessAtom
        <5> QED BY <2>3, <4>1, <5>1, MoofKeepsInit
      <4>3. CASE box.type # "moof"
        <5>1. ProcessBox(b.dec, box).dec = b.dec
          BY <4>3 DEF ProcessBox, ProcessAtom
        <5> QED BY <4>1, <5>1 DEF AlikeInit
      <4> QED BY <4>2, <4>3
    <3> QED BY <3>1, <3>2
  <2> QED BY <2>3, <2>5 DEF AlikeInit, next
<1> HIDE DEF S
<1>4. S = Nat
  BY <1>2, <1>3, SetInduction DEF S
<1>5. k \in S /\ k \in 0 .. N
  BY <1>1, <1>4
<1> QED BY <1>5 DEF S

-----------------------------------------------------------------------------
(* What the decrypter makes of a moof is what the moof says                 *)

(* Two readings of a traf agree on where its samples are and, if it has a   *)
(* key, on how they are encrypted.                                          *)
AlikeTracks(scheme, a, b) ==
  /\ b.offset = a.offset /\ b.key = a.key
  /\ a.key # None =>
       /\ DOMAIN b.info = DOMAIN a.info /\ Len(b.info) = Len(a.info)
       /\ \A first : SampleEnds(b, first) = SampleEnds(a, first)
       /\ \A i \in DOMAIN a.info : \A sample :
            Sealed(sample, a.info[i], a.key, scheme, a.enc)
              => Sealed(sample, b.info[i], a.key, scheme, b.enc)

(* Then they agree on what is sealed. *)
LEMMA SealedAlike ==
  ASSUME NEW known, NEW d, NEW e, e.scheme = d.scheme, DOMAIN e.tracks = DOMAIN d.tracks,
         \A k \in DOMAIN d.tracks : AlikeTracks(d.scheme, d.tracks[k], e.tracks[k]),
         NEW body, BodySealed(known, d, body)
  PROVE  BodySealed(known, e, body)
<1> DEFINE K == DOMAIN d.tracks
<1>1. ASSUME NEW k \in K
      PROVE  /\ e.tracks[k].offset = d.tracks[k].offset /\ e.tracks[k].key = d.tracks[k].key
             /\ d.tracks[k].key # None =>
                  /\ DOMAIN e.tracks[k].info = DOMAIN d.tracks[k].info
                  /\ \A first : SampleEnds(e.tracks[k], first) = SampleEnds(d.tracks[k], first)
                  /\ \A i \in DOMAIN d.tracks[k].info : \A sample :
                       Sealed(sample, d.tracks[k].info[i], d.tracks[k].key, d.scheme, d.tracks[k].enc)
                         => Sealed(sample, e.tracks[k].info[i], d.tracks[k].key, d.scheme, e.tracks[k].enc)
  BY DEF AlikeTracks
<1>2. FirstOffset(e.tracks) = FirstOffset(d.tracks)
  <2> DEFINE S == {d.tracks[k].offset : k \in K}
             T == {e.tracks[k].offset : k \in K}
  <2>1. T = S
    BY <1>1
  <2>2. FirstOffset(d.tracks) = Least(S) /\ FirstOffset(e.tracks) = Least(T)
    BY DEF FirstOffset
  <2> HIDE DEF S, T
  <2> QED BY <2>1, <2>2
<1>3. ASSUME NEW k \in K, d.tracks[k].key # None
      PROVE  \A i : EndAt(e.tracks, k, i) = EndAt(d.tracks, k, i)
  BY <1>1, <1>2, <1>3 DEF EndAt
<1>4. ASSUME NEW k \in K, NEW p PROVE Writes(e, Len(body), k, p) <=> Writes(d, Len(body), k, p)
  <2>1. CASE d.tracks[k].key # None
    <3>1. \A i : FitsAt(e.tracks, Len(body), k, i, p) <=> FitsAt(d.tracks, Len(body), k, i, p)
      BY <1>3, <2>1 DEF FitsAt
    <3> QED BY <1>1, <2>1, <3>1 DEF Writes
  <2>2. CASE d.tracks[k].key = None
    BY <1>1, <2>2 DEF Writes
  <2> QED BY <2>1, <2>2
<1>5. /\ \A p \in DOMAIN body : body[p].id[1] \in known <=> \E k \in K : Writes(d, Len(body), k, p)
      /\ \A k \in K : d.tracks[k].key # None =>
           \A i \in DOMAIN d.tracks[k].info : EndAt(d.tracks, k, i) <= Len(body) =>
             Sealed(SampleAt(d.tracks, body, k, i), d.tracks[k].info[i], d.tracks[k].key,
                    d.scheme, d.tracks[k].enc)
  BY DEF BodySealed
<1>6. ASSUME NEW k \in K, e.tracks[k].key # None, NEW i \in DOMAIN e.tracks[k].info,
             EndAt(e.tracks, k, i) <= Len(body)
      PROVE  Sealed(SampleAt(e.tracks, body, k, i), e.tracks[k].info[i], e.tracks[k].key,
                    e.scheme, e.tracks[k].enc)
  <2>1. d.tracks[k].key # None /\ e.tracks[k].key = d.tracks[k].key /\ i \in DOMAIN d.tracks[k].info
    BY <1>1, <1>6
  <2>2. SampleAt(e.tracks, body, k, i) = SampleAt(d.tracks, body, k, i)
    BY <1>3, <2>1 DEF SampleAt
  <2>3. EndAt(d.tracks, k, i) <= Len(body)
    BY <1>3, <1>6, <2>1
  <2>4. Sealed(SampleAt(d.tracks, body, k, i), d.tracks[k].info[i], d.tracks[k].key,
               d.scheme, d.tracks[k].enc)
    BY <1>5, <2>1, <2>3
  <2>5. Sealed(SampleAt(d.tracks, body, k, i), e.tracks[k].info[i], d.tracks[k].key,
               d.scheme, e.tracks[k].enc)
    BY <1>1, <2>1, <2>4
  <2> QED BY <2>1, <2>2, <2>5
<1>7. \A p \in DOMAIN body : body[p].id[1] \in known <=> \E k \in K : Writes(e, Len(body), k, p)
  BY <1>4, <1>5
<1> QED BY <1>6, <1>7 DEF BodySealed

(* The only child of a kind is the last one. *)
LEMMA OnlyIs ==
  ASSUME NEW body, IsSequence(body), NEW t, NEW kind, HasOne(body, t, kind)
  PROVE  /\ Children(body, {t}, kind) # {}
         /\ \E i \in DOMAIN body :
              /\ Children(body, {t}, kind) = {i} /\ Greatest(Children(body, {t}, kind)) = i
              /\ TheChild(body, t, kind) = body[i] /\ body[i].kind = kind /\ body[i].traf = t
              /\ body[i] \in ToSet(body)
<1>1. PICK i \in DOMAIN body : Children(body, {t}, kind) = {i}
  BY DEF HasOne
<1> DEFINE S == Children(body, {t}, kind)
<1>2. Greatest(S) \in S /\ body[Greatest(S)] \in ToSet(body)
  <2>1. S \in SUBSET (DOMAIN body) /\ S # {}
    BY <1>1
  <2> QED BY <2>1, LastChild
<1>3. i \in S /\ (CHOOSE j \in S : TRUE) = i
  BY <1>1
<1>4. body[i].kind = kind /\ body[i].traf = t
  BY <1>3 DEF Children
<1> QED BY <1>1, <1>2, <1>3, <1>4 DEF TheChild

(* Of the trafs up to one it is the last, too. *)
LEMMA LastSoFar ==
  ASSUME NEW body, IsSequence(body), \A c \in ToSet(body) : IsChild(c), NEW t \in Nat, t # 0,
         \A i, j \in DOMAIN body :
           i < j /\ body[i].traf # 0 /\ body[j].traf # 0 => body[i].traf <= body[j].traf,
         NEW kind, NEW i \in DOMAIN body, Children(body, {t}, kind) = {i},
         NEW S \in SUBSET Children(body, 1 .. t, kind), i \in S
  PROVE  Greatest(S) = i
<1>1. Len(body) \in Nat /\ DOMAIN body = 1 .. Len(body)
  BY SequenceIs
<1>2. S \in SUBSET (DOMAIN body) /\ S # {}
  BY DEF Children
<1>3. S \in SUBSET Nat /\ IsFiniteSet(S)
  <2>1. IsFiniteSet(1 .. Len(body))
    BY <1>1, FS_Interval
  <2> QED BY <1>1, <1>2, <2>1, FS_Subset
<1>4. Greatest(S) \in S /\ \A y \in S : y <= Greatest(S)
  BY <1>2, <1>3, GreatestIs
<1> DEFINE j == Greatest(S)
<1> HIDE DEF j
<1>5. j \in DOMAIN body /\ body[j].traf \in 1 .. t /\ body[j].kind = kind /\ body[i].traf = t /\ i <= j
  BY <1>4 DEF Children, j
<1>6. SUFFICES ASSUME i # j PROVE FALSE
  BY DEF j
<1>7. i < j
  BY <1>1, <1>5, <1>6
<1>8. body[j].traf = t
  <2>1. t <= body[j].traf
    BY <1>5, <1>7
  <2> QED BY <1>5, <2>1
<1>9. j \in Children(body, {t}, kind)
  BY <1>5, <1>8 DEF Children
<1> QED BY <1>6, <1>9

(* Samples of the same sizes from the same place on end at the same places. *)
LEMMA EndsAlike ==
  ASSUME NEW a, NEW b, b.offset = a.offset, b.sizes = a.sizes,
         DOMAIN b.info = DOMAIN a.info, Len(b.info) = Len(a.info),
         b.size = a.size \/ \A i \in DOMAIN a.info : i \in DOMAIN a.sizes /\ a.sizes[i] # 0
  PROVE  \A first : SampleEnds(b, first) = SampleEnds(a, first)
<1> DEFINE SizeOf(track, i) == IF i \in DOMAIN track.sizes /\ track.sizes[i] # 0
                               THEN track.sizes[i] ELSE track.size
           s == [i \in DOMAIN a.info |-> SizeOf(a, i)]
           r == [i \in DOMAIN b.info |-> SizeOf(b, i)]
<1>1. \A i \in DOMAIN a.info : SizeOf(b, i) = SizeOf(a, i)
  OBVIOUS
<1>2. r = s
  <2> HIDE DEF SizeOf
  <2> QED BY <1>1
<1>3. \A first : /\ SampleEnds(a, first) = [i \in 0 .. Len(a.info) |-> a.offset - first + Ends(s)[i]]
                 /\ SampleEnds(b, first) = [i \in 0 .. Len(b.info) |-> b.offset - first + Ends(r)[i]]
  BY DEF SampleEnds
<1> HIDE DEF s, r
<1> QED BY <1>2, <1>3

(* With a constant IV in the init segment those of the samples don't count. *)
LEMMA SealedByTrack ==
  ASSUME NEW sample, NEW info, NEW other, other.subs = info.subs, NEW key, NEW track,
         track.civ # None, Sealed(sample, info, key, "cbcs", track)
  PROVE  Sealed(sample, other, key, "cbcs", track)
<1> DEFINE subs == SubSamples(Len(sample), info.subs)
           Rest(i) ==
             /\ \A j \in SubEnds(subs)[i - 1] + 1 .. SubEnds(subs)[i - 1] + subs[i].clear :
                  sample[j].mask = {}
             /\ track.crypt \in Nat /\ track.skip \in Nat /\ (track.crypt # 0 \/ track.skip # 0)
             /\ ChainedBy(ProtectedPart(sample, subs, i), key, track.civ, track.crypt, track.skip)
<1>1. SubSamples(Len(sample), other.subs) = subs
  OBVIOUS
<1> HIDE DEF subs
<1>2. SubEnds(subs)[Len(subs)] = Len(sample) /\ \A i \in DOMAIN subs : Rest(i)
  BY DEF Sealed, subs
<1> QED BY <1>1, <1>2 DEF Sealed

(* Which is all the key of a track depends on. *)
LEMMA KeyAlike ==
  ASSUME NEW d, NEW e, AlikeInit(d, e), NEW track
  PROVE  KeyForTrack(e, track) = KeyForTrack(d, track)
BY DEF AlikeInit, KeyForTrack

(* The first key of the track info is what the moof says. *)
LEMMA AsDescribed ==
  ASSUME NEW d, NEW e, AlikeInit(d, e), NEW body, IsSequence(body),
         \A c \in ToSet(body) : IsChild(c), WellFormed(body), Readable(d, body),
         NEW t \in Nat, t # 0, t \in Trafs(body)
  PROVE  AlikeTracks(d.scheme, Described(d, body, t), TrackInfo(e, body, t))
<1> DEFINE tfhd == TheChild(body, t, "tfhd")
           trun == TheChild(body, t, "trun")
           senc == TheChild(body, t, "senc")
           sencs == Children(body, {t}, "senc")
           a == Described(d, body, t)
           b == TrackInfo(e, body, t)
           plain == IF sencs = {} THEN <<>> ELSE senc.samples
           info == IF sencs = {} THEN <<>> ELSE ParseSenc(e, body[Greatest(sencs)])
           size == DefaultSize(e, body, Children(body, 1 .. t, "tfhd"))
           enc == IF tfhd.track \in DOMAIN e.settings THEN e.settings[tfhd.track]
                  ELSE [crypt |-> e.crypt, skip |-> e.skip, civ |-> e.civ]
           constant == d.scheme = "cbcs" /\ d.civ # None
<1>0. HasOne(body, t, "tfhd") /\ HasOne(body, t, "trun")
  BY DEF WellFormed
<1>1. PICK h \in DOMAIN body :
        /\ Children(body, {t}, "tfhd") = {h} /\ Greatest(Children(body, {t}, "tfhd")) = h
        /\ tfhd = body[h]
  BY <1>0, OnlyIs
<1>2. PICK r \in DOMAIN body :
        /\ Children(body, {t}, "trun") = {r} /\ Greatest(Children(body, {t}, "trun")) = r
        /\ trun = body[r]
  BY <1>0, OnlyIs
<1>3. sencs # {} => /\ senc = body[Greatest(sencs)] /\ senc.kind = "senc" /\ senc \in ToSet(body)
  BY OnlyIs DEF WellFormed
<1>4. \A i, j \in DOMAIN body :
        i < j /\ body[i].traf # 0 /\ body[j].traf # 0 => body[i].traf <= body[j].traf
  BY DEF WellFormed
<1>5. SampleSizes(e, body, Children(body, 1 .. t, "trun")) = trun.sizes
  <2> DEFINE S == Children(body, 1 .. t, "trun")
  <2>1. r \in S
    <3>1. r \in Children(body, {t}, "trun")
      BY <1>2
    <3> QED BY <3>1 DEF Children
  <2>2. Greatest(S) = r
    <3>1. S \in SUBSET Children(body, 1 .. t, "trun")
      OBVIOUS
    <3> HIDE DEF S
    <3> QED BY <1>2, <1>4, <2>1, <3>1, LastSoFar
  <2> HIDE DEF S
  <2>3. SampleSizes(e, body, S) = body[Greatest(S)].sizes
    BY <2>1 DEF SampleSizes
  <2> QED BY <1>2, <2>2, <2>3 DEF S
<1>6. tfhd.size # 0 => size = tfhd.size
  <2> DEFINE T == Children(body, 1 .. t, "tfhd")
             S == {i \in T : body[i].size # 0}
  <2>1. SUFFICES ASSUME tfhd.size # 0 PROVE size = tfhd.size
    OBVIOUS
  <2>2. h \in S
    <3>1. h \in Children(body, {t}, "tfhd")
      BY <1>1
    <3>2. h \in T
      BY <3>1 DEF Children
    <3> QED BY <1>1, <2>1, <3>2
  <2>3. S \in SUBSET T
    OBVIOUS
  <2>4. size = IF S = {} THEN e.defaultSize ELSE body[Greatest(S)].size
    BY DEF DefaultSize
  <2> HIDE DEF S, size
  <2>5. Greatest(S) = h
    BY <1>1, <1>4, <2>2, <2>3, LastSoFar
  <2> QED BY <1>1, <2>2, <2>4, <2>5
<1>7. a = [offset |-> trun.offset, sizes |-> trun.sizes, size |-> tfhd.size, info |-> plain,
           key |-> KeyForTrack(d, tfhd.track), enc |-> d.settings[tfhd.track]]
  BY DEF Described
<1>8. b = [offset |-> trun.offset, sizes |-> trun.sizes, info |-> info, size |-> size,
           key |-> KeyForTrack(e, tfhd.track), enc |-> enc]
  <2> DEFINE Own(kind) == Children(body, {t}, kind)
             track == IF Own("tfhd") = {} THEN 0 ELSE body[Greatest(Own("tfhd"))].track
             settings == IF track \in DOMAIN e.settings THEN e.settings[track]
                         ELSE [crypt |-> e.crypt, skip |-> e.skip, civ |-> e.civ]
             offset == IF Own("trun") = {} THEN 0 ELSE body[Greatest(Own("trun"))].offset
             sizes == SampleSizes(e, body, Children(body, 1 .. t, "trun"))
             deflt == IF Own("tfhd") = {} THEN 0 ELSE size
  <2>1. b = [offset |-> offset, sizes |-> sizes, info |-> info, size |-> deflt,
             key |-> KeyForTrack(e, track), enc |-> settings]
    BY DEF TrackInfo
  <2>2. track = tfhd.track /\ deflt = size
    BY <1>1
  <2>3. offset = trun.offset
    BY <1>2
  <2>4. sizes = trun.sizes
    BY <1>5
  <2>5. settings = enc
    BY <2>2
  <2> HIDE DEF track, offset, sizes, deflt, settings, info, size, enc, b, tfhd, trun
  <2> QED BY <2>1, <2>2, <2>3, <2>4, <2>5
<1>9. KeyForTrack(e, tfhd.track) = KeyForTrack(d, tfhd.track)
  BY KeyAlike
<1>10. e.scheme = d.scheme /\ e.civ = d.civ /\ e.ivSize = d.ivSize /\ e.settings = d.settings
  BY DEF AlikeInit
<1>11. sencs # {} => /\ IsSequence(senc.samples) /\ info = ParseSenc(e, senc)
                     /\ DOMAIN info = DOMAIN senc.samples
  <2>1. sencs # {} => IsChild(senc) /\ senc.kind = "senc"
    BY <1>3
  <2>2. sencs # {} => info = ParseSenc(e, senc)
    BY <1>3
  <2>3. DOMAIN ParseSenc(e, senc) = DOMAIN senc.samples
    BY DEF ParseSenc
  <2> HIDE DEF sencs, senc, info
  <2> QED BY <2>1, <2>2, <2>3 DEF IsChild
<1>12. DOMAIN info = DOMAIN plain /\ Len(info) = Len(plain)
  <2>1. CASE sencs = {}
    BY <2>1
  <2>2. CASE sencs # {}
    <3>1. DOMAIN info = DOMAIN plain /\ IsSequence(plain)
      BY <1>11, <2>2
    <3>2. Len(plain) \in Nat /\ DOMAIN plain = 1 .. Len(plain)
      BY <3>1, SequenceIs
    <3> DEFINE n == Len(plain)
    <3>3. info = [i \in 1 .. n |-> info[i]]
      <4>1. info = ParseSenc(e, senc)
        BY <1>11, <2>2
      <4>2. ParseSenc(e, senc) = [i \in DOMAIN senc.samples |-> ParseSenc(e, senc)[i]]
        BY DEF ParseSenc
      <4>3. DOMAIN senc.samples = 1 .. n
        BY <2>2, <3>2
      <4> HIDE DEF info, n, senc, sencs
      <4> QED BY <4>1, <4>2, <4>3
    <3> HIDE DEF info, plain, n
    <3>4. n \in Nat /\ DOMAIN info = 1 .. n
      BY <3>1, <3>2 DEF n
    <3>5. Len(info) = n
      BY <3>3, <3>4, PlacesMake
    <3> QED BY <3>1, <3>5 DEF n
  <2> QED BY <2>1, <2>2
<1>13. ASSUME a.key # None
       PROVE  /\ \A first : SampleEnds(b, first) = SampleEnds(a, first)
              /\ \A i \in DOMAIN plain : \A sample :
                   Sealed(sample, plain[i], a.key, d.scheme, a.enc)
                     => Sealed(sample, info[i], a.key, d.scheme, enc)
  <2>1. sencs # {} =>
          /\ tfhd.track \in DOMAIN d.settings
          /\ IF constant THEN senc.ivSize = 0 /\ d.settings[tfhd.track].civ # None
             ELSE senc.ivSize = d.ivSize
          /\ tfhd.size # 0 \/ \A i \in DOMAIN senc.samples : i \in DOMAIN trun.sizes /\ trun.sizes[i] # 0
    <3>1. KeyForTrack(d, tfhd.track) # None
      BY <1>7, <1>13
    <3> QED BY <3>1 DEF Readable
  <2>2. \A first : SampleEnds(b, first) = SampleEnds(a, first)
    <3>1. size = tfhd.size \/ \A i \in DOMAIN plain : i \in DOMAIN trun.sizes /\ trun.sizes[i] # 0
      <4>1. CASE sencs = {}
        BY <4>1
      <4>2. CASE sencs # {}
        BY <1>6, <2>1, <4>2
      <4> QED BY <4>1, <4>2
    <3> HIDE DEF a, b, info, plain, size, enc, tfhd, trun
    <3>2. /\ b.offset = a.offset /\ b.sizes = a.sizes /\ a.sizes = trun.sizes
          /\ b.info = info /\ a.info = plain /\ b.size = size /\ a.size = tfhd.size
      BY <1>7, <1>8
    <3> QED BY <1>12, <3>1, <3>2, EndsAlike
  <2>3. ASSUME NEW i \in DOMAIN plain, NEW sample, Sealed(sample, plain[i], a.key, d.scheme, a.enc)
        PROVE  Sealed(sample, info[i], a.key, d.scheme, enc)
    <3>1. sencs # {} /\ plain = senc.samples
      <4>1. DOMAIN <<>> = {}
        BY EmptySeq
      <4>2. plain # <<>>
        <5> HIDE DEF plain
        <5> QED BY <4>1
      <4> HIDE DEF sencs, senc
      <4> QED BY <4>2
    <3>2. enc = a.enc /\ a.enc = d.settings[tfhd.track]
      <4> HIDE DEF a, tfhd, sencs, senc
      <4>1. tfhd.track \in DOMAIN e.settings /\ e.settings = d.settings
        BY <1>10, <2>1, <3>1
      <4>2. enc = d.settings[tfhd.track]
        BY <4>1
      <4>3. a.enc = d.settings[tfhd.track]
        BY <1>7
      <4> QED BY <4>2, <4>3
    <3>3. info[i] = IF constant /\ senc.ivSize = 0 THEN [iv |-> d.civ, subs |-> senc.samples[i].subs]
                    ELSE IF ~constant /\ senc.ivSize = d.ivSize THEN senc.samples[i]
                    ELSE [iv |-> "misread", subs |-> <<>>]
      <4>1. info = ParseSenc(e, senc) /\ i \in DOMAIN senc.samples
        BY <1>11, <2>3, <3>1
      <4> HIDE DEF info, senc
      <4> QED BY <1>10, <4>1 DEF ParseSenc
    <3> DEFINE key == a.key
               new == info[i]
               old == plain[i]
               track == a.enc
    <3>4. CASE constant
      <4>1. new.subs = old.subs /\ track.civ # None /\ d.scheme = "cbcs"
        <5>1. senc.ivSize = 0 /\ d.settings[tfhd.track].civ # None
          BY <2>1, <3>1, <3>4
        <5>2. new = [iv |-> d.civ, subs |-> senc.samples[i].subs]
          BY <3>3, <3>4, <5>1
        <5> HIDE DEF new, senc
        <5> QED BY <3>1, <3>2, <3>4, <5>1, <5>2
      <4>2. Sealed(sample, old, key, "cbcs", track)
        BY <2>3, <4>1
      <4> HIDE DEF new, old, key, track
      <4>3. Sealed(sample, new, key, "cbcs", track)
        BY <4>1, <4>2, SealedByTrack
      <4> QED BY <3>2, <4>1, <4>3 DEF new, key, track
    <3>5. CASE ~constant
      <4>1. new = old
        BY <2>1, <3>1, <3>3, <3>5
      <4> QED BY <2>3, <3>2, <4>1
    <3> QED BY <3>4, <3>5
  <2> QED BY <2>2, <2>3
<1> HIDE DEF a, b, info, plain, size, enc, tfhd, trun
<1>14. /\ b.offset = a.offset /\ b.key = a.key /\ a.info = plain /\ b.info = info /\ b.enc = enc
  BY <1>7, <1>8, <1>9
<1> QED BY <1>12, <1>13, <1>14 DEF AlikeTracks, a, b

-----------------------------------------------------------------------------
(* The stream of a protected segment is in the clear                        *)

(* Every mdat of a protected segment is decrypted to clear media. *)
LEMMA ProtectedClear ==
  ASSUME segment \in Segment, Protected(segment), NEW k \in DOMAIN segment.boxes
  PROVE  BoxClear(k)
<1> DEFINE B == segment.boxes
           moof == B[k - 1]
           mdat == B[k]
           d == Primed(segment).dec
           b == Boxwise(segment, (k - 1) - 1)
           next == Boxwise(segment, k - 1)
<1>1. SUFFICES ASSUME mdat.type = "mdat"
               PROVE  \A p \in DOMAIN mdat.body : DecryptBody(next.dec, mdat.body)[p] = Cleared(mdat.body[p])
  BY DEF BoxClear
<1>2. Len(B) \in Nat /\ DOMAIN B = 1 .. Len(B)
  BY CencAssumption, SequenceIs
<1>3. /\ k # 1 /\ moof.type = "moof"
      /\ WellFormed(moof.body) /\ Readable(d, moof.body)
      /\ BodySealed(segment.known, FragmentOf(d, moof.body), mdat.body)
  BY <1>1 DEF Protected, FragmentSealed
<1>4. /\ k - 1 \in DOMAIN B /\ (k - 1) - 1 \in 0 .. Len(B) - 1 /\ (k - 1) - 1 \in 0 .. Len(B)
      /\ ((k - 1) - 1) + 1 = k - 1
  BY <1>2, <1>3
<1>5. MoofOk(moof) /\ AreBytes(mdat.body)
  BY <1>1, <1>3, <1>4, FragmentIs
<1>6. next = AddBox(b, moof)
  <2> DEFINE j == (k - 1) - 1
  <2>1. j \in 0 .. Len(B) - 1 /\ j + 1 = k - 1
    BY <1>4
  <2> HIDE DEF j
  <2>2. Boxwise(segment, j + 1) = AddBox(Boxwise(segment, j), B[j + 1])
    BY <1>2, <2>1, BoxwiseStep
  <2> QED BY <2>1, <2>2 DEF j
<1>7. DecOk(b.dec) /\ AlikeInit(d, b.dec)
  BY <1>4, AllChained, InitStays DEF Chained
<1> HIDE DEF b, next, moof, mdat, d, B
<1>8. next.dec = ProcessMoof(b.dec, moof).dec
  BY <1>3, <1>6 DEF AddBox, ProcessBox, ProcessAtom
<1> DEFINE e == next.dec
           f == FragmentOf(d, moof.body)
           body == moof.body
<1>9. /\ DecOk(e) /\ e.tracks = [t \in Trafs(body) |-> TrackInfo(b.dec, body, t)]
      /\ AlikeInit(b.dec, e)
  BY <1>5, <1>7, <1>8, ProcessMoofOk, MoofKeepsInit
<1>10. /\ f.scheme = d.scheme /\ f.tracks = [t \in Trafs(body) |-> Described(d, body, t)]
  BY DEF FragmentOf
<1>11. e.scheme = f.scheme
  BY <1>7, <1>9, <1>10 DEF AlikeInit
<1>12. IsSequence(body) /\ (\A c \in ToSet(body) : IsChild(c)) /\ WellFormed(body) /\ Readable(d, body)
  BY <1>3, <1>5 DEF MoofOk, IsBox
<1>13. \A t \in Trafs(body) : t \in Nat /\ t # 0
  <2>1. Cardinality({c.traf : c \in ToSet(body)} \ {0}) \in Nat
    BY <1>12, TrafsAre
  <2> QED BY <2>1 DEF Trafs
<1> HIDE DEF e, f, body
<1>14. ASSUME NEW t \in Trafs(body) PROVE AlikeTracks(f.scheme, f.tracks[t], e.tracks[t])
  <2>1. f.tracks[t] = Described(d, body, t) /\ e.tracks[t] = TrackInfo(b.dec, body, t)
    BY <1>9, <1>10
  <2>2. AlikeTracks(d.scheme, Described(d, body, t), TrackInfo(b.dec, body, t))
    BY <1>7, <1>12, <1>13, AsDescribed
  <2> QED BY <1>10, <2>1, <2>2
<1>15. BodySealed(segment.known, e, mdat.body)
  <2>1. DOMAIN f.tracks = Trafs(body) /\ DOMAIN e.tracks = Trafs(body)
    BY <1>9, <1>10
  <2>2. BodySealed(segment.known, f, mdat.body)
    BY <1>3 DEF f, body
  <2> QED BY <1>11, <1>14, <2>1, <2>2, SealedAlike
<1>16. TracksOk(e.tracks)
  BY <1>9 DEF DecOk
<1> QED BY <1>5, <1>15, <1>16, BodyCleared DEF e

(* decrypt_segment_streaming yields every media byte of such a segment in   *)
(* its place, decrypted exactly once if the request has the key of its      *)
(* track and as it was if not: for every segment, however it is cut into    *)
(* chunks, for any number of fragments, tracks, samples and sub-samples,    *)
(* any block length and each of the schemes.                                *)
THEOREM BytesStayDecrypted == CencSpec => [](Protected(segment) => BytesDecrypted)
<1>1. OutInv => (Protected(segment) => BytesDecrypted)
  <2> SUFFICES ASSUME OutInv, Protected(segment) PROVE BytesDecrypted
    OBVIOUS
  <2>1. InitHasNone
    BY DEF InitHasNone, Protected
  <2>2. \A k \in DOMAIN segment.boxes : BoxClear(k)
    BY ProtectedClear DEF OutInv
  <2> QED BY <2>1, <2>2, MediaYielded DEF BytesDecrypted
<1> QED BY <1>1, OutInvariant, PTL

-----------------------------------------------------------------------------
(* The two ways to decrypt a segment *)

(* A later member has a later place. *)
LEMMA PlaceGrows ==
  ASSUME NEW S \in SUBSET Nat, IsFiniteSet(S), NEW i \in S, NEW j \in S, i < j
  PROVE  PlaceOf(S, i) < PlaceOf(S, j)
<1> DEFINE A == {k \in S : k <= i}
           B == {k \in S : k <= j}
<1>1. A \in SUBSET B /\ j \in B /\ j \notin A
  <2>1. i \in Nat /\ j \in Nat
    OBVIOUS
  <2>2. ASSUME NEW k \in A PROVE k \in B
    <3>1. k \in S /\ k \in Nat /\ k <= i
      OBVIOUS
    <3>2. k <= j
      BY <2>1, <3>1
    <3> QED BY <3>1, <3>2
  <2>3. j \in B
    BY <2>1
  <2>4. j \notin A
    BY <2>1
  <2> HIDE DEF A, B
  <2> QED BY <2>2, <2>3, <2>4
<1>2. IsFiniteSet(B) /\ IsFiniteSet(A)
  BY FS_Subset
<1> HIDE DEF A, B
<1>3. Cardinality(A) <= Cardinality(B) /\ Cardinality(A) # Cardinality(B)
  BY <1>1, <1>2, FS_Subset
<1>4. Cardinality(A) \in Nat /\ Cardinality(B) \in Nat
  BY <1>2, FS_CardinalityType
<1>5. Cardinality(A) < Cardinality(B)
  BY <1>3, <1>4
<1> QED BY <1>5 DEF A, B, PlaceOf

(* As many members as places. *)
LEMMA PlacesCount ==
  ASSUME NEW S \in SUBSET Nat, IsFiniteSet(S), NEW A \in SUBSET S,
         NEW B, B = {PlaceOf(S, i) : i \in A}
  PROVE  Cardinality(A) = Cardinality(B)
<1> DEFINE f == [i \in A |-> PlaceOf(S, i)]
<1>1. IsFiniteSet(A)
  BY FS_Subset
<1>2. f \in [A -> B]
  OBVIOUS
<1>3. ASSUME NEW i \in A, NEW j \in A, f[i] = f[j] PROVE i = j
  <2>1. PlaceOf(S, i) = PlaceOf(S, j) /\ i \in S /\ j \in S /\ i \in Nat /\ j \in Nat
    BY <1>3
  <2>2. PlaceOf(S, i) \in Nat /\ PlaceOf(S, j) \in Nat
    BY FS_Subset, FS_CardinalityType DEF PlaceOf
  <2>3. ~(i < j)
    <3>1. ASSUME i < j PROVE PlaceOf(S, i) < PlaceOf(S, j)
      BY <2>1, <3>1, PlaceGrows
    <3> QED BY <2>1, <2>2, <3>1
  <2>4. ~(j < i)
    <3>1. ASSUME j < i PROVE PlaceOf(S, j) < PlaceOf(S, i)
      BY <2>1, <3>1, PlaceGrows
    <3> QED BY <2>1, <2>2, <3>1
  <2> QED BY <2>1, <2>3, <2>4
<1>4. \A b \in B : \E i \in A : f[i] = b
  OBVIOUS
<1> HIDE DEF f
<1>5. f \in Bijection(A, B)
  <2>1. DOMAIN f = A
    BY <1>2
  <2>2. IsInjective(f)
    BY <1>3, <2>1 DEF IsInjective
  <2> QED BY <1>2, <1>4, <2>2 DEF Bijection, Injection, Surjection
<1> QED BY <1>1, <1>5, FS_Bijection DEF ExistsBijection

(* Sequences that have the same at every place are equal. *)
LEMMA SequencesEqual ==
  ASSUME NEW s, NEW t, IsSequence(s), IsSequence(t), Len(s) = Len(t),
         \A i \in 1 .. Len(s) : s[i] = t[i]
  PROVE  s = t
<1> DEFINE S == ToSet(s) \cup ToSet(t)
<1>1. s \in Seq(S) /\ t \in Seq(S)
  BY SeqMonotonic DEF IsSequence
<1> HIDE DEF S
<1> QED BY <1>1, SeqEqual

(* Filtering twice is filtering once. *)
LEMMA FilteredTwice ==
  ASSUME NEW s, IsSequence(s), NEW S \in SUBSET (DOMAIN s),
         NEW U \in SUBSET (DOMAIN Filtered(s, S)),
         NEW V, V = {j \in S : PlaceOf(S, j) \in U}
  PROVE  Filtered(Filtered(s, S), U) = Filtered(s, V)
<1> DEFINE f == Filtered(s, S)
           g == Filtered(f, U)
           h == Filtered(s, V)
           n == Cardinality(V)
<1>1. /\ IsSequence(f) /\ Len(f) = Cardinality(S) /\ Cardinality(S) \in Nat
      /\ \A j \in S : PlaceOf(S, j) \in 1 .. Cardinality(S) /\ f[PlaceOf(S, j)] = s[j]
      /\ \A k \in 1 .. Cardinality(S) : \E j \in S : PlaceOf(S, j) = k /\ f[k] = s[j]
  BY FilteredAt DEF PlaceOf
<1> HIDE DEF f
<1>2. /\ IsSequence(g) /\ Len(g) = Cardinality(U)
      /\ \A u \in U : g[PlaceOf(U, u)] = f[u]
  BY <1>1, FilteredAt DEF f, PlaceOf
<1>3. V \in SUBSET (DOMAIN s)
  OBVIOUS
<1>4. /\ IsSequence(h) /\ Len(h) = n /\ n \in Nat
      /\ \A k \in 1 .. n : \E j \in V : PlaceOf(V, j) = k /\ h[k] = s[j]
  BY <1>3, FilteredAt DEF PlaceOf
<1> HIDE DEF g, h
<1>5. IsFiniteSet(S) /\ S \in SUBSET Nat
  <2>1. DOMAIN s = 1 .. Len(s) /\ Len(s) \in Nat
    BY SequenceIs
  <2>2. IsFiniteSet(1 .. Len(s))
    BY <2>1, FS_Interval
  <2> QED BY <2>1, <2>2, FS_Subset
<1>6. DOMAIN f = 1 .. Cardinality(S)
  BY <1>1, SequenceIs
<1>7. \A u \in U : \E j \in V : PlaceOf(S, j) = u
  BY <1>1, <1>6 DEF f
<1>8. Cardinality(V) = Cardinality(U)
  <2>1. U = {PlaceOf(S, i) : i \in V}
    BY <1>7
  <2>2. V \in SUBSET S
    OBVIOUS
  <2> QED BY <1>5, <2>1, <2>2, PlacesCount
<1>9. ASSUME NEW j \in V PROVE PlaceOf(U, PlaceOf(S, j)) = PlaceOf(V, j)
  <2> DEFINE A == {i \in V : i <= j}
             B == {u \in U : u <= PlaceOf(S, j)}
  <2>1. ASSUME NEW i \in V PROVE i <= j <=> PlaceOf(S, i) <= PlaceOf(S, j)
    <3>1. /\ i \in S /\ j \in S /\ i \in Nat /\ j \in Nat
          /\ PlaceOf(S, i) \in Nat /\ PlaceOf(S, j) \in Nat
      BY <1>1, <1>5
    <3>2. CASE i < j
      BY <1>5, <3>1, <3>2, PlaceGrows
    <3>3. CASE j < i
      <4>1. PlaceOf(S, j) < PlaceOf(S, i)
        BY <1>5, <3>1, <3>3, PlaceGrows
      <4> QED BY <3>1, <3>3, <4>1
    <3>4. CASE i = j
      BY <3>1, <3>4
    <3> QED BY <3>1, <3>2, <3>3, <3>4
  <2>2. B = {PlaceOf(S, i) : i \in A}
    BY <1>7, <2>1
  <2>3. A \in SUBSET S
    OBVIOUS
  <2> HIDE DEF A, B
  <2>4. Cardinality(A) = Cardinality(B)
    BY <1>5, <2>2, <2>3, PlacesCount
  <2> QED BY <2>4 DEF A, B, PlaceOf
<1>10. ASSUME NEW k \in 1 .. n PROVE g[k] = h[k]
  <2>1. PICK j \in V : PlaceOf(V, j) = k /\ h[k] = s[j]
    BY <1>4
  <2>2. PlaceOf(S, j) \in U /\ f[PlaceOf(S, j)] = s[j]
    BY <1>1
  <2>3. PlaceOf(U, PlaceOf(S, j)) = k
    BY <1>9, <2>1
  <2> QED BY <1>2, <2>1, <2>2, <2>3
<1>11. g = h
  BY <1>2, <1>4, <1>8, <1>10, SequencesEqual
<1> QED BY <1>11 DEF f, g, h

(* Going on to the next place, a filter adds what is there or nothing. *)
LEMMA FilteredGrows ==
  ASSUME NEW s, IsSequence(s), NEW T \in SUBSET (DOMAIN s), NEW k \in 0 .. Len(s) - 1
  PROVE  Filtered(s, T \cap (1 .. k + 1))
           = IF k + 1 \in T THEN Append(Filtered(s, T \cap (1 .. k)), s[k + 1])
             ELSE Filtered(s, T \cap (1 .. k))
<1> DEFINE A == T \cap (1 .. k)
           B == T \cap (1 .. k + 1)
           f == Filtered(s, A)
           g == Filtered(s, B)
           n == Cardinality(A)
<1>1. Len(s) \in Nat /\ DOMAIN s = 1 .. Len(s) /\ k \in Nat
  BY SequenceIs
<1>2. CASE k + 1 \notin T
  <2>1. \A i \in 1 .. k + 1 : i \in 1 .. k \/ i = k + 1
    BY <1>1
  <2>2. \A i \in 1 .. k : i \in 1 .. k + 1
    BY <1>1
  <2>3. A = B
    BY <1>2, <2>1, <2>2
  <2> QED BY <1>2, <2>3
<1>3. CASE k + 1 \in T
  <2>1. B = A \cup {k + 1} /\ k + 1 \notin A
    BY <1>1, <1>3
  <2>2. A \in SUBSET (DOMAIN s) /\ B \in SUBSET (DOMAIN s)
    OBVIOUS
  <2>3. IsFiniteSet(A)
    <3>1. IsFiniteSet(1 .. k)
      BY <1>1, FS_Interval
    <3> QED BY <3>1, FS_Subset
  <2>4. /\ IsSequence(f) /\ Len(f) = n /\ n \in Nat
        /\ \A i \in 1 .. n : \E j \in A : PlaceOf(A, j) = i /\ f[i] = s[j]
    BY <2>2, FilteredAt DEF PlaceOf
  <2>5. /\ IsSequence(g) /\ Len(g) = Cardinality(B)
        /\ \A j \in B : g[PlaceOf(B, j)] = s[j]
    BY <2>2, FilteredAt DEF PlaceOf
  <2> HIDE DEF f, g
  <2>6. Cardinality(B) = n + 1
    BY <2>1, <2>3, FS_AddElement
  <2>7. ASSUME NEW j \in A PROVE PlaceOf(B, j) = PlaceOf(A, j)
    <3>1. j \in Nat /\ j <= k
      BY <1>1
    <3> HIDE DEF B, A
    <3>2. {i \in B : i <= j} = {i \in A : i <= j}
      BY <1>1, <2>1, <3>1
    <3> QED BY <3>2 DEF PlaceOf
  <2>8. PlaceOf(B, k + 1) = n + 1
    <3>1. {i \in B : i <= k + 1} = B
      BY <1>1
    <3> QED BY <2>6, <3>1 DEF PlaceOf
  <2>9. g[n + 1] = s[k + 1]
    <3>1. k + 1 \in B
      BY <2>1
    <3> HIDE DEF B, n
    <3>2. g[PlaceOf(B, k + 1)] = s[k + 1]
      BY <2>5, <3>1
    <3> QED BY <2>8, <3>2
  <2>10. ASSUME NEW i \in 1 .. n PROVE g[i] = f[i]
    <3>1. PICK j \in A : PlaceOf(A, j) = i /\ f[i] = s[j]
      BY <2>4
    <3>2. j \in B /\ PlaceOf(B, j) = i
      BY <2>1, <2>7, <3>1
    <3> QED BY <2>5, <3>1, <3>2
  <2>11. g = Append(f, s[k + 1])
    <3> DEFINE S == ToSet(f) \cup {s[k + 1]}
               h == Append(f, s[k + 1])
    <3>1. f \in Seq(S) /\ s[k + 1] \in S
      BY <2>4, SeqMonotonic DEF IsSequence
    <3> HIDE DEF S
    <3>2. /\ h \in Seq(S) /\ Len(h) = n + 1
          /\ \A i \in 1 .. n : h[i] = f[i]
          /\ h[n + 1] = s[k + 1]
      <4> HIDE DEF n
      <4>1. /\ Append(f, s[k + 1]) \in Seq(S) /\ Len(Append(f, s[k + 1])) = Len(f) + 1
            /\ \A i \in 1 .. Len(f) : Append(f, s[k + 1])[i] = f[i]
            /\ Append(f, s[k + 1])[Len(f) + 1] = s[k + 1]
        BY ONLY <3>1, AppendProperties
      <4> QED BY <2>4, <4>1
    <3>3. IsSequence(h)
      BY <3>2, SeqIsSequence
    <3> HIDE DEF h
    <3>4. ASSUME NEW i \in 1 .. n + 1 PROVE g[i] = h[i]
      <4>1. i \in 1 .. n \/ i = n + 1
        BY <2>4
      <4> QED BY <2>9, <2>10, <3>2, <4>1
    <3>5. g = h
      BY <2>5, <2>6, <3>2, <3>3, <3>4, SequencesEqual
    <3> QED BY <3>5 DEF h
  <2> QED BY <1>3, <2>11 DEF f, g
<1> QED BY <1>2, <1>3

(* A filter that keeps the first n keeps them in their places. *)
LEMMA FilteredFirst ==
  ASSUME NEW s, IsSequence(s), NEW n \in 0 .. Len(s)
  PROVE  /\ IsSequence(Filtered(s, 1 .. n)) /\ DOMAIN Filtered(s, 1 .. n) = 1 .. n
         /\ \A j \in 1 .. n : Filtered(s, 1 .. n)[j] = s[j]
<1>1. Len(s) \in Nat /\ DOMAIN s = 1 .. Len(s) /\ n \in Nat
  BY SequenceIs
<1>2. 1 .. n \in SUBSET (DOMAIN s)
  BY <1>1
<1>3. Cardinality(1 .. n) = n
  BY <1>1, FS_Interval
<1>4. /\ IsSequence(Filtered(s, 1 .. n)) /\ Len(Filtered(s, 1 .. n)) = n
      /\ \A j \in 1 .. n : Filtered(s, 1 .. n)[PlaceOf(1 .. n, j)] = s[j]
  BY <1>2, <1>3, FilteredAt DEF PlaceOf
<1>5. ASSUME NEW j \in 1 .. n PROVE PlaceOf(1 .. n, j) = j
  <2>1. {i \in 1 .. n : i <= j} = 1 .. j
    BY <1>1
  <2>2. Cardinality(1 .. j) = j
    BY FS_Interval
  <2> QED BY <2>1, <2>2 DEF PlaceOf
<1> QED BY <1>4, <1>5, SequenceIs

-----------------------------------------------------------------------------
(* The boxes of a type, and the first of them. *)
BoxesOf(boxes, type)   == {i \in 1 .. Len(boxes) : boxes[i].type = type}
FirstBox(boxes, type) == SelectInSeq(boxes, LAMBDA b : b.type = type)

(* The first box of a type is the least of their places, or 0. *)
LEMMA FirstBoxIs ==
  ASSUME NEW boxes, IsSequence(boxes), NEW type, NEW S, S = BoxesOf(boxes, type)
  PROVE  /\ FirstBox(boxes, type) = IF S = {} THEN 0 ELSE Least(S)
         /\ S # {} => /\ FirstBox(boxes, type) \in S /\ FirstBox(boxes, type) # 0
                      /\ \A i \in S : FirstBox(boxes, type) <= i
<1> DEFINE at == FirstBox(boxes, type)
<1>1. Len(boxes) \in Nat /\ S \in SUBSET (1 .. Len(boxes)) /\ S \in SUBSET Int /\ 0 \notin S
  BY SequenceIs DEF BoxesOf
<1>2. at = IF S = {} THEN 0 ELSE CHOOSE x \in S : \A y \in S : x <= y
  <2>1. at = IF S # {} THEN Min(S) ELSE 0
    BY DEF FirstBox, SelectInSeq, BoxesOf
  <2> QED BY <2>1 DEF Min
<1>3. at = IF S = {} THEN 0 ELSE Least(S)
  BY <1>2 DEF Least
<1>4. IsFiniteSet(S)
  <2>1. IsFiniteSet(1 .. Len(boxes))
    BY <1>1, FS_Interval
  <2> QED BY <1>1, <2>1, FS_Subset
<1> HIDE DEF at
<1>5. S # {} => at \in S /\ \A i \in S : at <= i
  BY <1>1, <1>3, <1>4, LeastIs
<1> QED BY <1>1, <1>3, <1>5 DEF at

(* What processing the first box of a type leaves behind. *)
Past(d, boxes, type) ==
  IF FirstBox(boxes, type) = 0 THEN d ELSE ProcessAtom(d, boxes[FirstBox(boxes, type)]).dec
Begun(d, boxes) == Past(Past(d, boxes, "moov"), boxes, "moof")

(* What decrypt_segment puts in the place of a box. *)
ResultOf(d, boxes, type) ==
  LET first == boxes[FirstBox(boxes, type)] IN
  CASE type = "moov" -> ProcessAtom(d, first).box
    [] type = "moof" -> ProcessAtom(Past(d, boxes, "moov"), first).box
    [] type \in {"sidx", "mdat"} -> ProcessAtom(Begun(d, boxes), first).box
InPlace(d, boxes, box) ==
  IF box.type \in {"moov", "moof", "sidx", "mdat"} THEN ResultOf(d, boxes, box.type) ELSE box
Results(d, boxes) == [i \in 1 .. Len(boxes) |-> InPlace(d, boxes, boxes[i])]
Wanted(boxes, includeInit) ==
  {i \in 1 .. Len(boxes) : includeInit \/ boxes[i].type \notin {"ftyp", "moov"}}

(* decrypt_segment puts a result in the place of every box, and then keeps  *)
(* those that are wanted.                                                   *)
LEMMA DecryptSegmentIs ==
  ASSUME NEW d, NEW boxes, IsSequence(boxes), NEW includeInit
  PROVE  DecryptSegment(d, boxes, includeInit)
           = Filtered(Results(d, boxes), Wanted(boxes, includeInit))
<1> DEFINE W == Wanted(boxes, includeInit)
           w == Filtered(boxes, W)
           x == DecryptSegment(d, boxes, includeInit)
           t == Results(d, boxes)
           h == Filtered(t, W)
           n == Cardinality(W)
<1>1. Len(boxes) \in Nat /\ DOMAIN boxes = 1 .. Len(boxes) /\ W \in SUBSET (DOMAIN boxes)
  BY SequenceIs DEF Wanted
<1>2. IsSequence(t) /\ DOMAIN t = 1 .. Len(boxes)
  <2>1. t = [i \in 1 .. Len(boxes) |-> t[i]]
    BY DEF Results
  <2> HIDE DEF t
  <2> QED BY <1>1, <2>1, PlacesMake
<1>3. x = [i \in DOMAIN w |-> InPlace(d, boxes, w[i])]
  BY <1>1 DEF DecryptSegment, Wanted, InPlace, ResultOf, Past, Begun, FirstBox
<1>4. \A j \in 1 .. Len(boxes) : t[j] = InPlace(d, boxes, boxes[j])
  BY DEF Results
<1> HIDE DEF W, t, x
<1>5. /\ IsSequence(w) /\ Len(w) = n /\ n \in Nat
      /\ \A k \in 1 .. n : \E j \in W : PlaceOf(W, j) = k /\ w[k] = boxes[j]
  BY <1>1, FilteredAt DEF PlaceOf
<1>6. /\ IsSequence(h) /\ Len(h) = n
      /\ \A j \in W : h[PlaceOf(W, j)] = t[j]
  BY <1>1, <1>2, FilteredAt DEF PlaceOf
<1> HIDE DEF w, h
<1>7. DOMAIN w = 1 .. n
  BY <1>5, SequenceIs
<1>8. IsSequence(x) /\ Len(x) = n
  <2>1. x = [i \in 1 .. n |-> x[i]]
    BY <1>3, <1>7
  <2> QED BY <1>5, <2>1, PlacesMake
<1>9. ASSUME NEW k \in 1 .. n PROVE x[k] = h[k]
  <2>1. PICK j \in W : PlaceOf(W, j) = k /\ w[k] = boxes[j]
    BY <1>5
  <2>2. x[k] = InPlace(d, boxes, boxes[j])
    BY <1>3, <1>7, <2>1
  <2>3. h[k] = t[j]
    BY <1>6, <2>1
  <2> QED BY <1>1, <1>4, <2>2, <2>3
<1>10. x = h
  BY <1>5, <1>6, <1>8, <1>9, SequencesEqual
<1> QED BY <1>10 DEF x, h, t, W

(* A box is replaced by one of its type. *)
LEMMA InPlaceTyped ==
  ASSUME NEW d, NEW boxes, IsSequence(boxes), \A i \in 1 .. Len(boxes) : IsBox(boxes[i]),
         NEW i \in 1 .. Len(boxes)
  PROVE  InPlace(d, boxes, boxes[i]).type = boxes[i].type
<1> DEFINE type == boxes[i].type
           S == BoxesOf(boxes, type)
           first == boxes[FirstBox(boxes, type)]
<1>1. S # {} /\ i \in S
  BY DEF BoxesOf
<1>2. first.type = type /\ IsBox(first)
  <2>1. FirstBox(boxes, type) \in S
    BY <1>1, FirstBoxIs
  <2> QED BY <2>1 DEF BoxesOf
<1> HIDE DEF first, type, S
<1>3. ASSUME NEW e PROVE ProcessAtom(e, first).box.type = type
  <2>1. first = [type |-> first.type, form |-> first.form, body |-> first.body]
    BY <1>2 DEF IsBox
  <2> HIDE DEF IsBox
  <2>2. CASE type = "moov"
    <3>1. ProcessAtom(e, first) = ProcessMoov(e, first)
      BY <1>2, <2>2 DEF ProcessAtom
    <3>2. \E b : ProcessMoov(e, first).box = [first EXCEPT !.body = b]
      BY DEF ProcessMoov
    <3> QED BY <1>2, <2>1, <3>1, <3>2
  <2>3. CASE type = "moof"
    <3>1. ProcessAtom(e, first) = ProcessMoof(e, first)
      BY <1>2, <2>3 DEF ProcessAtom
    <3>2. \E b : ProcessMoof(e, first).box = [first EXCEPT !.body = b]
      BY DEF ProcessMoof
    <3> QED BY <1>2, <2>1, <3>1, <3>2
  <2>4. CASE type = "sidx"
    <3>1. ProcessAtom(e, first).box = ProcessSidx(e, first)
      BY <1>2, <2>4 DEF ProcessAtom
    <3>2. \E b : ProcessSidx(e, first) = [first EXCEPT !.body = b]
      BY DEF ProcessSidx
    <3> QED BY <1>2, <2>1, <3>1, <3>2
  <2>5. CASE type = "mdat"
    <3>1. ProcessAtom(e, first).box = DecryptMdat(e, first)
      BY <1>2, <2>5 DEF ProcessAtom
    <3>2. DecryptMdat(e, first) = [first EXCEPT !.body = DecryptBody(e, first.body)]
      BY DEF DecryptMdat
    <3> QED BY <1>2, <2>1, <3>1, <3>2
  <2>6. CASE type \notin {"moov", "moof", "sidx", "mdat"}
    BY <1>2, <2>6 DEF ProcessAtom
  <2> QED BY <2>2, <2>3, <2>4, <2>5, <2>6
<1>4. CASE type \in {"moov", "moof", "sidx", "mdat"}
  <2>1. InPlace(d, boxes, boxes[i]) = ResultOf(d, boxes, type)
    BY <1>4 DEF InPlace, type
  <2>2. \E e : ResultOf(d, boxes, type) = ProcessAtom(e, first).box
    BY <1>4 DEF ResultOf, first
  <2> QED BY <1>3, <2>1, <2>2 DEF type
<1>5. CASE type \notin {"moov", "moof", "sidx", "mdat"}
  BY <1>5 DEF InPlace, type
<1> QED BY <1>4, <1>5

(* A request as one buffer, as it is read back. *)
All(r) == r.init \o r.boxes
Whole(r) == Read(All(r))
NoTail(r) == \A i \in DOMAIN r.boxes : r.boxes[i].form # "toEnd"

(* What list_atoms reads of the init segment and the segment in one buffer. *)
LEMMA WholeIs ==
  ASSUME NEW r \in Segment, Joinable(r), NoTail(r)
  PROVE  LET A == Whole(r)
             M == Len(r.init)
             N == Len(r.boxes)
         IN  /\ ListAtoms(WireOf(All(r))) = A
             /\ M \in Nat /\ N \in Nat /\ IsSequence(A) /\ Len(A) = M + N
             /\ DOMAIN r.init = 1 .. M /\ DOMAIN r.boxes = 1 .. N /\ DOMAIN A = 1 .. M + N
             /\ IsSequence(r.init) /\ IsSequence(r.boxes)
             /\ \A i \in 1 .. M : /\ i \in 1 .. M + N
                                  /\ A[i].type = r.init[i].type /\ A[i].body = r.init[i].body
             /\ \A i \in 1 .. N : /\ M + i \in 1 .. M + N
                                  /\ A[M + i].type = r.boxes[i].type /\ A[M + i].body = r.boxes[i].body
             /\ \A i \in 1 .. M + N : /\ i \in 1 .. M \/ (\E k \in 1 .. N : i = M + k)
                                      /\ IsBox(A[i])
<1> DEFINE A == Whole(r)
           M == Len(r.init)
           N == Len(r.boxes)
           c == All(r)
<1>1. /\ IsSequence(r.init) /\ IsSequence(r.boxes) /\ M \in Nat /\ N \in Nat
      /\ DOMAIN r.init = 1 .. M /\ DOMAIN r.boxes = 1 .. N
      /\ \A i \in 1 .. M : IsBox(r.init[i]) /\ r.init[i].form \in {"normal", "extended"}
      /\ \A i \in 1 .. N : IsBox(r.boxes[i]) /\ r.boxes[i].form \in {"normal", "extended"}
  <2>1. IsSequence(r.init) /\ IsSequence(r.boxes)
    BY CencAssumption
  <2>2. \A i \in DOMAIN r.init : IsBox(r.init[i]) /\ r.init[i].form \in {"normal", "extended"}
    BY CencAssumption DEF Joinable
  <2>3. \A i \in DOMAIN r.boxes : IsBox(r.boxes[i]) /\ r.boxes[i].form \in {"normal", "extended"}
    BY CencAssumption DEF NoTail
  <2> QED BY <2>1, <2>2, <2>3, SequenceIs
<1>2. /\ IsSequence(c) /\ Len(c) = M + N /\ DOMAIN c = 1 .. M + N
      /\ \A i \in 1 .. M : c[i] = r.init[i]
      /\ \A i \in 1 .. N : c[M + i] = r.boxes[i]
  <2> DEFINE s == r.init
             t == r.boxes
  <2>1. c = s \o t /\ M = Len(s) /\ N = Len(t) /\ IsSequence(s) /\ IsSequence(t)
    BY <1>1 DEF All
  <2> HIDE DEF c, M, N, s, t
  <2>2. /\ IsSequence(s \o t) /\ Len(s \o t) = Len(s) + Len(t)
        /\ DOMAIN (s \o t) = 1 .. Len(s) + Len(t)
        /\ \A i \in 1 .. Len(s) : (s \o t)[i] = s[i]
        /\ \A i \in 1 .. Len(t) : (s \o t)[Len(s) + i] = t[i]
    BY ONLY <2>1, ConcatIs
  <2>3. /\ IsSequence(c) /\ Len(c) = M + N /\ DOMAIN c = 1 .. M + N
        /\ \A i \in 1 .. M : c[i] = s[i]
        /\ \A i \in 1 .. N : c[M + i] = t[i]
    BY <2>1, <2>2
  <2> QED BY <2>3 DEF s, t
<1>3. A = [i \in 1 .. Len(c) |-> [type |-> c[i].type, form |-> "normal", body |-> c[i].body]]
  BY DEF Whole, Read
<1> HIDE DEF A, M, N, c
<1>4. \A i \in 1 .. M + N : i \in 1 .. M \/ (\E k \in 1 .. N : i = M + k)
  <2> TAKE i \in 1 .. M + N
  <2>1. CASE i <= M
    BY <1>1, <2>1
  <2>2. CASE i > M
    <3>1. i - M \in 1 .. N /\ i = M + (i - M)
      BY <1>1, <2>2
    <3> QED BY <3>1
  <2> QED BY <1>1, <2>1, <2>2
<1>5. ASSUME NEW i \in 1 .. M + N PROVE IsBox(c[i]) /\ c[i].form \in {"normal", "extended"}
  BY <1>1, <1>2, <1>4
<1>6. Sendable(c) /\ \A i \in DOMAIN c : c[i].form # "toEnd"
  BY <1>2, <1>5 DEF Sendable
<1>7. ListAtoms(WireOf(c)) = A
  BY <1>6, ListAtomsIs DEF A, Whole, c
<1>8. \A i \in 1 .. M + N : /\ A[i] = [type |-> c[i].type, form |-> "normal", body |-> c[i].body]
                            /\ A[i].type = c[i].type /\ A[i].body = c[i].body
  <2> TAKE i \in 1 .. M + N
  <2> DEFINE a == A[i]
             b == c[i]
  <2>1. a = [type |-> b.type, form |-> "normal", body |-> b.body]
    BY <1>2, <1>3
  <2> HIDE DEF a, b
  <2>2. a.type = b.type /\ a.body = b.body
    BY <2>1
  <2> QED BY <2>1, <2>2 DEF a, b
<1>9. IsSequence(A) /\ Len(A) = M + N /\ DOMAIN A = 1 .. M + N
  <2>1. A = [i \in 1 .. M + N |-> A[i]] /\ M + N \in Nat
    BY <1>1, <1>2, <1>3
  <2> QED BY <2>1, PlacesMake
<1>10. (\A i \in 1 .. M : i \in 1 .. M + N) /\ (\A i \in 1 .. N : M + i \in 1 .. M + N)
  BY <1>1
<1>11. \A i \in 1 .. M : A[i].type = r.init[i].type /\ A[i].body = r.init[i].body
  BY <1>2, <1>8, <1>10
<1>12. \A i \in 1 .. N : A[M + i].type = r.boxes[i].type /\ A[M + i].body = r.boxes[i].body
  <2> TAKE i \in 1 .. N
  <2> DEFINE j == M + i
  <2>1. j \in 1 .. M + N /\ c[j] = r.boxes[i]
    BY <1>2, <1>10
  <2> HIDE DEF j
  <2>2. A[j].type = r.boxes[i].type /\ A[j].body = r.boxes[i].body
    BY <1>8, <2>1
  <2> QED BY <2>2 DEF j
<1>13. ASSUME NEW i \in 1 .. M + N PROVE IsBox(A[i])
  <2>1. IsSequence(c[i].body)
    BY <1>5 DEF IsBox
  <2> DEFINE a == A[i]
             b == c[i]
  <2>2. a = [type |-> b.type, form |-> "normal", body |-> b.body]
    BY <1>8
  <2> HIDE DEF a, b
  <2>3. a = [type |-> a.type, form |-> a.form, body |-> a.body] /\ a.body = b.body
    BY <2>2
  <2> QED BY <2>1, <2>3 DEF IsBox, a, b
<1> QED BY <1>1, <1>4, <1>7, <1>9, <1>10, <1>11, <1>12, <1>13 DEF A, M, N, c

(* The form of a moov does not matter. *)
LEMMA MoovSame ==
  ASSUME NEW d, NEW b, NEW c, b.body = c.body, IsBox(b), IsBox(c), b.type = c.type
  PROVE  /\ ProcessMoov(d, b).dec = ProcessMoov(d, c).dec
         /\ ProcessMoov(d, b).box.type = ProcessMoov(d, c).box.type
         /\ ProcessMoov(d, b).box.body = ProcessMoov(d, c).box.body
<1>1. /\ b = [type |-> b.type, form |-> b.form, body |-> b.body]
      /\ c = [type |-> c.type, form |-> c.form, body |-> c.body]
  BY DEF IsBox
<1> QED BY <1>1 DEF ProcessMoov

(* The init segment is primed with and cleaned by either way. *)
LEMMA InitJoins ==
  ASSUME NEW r \in Segment, Joinable(r), NoTail(r), NEW d
  PROVE  LET A == Whole(r)
             init == ProcessInit(d, r.init)
         IN  /\ Past(d, A, "moov") = init.dec
             /\ IsSequence(init.boxes) /\ DOMAIN init.boxes = 1 .. Len(r.init)
             /\ \A i \in 1 .. Len(r.init) : /\ InPlace(d, A, A[i]).type = init.boxes[i].type
                                            /\ InPlace(d, A, A[i]).body = init.boxes[i].body
<1> DEFINE A == Whole(r)
           M == Len(r.init)
           N == Len(r.boxes)
           S == BoxesOf(A, "moov")
           at == FirstBox(A, "moov")
           init == ProcessInit(d, r.init)
           one == ProcessMoov(d, r.init[at])
<1>1. /\ M \in Nat /\ N \in Nat /\ IsSequence(A) /\ Len(A) = M + N
      /\ DOMAIN r.init = 1 .. M /\ IsSequence(r.init)
      /\ \A i \in 1 .. M : /\ i \in 1 .. M + N
                           /\ A[i].type = r.init[i].type /\ A[i].body = r.init[i].body
      /\ \A i \in 1 .. N : A[M + i].type = r.boxes[i].type
      /\ \A i \in 1 .. M + N : /\ i \in 1 .. M \/ (\E k \in 1 .. N : i = M + k)
                               /\ IsBox(A[i])
  BY WholeIs
<1>2. /\ \A i \in 1 .. M : r.init[i].type \notin {"moof", "mdat", "sidx"} /\ IsBox(r.init[i])
      /\ \A i \in 1 .. N : r.boxes[i].type # "moov"
  <2>1. DOMAIN r.boxes = 1 .. N
    BY WholeIs
  <2> QED BY <1>1, <2>1, CencAssumption DEF Joinable
<1> HIDE DEF A, M, N
<1>3. S = BoxesOf(r.init, "moov")
  <2>1. ASSUME NEW i \in 1 .. M + N, A[i].type = "moov" PROVE i \in 1 .. M
    BY <1>1, <1>2, <2>1
  <2>2. BoxesOf(r.init, "moov") = {i \in 1 .. M : r.init[i].type = "moov"}
    BY DEF BoxesOf, M
  <2> QED BY <1>1, <2>1, <2>2 DEF BoxesOf
<1>4. at = FirstBox(r.init, "moov")
  <2>1. at = IF S = {} THEN 0 ELSE Least(S)
    BY <1>1, FirstBoxIs
  <2>2. FirstBox(r.init, "moov") = IF S = {} THEN 0 ELSE Least(S)
    BY <1>1, <1>3, FirstBoxIs
  <2> QED BY <2>1, <2>2
<1>5. S # {} => at \in S /\ at # 0
  BY <1>1, FirstBoxIs
<1>6. S = {} => at = 0
  BY <1>1, FirstBoxIs
<1>7. init = IF at = 0 THEN [dec |-> d, boxes |-> r.init]
             ELSE [dec |-> one.dec,
                   boxes |-> [j \in DOMAIN r.init |-> IF r.init[j].type = "moov" THEN one.box
                                                       ELSE r.init[j]]]
  <2>1. init = IF FirstBox(r.init, "moov") = 0 THEN [dec |-> d, boxes |-> r.init]
               ELSE [dec |-> ProcessMoov(d, r.init[FirstBox(r.init, "moov")]).dec,
                     boxes |-> [j \in DOMAIN r.init |->
                                  IF r.init[j].type = "moov"
                                  THEN ProcessMoov(d, r.init[FirstBox(r.init, "moov")]).box
                                  ELSE r.init[j]]]
    BY DEF ProcessInit, FirstBox
  <2> HIDE DEF at, init
  <2> QED BY <1>4, <2>1
<1> HIDE DEF init, one, at
<1>8. ASSUME NEW i \in 1 .. M, A[i].type # "moov" PROVE InPlace(d, A, A[i]) = A[i]
  BY <1>1, <1>2, <1>8 DEF InPlace
<1>9. CASE S = {}
  <2>1. init.dec = d /\ init.boxes = r.init /\ at = 0
    BY <1>6, <1>7, <1>9
  <2>2. Past(d, A, "moov") = d
    BY <2>1 DEF Past, at
  <2>3. \A i \in 1 .. M : A[i].type # "moov"
    BY <1>1, <1>9 DEF BoxesOf
  <2>4. \A i \in 1 .. M : /\ InPlace(d, A, A[i]).type = init.boxes[i].type
                          /\ InPlace(d, A, A[i]).body = init.boxes[i].body
    BY <1>1, <1>8, <2>1, <2>3
  <2> QED BY <1>1, <2>1, <2>2, <2>4 DEF A, M, init
<1>10. CASE S # {}
  <2> DEFINE whole == ProcessMoov(d, A[at])
             new == [j \in DOMAIN r.init |-> IF r.init[j].type = "moov" THEN one.box ELSE r.init[j]]
  <2>1. at # 0 /\ at \in 1 .. M /\ r.init[at].type = "moov" /\ A[at].type = "moov"
    BY <1>1, <1>3, <1>5, <1>10 DEF BoxesOf, M
  <2>2. init.dec = one.dec /\ init.boxes = new
    BY <1>7, <2>1
  <2>3. whole.dec = one.dec /\ whole.box.type = one.box.type /\ whole.box.body = one.box.body
    BY <1>1, <1>2, <2>1, MoovSame DEF one
  <2>4. ProcessAtom(d, A[at]) = whole
    BY <2>1 DEF ProcessAtom
  <2>5. Past(d, A, "moov") = whole.dec
    BY <2>1, <2>4 DEF Past, at
  <2>6. ASSUME NEW i \in 1 .. M, A[i].type = "moov" PROVE InPlace(d, A, A[i]) = whole.box
    BY <2>4, <2>6 DEF InPlace, ResultOf, at
  <2> HIDE DEF whole
  <2>7. ASSUME NEW i \in 1 .. M
        PROVE  InPlace(d, A, A[i]).type = new[i].type /\ InPlace(d, A, A[i]).body = new[i].body
    <3>1. CASE A[i].type = "moov"
      BY <1>1, <2>3, <2>6, <3>1
    <3>2. CASE A[i].type # "moov"
      BY <1>1, <1>8, <3>2
    <3> QED BY <3>1, <3>2
  <2>8. IsSequence(new) /\ DOMAIN new = 1 .. M
    <3>1. new = [i \in 1 .. M |-> new[i]]
      BY <1>1
    <3> HIDE DEF new
    <3> QED BY <1>1, <3>1, PlacesMake
  <2> HIDE DEF new
  <2> QED BY <2>2, <2>3, <2>5, <2>7, <2>8 DEF A, M, init
<1> QED BY <1>9, <1>10

-----------------------------------------------------------------------------
(* The m-th box is the one moof of a request. *)
OneMoof(r, m) ==
  /\ m \in 1 .. Len(r.boxes)
  /\ \A i \in 1 .. Len(r.boxes) : r.boxes[i].type = "moof" <=> i = m

(* Which is the first of the whole buffer; so is an mdat. *)
LEMMA FirstsAre ==
  ASSUME NEW r \in Segment, Joinable(r), NoTail(r), NEW m, OneMoof(r, m)
  PROVE  /\ FirstBox(Whole(r), "moof") = Len(r.init) + m
         /\ \A x \in 1 .. Len(r.boxes) : r.boxes[x].type = "mdat" =>
              FirstBox(Whole(r), "mdat") = Len(r.init) + x
<1> DEFINE A == Whole(r)
           M == Len(r.init)
           N == Len(r.boxes)
<1>1. /\ M \in Nat /\ N \in Nat /\ IsSequence(A) /\ Len(A) = M + N
      /\ DOMAIN r.init = 1 .. M /\ DOMAIN r.boxes = 1 .. N
      /\ \A i \in 1 .. M : A[i].type = r.init[i].type
      /\ \A i \in 1 .. N : M + i \in 1 .. M + N /\ A[M + i].type = r.boxes[i].type
      /\ \A i \in 1 .. M + N : i \in 1 .. M \/ (\E k \in 1 .. N : i = M + k)
  BY WholeIs
<1> HIDE DEF A, M, N
<1>2. \A i \in 1 .. M : A[i].type \notin {"moof", "mdat"}
  BY <1>1 DEF Joinable
<1>3. ASSUME NEW type \in {"moof", "mdat"}, NEW x \in 1 .. N, r.boxes[x].type = type,
             \A i \in 1 .. N : r.boxes[i].type = type => i = x
      PROVE  FirstBox(A, type) = M + x
  <2> DEFINE S == BoxesOf(A, type)
  <2>1. M + x \in S
    BY <1>1, <1>3 DEF BoxesOf
  <2>2. ASSUME NEW i \in S PROVE i = M + x
    <3>1. i \in 1 .. M + N /\ A[i].type = type
      BY <1>1 DEF BoxesOf
    <3>2. PICK k \in 1 .. N : i = M + k
      BY <1>1, <1>2, <3>1
    <3>3. r.boxes[k].type = type
      BY <1>1, <3>1, <3>2
    <3> QED BY <1>3, <3>2, <3>3
  <2>3. FirstBox(A, type) \in S
    BY <1>1, <2>1, FirstBoxIs
  <2> QED BY <2>2, <2>3
<1>4. FirstBox(A, "moof") = M + m
  <2>1. m \in 1 .. N /\ r.boxes[m].type = "moof" /\ \A i \in 1 .. N : r.boxes[i].type = "moof" => i = m
    BY DEF OneMoof, N
  <2> QED BY <1>3, <2>1
<1>5. ASSUME NEW x \in 1 .. N, r.boxes[x].type = "mdat" PROVE FirstBox(A, "mdat") = M + x
  <2>1. \A i \in 1 .. N : r.boxes[i].type = "mdat" => i = x
    BY <1>1, <1>5 DEF Joinable
  <2> QED BY <1>3, <1>5, <2>1
<1> QED BY <1>4, <1>5 DEF A, M, N

(* The decrypter after k boxes: primed, and with the fragment's moof read.   *)
DecAfter(r, m, k) == IF k < m THEN Primed(r).dec ELSE ProcessBox(Primed(r).dec, r.boxes[m]).dec

(* A new decrypter for a request. *)
NewFor(r) == NewDecrypter(KeyMap(r.ids, r.keys))

(* A box is processed with the same decrypter in the buffer. *)
LEMMA BoxJoins ==
  ASSUME NEW r \in Segment, Joinable(r), NoTail(r), NEW m, OneMoof(r, m),
         NEW k \in 0 .. Len(r.boxes) - 1, r.boxes[k + 1].type # "sidx"
  PROVE  LET A == Whole(r)
             one == InPlace(NewFor(r), A, A[Len(r.init) + (k + 1)])
             two == ProcessBox(DecAfter(r, m, k), r.boxes[k + 1]).box
         IN  one.type = two.type /\ one.body = two.body
<1> DEFINE A == Whole(r)
           M == Len(r.init)
           N == Len(r.boxes)
           d == NewFor(r)
           p == Primed(r).dec
           e == DecAfter(r, m, k)
           x == k + 1
           box == r.boxes[x]
           a == A[M + x]
           one == InPlace(d, A, a)
           two == ProcessBox(e, box).box
<1>1. /\ M \in Nat /\ N \in Nat /\ DOMAIN r.boxes = 1 .. N
      /\ \A i \in 1 .. N : /\ A[M + i].type = r.boxes[i].type /\ A[M + i].body = r.boxes[i].body
                           /\ M + i \in 1 .. M + N
      /\ \A i \in 1 .. M + N : IsBox(A[i])
  BY WholeIs
<1>2. /\ x \in 1 .. N /\ m \in 1 .. N
      /\ FirstBox(A, "moof") = M + m
      /\ box.type = "mdat" => FirstBox(A, "mdat") = M + x
  <2>1. x \in 1 .. N /\ m \in 1 .. N
    BY <1>1 DEF OneMoof
  <2> QED BY <2>1, FirstsAre
<1>3. Past(d, A, "moov") = p
  <2>1. Past(d, A, "moov") = ProcessInit(d, r.init).dec
    BY InitJoins
  <2> QED BY <2>1 DEF Primed, NewFor
<1>4. ASSUME NEW i \in 1 .. N, NEW f
      PROVE  /\ ProcessBox(f, A[M + i]).dec = ProcessBox(f, r.boxes[i]).dec
             /\ ProcessBox(f, A[M + i]).box.type = ProcessBox(f, r.boxes[i]).box.type
             /\ ProcessBox(f, A[M + i]).box.body = ProcessBox(f, r.boxes[i]).box.body
  <2>1. IsBox(A[M + i])
    BY <1>1
  <2>2. IsBox(r.boxes[i])
    BY <1>1, CencAssumption
  <2> DEFINE b == A[M + i]
             c == r.boxes[i]
  <2>3. /\ b.type = c.type /\ b.body = c.body
        /\ b = [type |-> b.type, form |-> b.form, body |-> b.body]
        /\ c = [type |-> c.type, form |-> c.form, body |-> c.body]
    BY <1>1, <2>1, <2>2 DEF IsBox
  <2> HIDE DEF b, c
  <2>4. /\ ProcessBox(f, b).dec = ProcessBox(f, c).dec
        /\ ProcessBox(f, b).box.type = ProcessBox(f, c).box.type
        /\ ProcessBox(f, b).box.body = ProcessBox(f, c).box.body
    BY <2>3, ProcessSame
  <2> QED BY <2>4 DEF b, c
<1> HIDE DEF A, M, N, d, p, e
<1>5. r.boxes[m].type = "moof" /\ A[M + m].type = "moof"
  BY <1>1, <1>2 DEF OneMoof, N
<1>6. Begun(d, A) = ProcessBox(p, r.boxes[m]).dec
  <2>1. M + m # 0
    BY <1>1, <1>2
  <2>2. Begun(d, A) = ProcessAtom(p, A[M + m]).dec
    BY <1>2, <1>3, <2>1 DEF Begun, Past
  <2>3. ProcessAtom(p, A[M + m]) = ProcessBox(p, A[M + m])
    BY <1>5 DEF ProcessBox
  <2> QED BY <1>2, <1>4, <2>2, <2>3
<1>7. a.type = box.type /\ a.body = box.body
  BY <1>1, <1>2
<1>8. box.type \notin {"moov", "sidx"}
  BY <1>1, <1>2 DEF Joinable
<1>9. /\ ProcessBox(e, a).box.type = two.type /\ ProcessBox(e, a).box.body = two.body
  BY <1>2, <1>4
<1>10. CASE box.type = "moof"
  <2>1. m = x
    BY <1>2, <1>10 DEF OneMoof, N
  <2>2. e = p
    BY <1>1, <1>2, <2>1 DEF e, p, DecAfter
  <2>3. one = ProcessAtom(p, a).box
    BY <1>2, <1>3, <1>7, <1>10, <2>1 DEF InPlace, ResultOf
  <2>4. ProcessAtom(p, a) = ProcessBox(p, a)
    BY <1>7, <1>10 DEF ProcessBox
  <2> HIDE DEF one, two, a
  <2> QED BY <1>9, <2>2, <2>3, <2>4 DEF A, M, d, one, two, a, e, box
<1>11. CASE box.type = "mdat"
  <2>1. m < x
    <3>1. m \in DOMAIN r.boxes /\ x \in DOMAIN r.boxes
      BY <1>1, <1>2
    <3> QED BY <1>5, <1>11, <3>1 DEF Joinable
  <2>2. e = Begun(d, A)
    BY <1>1, <1>2, <1>6, <2>1 DEF e, p, DecAfter
  <2>3. one = ProcessAtom(e, a).box
    BY <1>2, <1>7, <1>11, <2>2 DEF InPlace, ResultOf
  <2>4. ProcessAtom(e, a) = ProcessBox(e, a)
    BY <1>7, <1>11 DEF ProcessBox
  <2> HIDE DEF one, two, a
  <2> QED BY <1>9, <2>3, <2>4 DEF A, M, d, one, two, a, e, box
<1>12. CASE box.type \notin {"moof", "mdat"}
  <2>1. one = a
    BY <1>7, <1>8, <1>12 DEF InPlace
  <2>2. two = box
    BY <1>12 DEF ProcessBox
  <2> HIDE DEF one, two, a, box
  <2>3. one.type = two.type /\ one.body = two.body
    BY <1>7, <2>1, <2>2
  <2> QED BY <2>3 DEF A, M, d, one, two, a, e, box
<1> QED BY <1>10, <1>11, <1>12

(* Only the moof changes the decrypter. *)
LEMMA DecNext ==
  ASSUME NEW r \in Segment, NEW m, OneMoof(r, m), NEW k \in 0 .. Len(r.boxes) - 1
  PROVE  DecAfter(r, m, k + 1) = IF r.boxes[k + 1].type = "sidx" THEN DecAfter(r, m, k)
                                 ELSE ProcessBox(DecAfter(r, m, k), r.boxes[k + 1]).dec
<1> DEFINE N == Len(r.boxes)
           x == k + 1
           box == r.boxes[x]
           p == Primed(r).dec
<1>1. N \in Nat
  BY CencAssumption, SequenceIs
<1>2. x \in 1 .. N /\ m \in 1 .. N /\ (box.type = "moof" <=> x = m)
  BY <1>1 DEF OneMoof
<1>3. CASE x = m
  <2>1. DecAfter(r, m, k) = p /\ DecAfter(r, m, x) = ProcessBox(p, box).dec
    BY <1>1, <1>2, <1>3 DEF DecAfter
  <2>2. box.type # "sidx"
    BY <1>2, <1>3
  <2> HIDE DEF box, p
  <2> QED BY <2>1, <2>2 DEF box
<1>4. CASE x # m
  <2>1. DecAfter(r, m, k) = DecAfter(r, m, x)
    <3>1. k < m <=> x < m
      BY <1>1, <1>2, <1>4
    <3> QED BY <3>1 DEF DecAfter
  <2>2. box.type # "moof"
    BY <1>2, <1>4
  <2> HIDE DEF x
  <2>3. ASSUME NEW e PROVE ProcessBox(e, box).dec = e
    BY <2>2 DEF ProcessBox, ProcessAtom
  <2> HIDE DEF box
  <2> QED BY <2>1, <2>3 DEF box, x
<1> QED BY <1>3, <1>4

-----------------------------------------------------------------------------
(* The boxes of the buffer that are kept and not sidx, and what they become. *)
KeptOf(r) == {i \in Wanted(Whole(r), r.includeInit) : Whole(r)[i].type # "sidx"}
ResultsOf(r) == Results(NewFor(r), Whole(r))
KeptUpto(r, n) == Filtered(ResultsOf(r), KeptOf(r) \cap (1 .. n))

Joined(r, m, k) ==
  /\ Boxwise(r, k).dec = DecAfter(r, m, k)
  /\ IsSequence(Boxwise(r, k).boxes) /\ IsSequence(KeptUpto(r, Len(r.init) + k))
  /\ SameBoxes(Boxwise(r, k).boxes, KeptUpto(r, Len(r.init) + k))

(* What is kept of the buffer, and that it keeps its types. *)
LEMMA ResultsAre ==
  ASSUME NEW r \in Segment, Joinable(r), NoTail(r)
  PROVE  LET A == Whole(r)
             M == Len(r.init)
             N == Len(r.boxes)
         IN  /\ IsSequence(ResultsOf(r)) /\ Len(ResultsOf(r)) = M + N /\ DOMAIN ResultsOf(r) = 1 .. M + N
             /\ \A i \in 1 .. M + N : /\ ResultsOf(r)[i] = InPlace(NewFor(r), A, A[i])
                                      /\ ResultsOf(r)[i].type = A[i].type
             /\ KeptOf(r) \in SUBSET (1 .. M + N)
             /\ KeptOf(r) \cap (1 .. M) = IF r.includeInit THEN 1 .. M ELSE {}
             /\ \A i \in 1 .. N : M + i \in KeptOf(r) <=> r.boxes[i].type # "sidx"
<1> DEFINE A == Whole(r)
           M == Len(r.init)
           N == Len(r.boxes)
           d == NewFor(r)
           R == ResultsOf(r)
           T == KeptOf(r)
<1>1. /\ M \in Nat /\ N \in Nat /\ IsSequence(A) /\ Len(A) = M + N
      /\ DOMAIN r.init = 1 .. M /\ DOMAIN r.boxes = 1 .. N
      /\ \A i \in 1 .. M : i \in 1 .. M + N /\ A[i].type = r.init[i].type
      /\ \A i \in 1 .. N : M + i \in 1 .. M + N /\ A[M + i].type = r.boxes[i].type
      /\ \A i \in 1 .. M + N : IsBox(A[i])
  BY WholeIs
<1>2. R = [i \in 1 .. M + N |-> InPlace(d, A, A[i])]
  BY <1>1 DEF ResultsOf, Results
<1>3. \A i \in 1 .. M + N : i \in T <=> /\ r.includeInit \/ A[i].type \notin {"ftyp", "moov"}
                                        /\ A[i].type # "sidx"
  BY <1>1 DEF KeptOf, Wanted
<1>4. T \in SUBSET (1 .. M + N)
  BY <1>1 DEF KeptOf, Wanted
<1> HIDE DEF A, M, N, d, R, T
<1>5. IsSequence(R) /\ Len(R) = M + N /\ DOMAIN R = 1 .. M + N
  <2>1. R = [i \in 1 .. M + N |-> R[i]] /\ M + N \in Nat
    BY <1>1, <1>2
  <2> QED BY <2>1, PlacesMake
<1>6. ASSUME NEW i \in 1 .. M + N PROVE R[i] = InPlace(d, A, A[i]) /\ R[i].type = A[i].type
  <2>1. InPlace(d, A, A[i]).type = A[i].type
    <3>1. IsSequence(A) /\ i \in 1 .. Len(A) /\ \A j \in 1 .. Len(A) : IsBox(A[j])
      BY <1>1
    <3> QED BY ONLY <3>1, InPlaceTyped
  <2> QED BY <1>2, <2>1
<1>7. T \cap (1 .. M) = IF r.includeInit THEN 1 .. M ELSE {}
  <2>1. ASSUME NEW i \in 1 .. M PROVE i \in T <=> r.includeInit
    <3>1. /\ A[i].type # "sidx" /\ (r.includeInit \/ A[i].type \in {"ftyp", "moov"})
      BY <1>1 DEF Joinable
    <3> QED BY <1>1, <1>3, <3>1
  <2> QED BY <2>1
<1>8. ASSUME NEW i \in 1 .. N PROVE M + i \in T <=> r.boxes[i].type # "sidx"
  <2>1. r.boxes[i].type # "moov" /\ (r.includeInit \/ r.boxes[i].type # "ftyp")
    BY <1>1 DEF Joinable
  <2>2. M + i \in 1 .. M + N /\ A[M + i].type = r.boxes[i].type
    BY <1>1
  <2> QED BY <1>3, <2>1, <2>2
<1> QED BY <1>4, <1>5, <1>6, <1>7, <1>8 DEF A, M, N, d, R, T

(* Up to the segment both have yielded the init segment, or nothing. *)
LEMMA JoinedFirst ==
  ASSUME NEW r \in Segment, Joinable(r), NoTail(r), NEW m, OneMoof(r, m)
  PROVE  Joined(r, m, 0)
<1> DEFINE A == Whole(r)
           M == Len(r.init)
           N == Len(r.boxes)
           d == NewFor(r)
           R == ResultsOf(r)
           T == KeptOf(r)
           init == ProcessInit(d, r.init)
           p == Primed(r)
           K == KeptUpto(r, M)
<1>1. M \in Nat /\ N \in Nat /\ \A i \in 1 .. M : i \in 1 .. M + N
  BY WholeIs
<1>2. /\ IsSequence(R) /\ Len(R) = M + N
      /\ \A i \in 1 .. M + N : R[i] = InPlace(d, A, A[i])
      /\ T \cap (1 .. M) = IF r.includeInit THEN 1 .. M ELSE {}
  BY ResultsAre
<1>3. /\ IsSequence(init.boxes) /\ DOMAIN init.boxes = 1 .. M
      /\ \A i \in 1 .. M : /\ InPlace(d, A, A[i]).type = init.boxes[i].type
                           /\ InPlace(d, A, A[i]).body = init.boxes[i].body
  BY InitJoins
<1>4. p.dec = init.dec /\ p.boxes = IF r.includeInit THEN init.boxes ELSE <<>>
  BY DEF Primed, NewFor
<1>5. Boxwise(r, 0) = p
  BY <1>1, BoxwiseStep
<1>6. K = Filtered(R, T \cap (1 .. M))
  BY DEF KeptUpto
<1> HIDE DEF A, M, N, d, R, T, init, p, K
<1>7. IsSequence(K) /\ IsSequence(p.boxes) /\ SameBoxes(p.boxes, K)
  <2>1. CASE r.includeInit
    <3>1. K = Filtered(R, 1 .. M) /\ p.boxes = init.boxes
      BY <1>2, <1>4, <1>6, <2>1
    <3>2. M \in 0 .. Len(R)
      BY <1>1, <1>2
    <3>3. IsSequence(K) /\ DOMAIN K = 1 .. M /\ \A j \in 1 .. M : K[j] = R[j]
      BY <1>2, <3>1, <3>2, FilteredFirst
    <3>4. \A j \in 1 .. M : init.boxes[j].type = K[j].type /\ init.boxes[j].body = K[j].body
      BY <1>1, <1>2, <1>3, <3>3
    <3> QED BY <1>3, <3>1, <3>3, <3>4 DEF SameBoxes
  <2>2. CASE ~r.includeInit
    <3>1. p.boxes = <<>> /\ T \cap (1 .. M) = 1 .. 0
      BY <1>2, <1>4, <2>2
    <3>2. 0 \in 0 .. Len(R)
      BY <1>1, <1>2
    <3>3. IsSequence(K) /\ DOMAIN K = 1 .. 0
      BY <1>2, <1>6, <3>1, <3>2, FilteredFirst
    <3>4. IsSequence(p.boxes) /\ DOMAIN p.boxes = 1 .. 0
      <4>1. IsSequence(<<>>)
        BY EmptySeq DEF IsSequence
      <4> QED BY <3>1, <4>1
    <3>5. \A j \in 1 .. 0 : p.boxes[j].type = K[j].type /\ p.boxes[j].body = K[j].body
      OBVIOUS
    <3> QED BY <3>3, <3>4, <3>5 DEF SameBoxes
  <2> QED BY <2>1, <2>2
<1>8. DecAfter(r, m, 0) = p.dec
  <2>1. m \in 1 .. N
    BY DEF OneMoof, N
  <2>2. 0 < m
    BY <1>1, <2>1
  <2> QED BY <2>2 DEF DecAfter, p
<1>9. M + 0 = M
  BY <1>1
<1> QED BY <1>5, <1>7, <1>8, <1>9 DEF Joined, K, M

(* Each box of the segment adds the same to both, or nothing to either. *)
LEMMA JoinedNext ==
  ASSUME NEW r \in Segment, Joinable(r), NoTail(r), NEW m, OneMoof(r, m),
         NEW k \in 0 .. Len(r.boxes) - 1, Joined(r, m, k)
  PROVE  Joined(r, m, k + 1)
<1> DEFINE A == Whole(r)
           M == Len(r.init)
           N == Len(r.boxes)
           d == NewFor(r)
           R == ResultsOf(r)
           T == KeptOf(r)
           x == k + 1
           n == M + k
           box == r.boxes[x]
           b == Boxwise(r, k)
           c == Boxwise(r, x)
           e == DecAfter(r, m, k)
           K == KeptUpto(r, n)
           L == KeptUpto(r, n + 1)
           two == ProcessBox(e, box)
<1>1. M \in Nat /\ N \in Nat
  BY WholeIs
<1>2. /\ IsSequence(R) /\ Len(R) = M + N /\ DOMAIN R = 1 .. M + N
      /\ \A i \in 1 .. M + N : R[i] = InPlace(d, A, A[i])
      /\ T \in SUBSET (1 .. M + N)
      /\ \A i \in 1 .. N : M + i \in T <=> r.boxes[i].type # "sidx"
  BY ResultsAre
<1>3. n + 1 = M + x /\ n + 1 \in 1 .. M + N /\ x \in 1 .. N /\ n \in 0 .. (M + N) - 1
  <2>1. k \in 0 .. N - 1
    OBVIOUS
  <2> HIDE DEF M, N
  <2> QED BY <1>1, <2>1
<1>4. b.dec = e /\ IsSequence(b.boxes) /\ IsSequence(K) /\ SameBoxes(b.boxes, K)
  BY DEF Joined
<1>5. c = AddBox(b, box)
  BY <1>1, BoxwiseStep
<1>6. DecAfter(r, m, x) = IF box.type = "sidx" THEN e ELSE two.dec
  BY DecNext
<1>7. box.type # "sidx" =>
        /\ InPlace(d, A, A[M + x]).type = two.box.type
        /\ InPlace(d, A, A[M + x]).body = two.box.body
  BY BoxJoins
<1>8. K = Filtered(R, T \cap (1 .. n)) /\ L = Filtered(R, T \cap (1 .. n + 1))
  BY DEF KeptUpto
<1> HIDE DEF A, M, N, d, R, T, n, x, box, b, c, e, K, L, two
<1>9. L = IF n + 1 \in T THEN Append(K, R[n + 1]) ELSE K
  <2>1. T \in SUBSET (DOMAIN R) /\ n \in 0 .. Len(R) - 1
    BY <1>2, <1>3
  <2>2. Filtered(R, T \cap (1 .. n + 1))
          = IF n + 1 \in T THEN Append(Filtered(R, T \cap (1 .. n)), R[n + 1])
            ELSE Filtered(R, T \cap (1 .. n))
    BY <1>2, <2>1, FilteredGrows
  <2> QED BY <1>8, <2>2
<1>10. n + 1 \in T <=> box.type # "sidx"
  BY <1>2, <1>3 DEF box
<1>11. /\ c.dec = DecAfter(r, m, x)
       /\ IsSequence(c.boxes) /\ IsSequence(L) /\ SameBoxes(c.boxes, L)
  <2>1. CASE box.type = "sidx"
    BY <1>4, <1>5, <1>6, <1>9, <1>10, <2>1 DEF AddBox
  <2>2. CASE box.type # "sidx"
    <3>1. c = [dec |-> two.dec, boxes |-> Append(b.boxes, two.box)]
      BY <1>4, <1>5, <2>2 DEF AddBox, two
    <3>2. L = Append(K, R[n + 1])
      BY <1>9, <1>10, <2>2
    <3>3. two.box.type = R[n + 1].type /\ two.box.body = R[n + 1].body
      BY <1>2, <1>3, <1>7, <2>2
    <3>4. /\ IsSequence(Append(b.boxes, two.box)) /\ IsSequence(Append(K, R[n + 1]))
          /\ SameBoxes(Append(b.boxes, two.box), Append(K, R[n + 1]))
      BY <1>4, <3>3, AppendSame
    <3> QED BY <1>6, <2>2, <3>1, <3>2, <3>4
  <2> QED BY <2>1, <2>2
<1>12. L = KeptUpto(r, M + x)
  BY <1>3 DEF L
<1> QED BY <1>11, <1>12 DEF Joined, c, x, M

(* By induction both agree on every number of boxes. *)
LEMMA AllJoined ==
  ASSUME NEW r \in Segment, Joinable(r), NoTail(r), NEW m, OneMoof(r, m)
  PROVE  \A k \in 0 .. Len(r.boxes) : Joined(r, m, k)
<1> DEFINE N == Len(r.boxes)
           S == {k \in Nat : k \in 0 .. N => Joined(r, m, k)}
<1>1. N \in Nat
  BY CencAssumption, SequenceIs
<1>2. 0 \in S
  BY JoinedFirst
<1>3. ASSUME NEW k \in S PROVE k + 1 \in S
  <2> SUFFICES ASSUME k + 1 \in 0 .. N PROVE Joined(r, m, k + 1)
    OBVIOUS
  <2>1. k \in 0 .. N /\ k \in 0 .. N - 1
    BY <1>1
  <2>2. Joined(r, m, k)
    BY <2>1
  <2> QED BY <2>1, <2>2, JoinedNext
<1> HIDE DEF S
<1>4. S = Nat
  BY <1>2, <1>3, SetInduction DEF S
<1> QED BY <1>1, <1>4 DEF S

(* The buffer a request is decrypted as, and its boxes but for the sidx. *)
BufferOf(r) == DecryptBuffer(r.ids, r.keys, WireOf(r.init \o r.boxes), r.includeInit)
ButSidx(boxes) == Filtered(boxes, {i \in DOMAIN boxes : boxes[i].type # "sidx"})

(* The stream of all boxes and the buffer, but for the sidx, agree. *)
LEMMA PathsJoin ==
  ASSUME NEW r \in Segment, Joinable(r), NoTail(r), NEW m, OneMoof(r, m),
         KeyMap(r.ids, r.keys) # <<>>
  PROVE  SameBoxes(Boxwise(r, Len(r.boxes)).boxes, ButSidx(BufferOf(r)))
<1> DEFINE A == Whole(r)
           M == Len(r.init)
           N == Len(r.boxes)
           R == ResultsOf(r)
           T == KeptOf(r)
           W == Wanted(A, r.includeInit)
           B == BufferOf(r)
           U == {i \in DOMAIN B : B[i].type # "sidx"}
<1>1. /\ M \in Nat /\ N \in Nat /\ IsSequence(A) /\ Len(A) = M + N
      /\ ListAtoms(WireOf(All(r))) = A
  BY WholeIs
<1>2. /\ IsSequence(R) /\ DOMAIN R = 1 .. M + N
      /\ \A i \in 1 .. M + N : R[i].type = A[i].type
      /\ T \in SUBSET (1 .. M + N)
  BY ResultsAre
<1>3. B = Filtered(R, W)
  <2>1. B = DecryptSegment(NewFor(r), A, r.includeInit)
    BY <1>1 DEF BufferOf, DecryptBuffer, NewFor, All
  <2> HIDE DEF A, B
  <2> QED BY <1>1, <2>1, DecryptSegmentIs DEF ResultsOf, A
<1>4. W \in SUBSET (1 .. M + N) /\ T = {i \in W : A[i].type # "sidx"}
  BY <1>1 DEF Wanted, KeptOf
<1>5. U \in SUBSET (DOMAIN B)
  OBVIOUS
<1> HIDE DEF A, M, N, R, T, W, B
<1>6. ASSUME NEW j \in W PROVE PlaceOf(W, j) \in U <=> A[j].type # "sidx"
  <2>1. /\ PlaceOf(W, j) \in 1 .. Cardinality(W) /\ B[PlaceOf(W, j)] = R[j]
        /\ IsSequence(B) /\ Len(B) = Cardinality(W)
    <3>1. W \in SUBSET (DOMAIN R) /\ IsSequence(R)
      BY <1>2, <1>4
    <3>2. /\ IsSequence(Filtered(R, W)) /\ Len(Filtered(R, W)) = Cardinality(W)
          /\ \A i \in W : /\ PlaceOf(W, i) \in 1 .. Cardinality(W)
                          /\ Filtered(R, W)[PlaceOf(W, i)] = R[i]
      BY ONLY <3>1, FilteredAt DEF PlaceOf
    <3> QED BY <1>3, <3>2
  <2>2. PlaceOf(W, j) \in DOMAIN B
    BY <2>1, SequenceIs
  <2>3. B[PlaceOf(W, j)].type = A[j].type
    BY <1>2, <1>4, <2>1
  <2> QED BY <2>2, <2>3
<1>7. T = {j \in W : PlaceOf(W, j) \in U}
  BY <1>4, <1>6
<1> HIDE DEF U
<1>8. Filtered(B, U) = Filtered(R, T)
  <2>1. W \in SUBSET (DOMAIN R) /\ U \in SUBSET (DOMAIN Filtered(R, W))
    BY <1>2, <1>3, <1>4, <1>5
  <2>2. Filtered(Filtered(R, W), U) = Filtered(R, T)
    <3>1. IsSequence(R)
      BY <1>2
    <3> QED BY ONLY <1>7, <2>1, <3>1, FilteredTwice
  <2> QED BY <1>3, <2>2
<1>9. ButSidx(B) = Filtered(R, T)
  BY <1>8 DEF ButSidx, U
<1>10. T \cap (1 .. M + N) = T
  BY <1>2
<1>11. KeptUpto(r, M + N) = Filtered(R, T)
  BY <1>10 DEF KeptUpto, R, T
<1>12. Joined(r, m, N)
  <2>1. N \in 0 .. Len(r.boxes)
    BY <1>1 DEF N
  <2> QED BY <2>1, AllJoined
<1>13. SameBoxes(Boxwise(r, N).boxes, KeptUpto(r, M + N))
  BY <1>12 DEF Joined, M, N
<1> QED BY <1>9, <1>11, <1>13 DEF B, N

-----------------------------------------------------------------------------
(* Where the reader is when the answer has ended. *)
CompleteInv ==
  /\ cencPc \notin {"start", "failed"} => KeyMap(segment.ids, segment.keys) # <<>>
  /\ cencPc = "ended" =>
       \E k \in 0 .. Len(segment.boxes) : Processed(k) /\ (Waiting(k) \/ Passing(k))

(* A stream comes to its end from where it waits or passes on. *)
LEMMA CompleteStep ==
  ASSUME CencInv, CompleteInv, [CencNext]_cencVars
  PROVE  CompleteInv'
<1>1. segment' = segment
  BY DEF CencNext, cencVars, StartStream, ReadHeader, PassTail, NeedHeader, TakePart,
         EmitBox, Receive, UpstreamEnds, UpstreamFails
<1>2. cencPc' \notin {"start", "failed"} => KeyMap(segment.ids, segment.keys) # <<>>
  <2>1. CASE StartStream
    BY <2>1 DEF StartStream
  <2>2. CASE ~StartStream
    BY <2>2 DEF CencNext, cencVars, ReadHeader, PassTail, NeedHeader, TakePart,
                EmitBox, Receive, UpstreamEnds, UpstreamFails, CompleteInv
  <2> QED BY <2>1, <2>2
<1>3. ASSUME cencPc' = "ended"
      PROVE  \E k \in 0 .. Len(segment.boxes) : Processed(k)' /\ (Waiting(k)' \/ Passing(k)')
  <2>1. UNCHANGED <<segment, received, dec, out, rest>>
    BY <1>3 DEF CencNext, cencVars, StartStream, ReadHeader, PassTail, NeedHeader, TakePart,
                EmitBox, Receive, UpstreamEnds, UpstreamFails
  <2>2. cencPc \in {"read", "tail", "ended"}
    BY <1>3 DEF CencNext, cencVars, StartStream, ReadHeader, PassTail, NeedHeader, TakePart,
                EmitBox, Receive, UpstreamEnds, UpstreamFails
  <2>3. PICK k \in 0 .. Len(segment.boxes) : Processed(k) /\ (Waiting(k) \/ Passing(k))
    BY <2>2 DEF CencInv, CompleteInv
  <2>4. Processed(k)'
    BY <2>1, <2>3, ProcessedStays
  <2>5. Waiting(k)' \/ Passing(k)'
    BY <2>1, <2>3, SameSegment DEF Waiting, Passing
  <2> QED BY <2>4, <2>5
<1> QED BY <1>1, <1>2, <1>3 DEF CompleteInv

(* A stream that ends has the keys, and has yielded every box that has      *)
(* arrived or passes on the last.                                           *)
THEOREM CompleteInvariant == CencSpec => []CompleteInv
<1>1. CencInit => CompleteInv
  BY DEF CencInit, CompleteInv
<1>2. CencInv /\ CompleteInv /\ [CencNext]_cencVars => CompleteInv'
  BY CompleteStep
<1> QED BY <1>1, <1>2, CencInvariant, PTL DEF CencSpec

(* One that has received everything and passed on nothing has processed all. *)
LEMMA CompleteIs ==
  ASSUME segment \in Segment, CompleteInv, Complete, rest = <<>>
  PROVE  /\ NoTail(segment) /\ KeyMap(segment.ids, segment.keys) # <<>>
         /\ SameBoxes(out, Boxwise(segment, Len(segment.boxes)).boxes)
<1> DEFINE N == Len(segment.boxes)
<1>1. cencPc = "ended" /\ received = Len(Wire)
  BY DEF Complete
<1>2. PICK k \in 0 .. N : Processed(k) /\ (Waiting(k) \/ Passing(k))
  BY <1>1 DEF CompleteInv
<1>3. /\ N \in Nat /\ Len(Wire) \in Nat /\ Wire \in Seq(Units) /\ DOMAIN segment.boxes = 1 .. N
      /\ EndOf(N) = Len(Wire)
      /\ \A i \in 0 .. N : EndOf(i) \in 0 .. Len(Wire)
  BY WireIs, EndsGrow, CencAssumption, SequenceIs
<1>4. ~Passing(k)
  <2> SUFFICES ASSUME Passing(k) PROVE FALSE
    OBVIOUS
  <2>1. EndOf(k) < received /\ rest = SubSeq(Wire, EndOf(k) + 1, received)
    BY DEF Passing
  <2>2. EndOf(k) + 1 \in 1 .. Len(Wire) /\ received = Len(Wire)
    BY <1>1, <1>3, <2>1
  <2>3. Len(SubSeq(Wire, EndOf(k) + 1, Len(Wire))) = Len(Wire) - EndOf(k)
    BY <1>3, <2>2
  <2>4. Len(Wire) - EndOf(k) = 0
    <3>1. SubSeq(Wire, EndOf(k) + 1, Len(Wire)) = <<>>
      BY <2>1, <2>2
    <3>2. Len(<<>>) = 0
      OBVIOUS
    <3> QED BY <2>3, <3>1, <3>2
  <2>5. EndOf(k) < Len(Wire) /\ EndOf(k) \in Nat /\ Len(Wire) \in Nat
    BY <1>3, <2>1, <2>2
  <2> QED BY <2>4, <2>5
<1>5. k = N
  <2> SUFFICES ASSUME k < N PROVE FALSE
    BY <1>3
  <2>1. received < EndOf(k + 1)
    BY <1>2, <1>4 DEF Waiting
  <2>2. k + 1 \in 0 .. N
    BY <1>3
  <2>3. EndOf(k + 1) \in 0 .. Len(Wire)
    BY <1>3, <2>2
  <2> QED BY <1>1, <1>3, <2>1, <2>3
<1>6. /\ \A i \in 1 .. N : segment.boxes[i].form # "toEnd"
      /\ SameBoxes(out, Boxwise(segment, N).boxes)
  BY <1>2, <1>5 DEF Processed
<1> QED BY <1>1, <1>3, <1>6 DEF NoTail, CompleteInv

(* One moof among the boxes is the m-th for some m. *)
LEMMA OneFragment ==
  ASSUME segment \in Segment, Fragments = 1
  PROVE  \E m : OneMoof(segment, m)
<1> DEFINE S == {i \in DOMAIN segment.boxes : segment.boxes[i].type = "moof"}
<1>1. Len(segment.boxes) \in Nat /\ DOMAIN segment.boxes = 1 .. Len(segment.boxes)
  BY CencAssumption, SequenceIs
<1>2. IsFiniteSet(S)
  <2>1. IsFiniteSet(1 .. Len(segment.boxes))
    BY <1>1, FS_Interval
  <2> QED BY <1>1, <2>1, FS_Subset
<1>3. Cardinality(S) = 1
  BY DEF Fragments
<1> HIDE DEF S
<1>4. PICK m : S = {m}
  BY <1>2, <1>3, FS_Singleton
<1>5. OneMoof(segment, m)
  BY <1>1, <1>4 DEF OneMoof, S
<1> QED BY <1>5

(* The two ways to decrypt a segment agree: what decrypt_segment_streaming   *)
(* yields of one fragment, however it is cut into chunks, is what the        *)
(* buffered decrypt_segment makes of it, but for the sidx, which the buffer  *)
(* keeps and the stream drops.                                              *)
THEOREM PathsStayAgreed == CencSpec => [](Joinable(segment) => PathsAgree)
<1>1. OutInv /\ CompleteInv => (Joinable(segment) => PathsAgree)
  <2> SUFFICES ASSUME OutInv, CompleteInv, Joinable(segment), Complete, Fragments = 1, rest = <<>>

                    PROVE  PackAll(out) = PackAll(Filtered(Buffered, {i \in DOMAIN Buffered : Buffered[i].type # "sidx"}))
    BY DEF PathsAgree
  <2> DEFINE boxes == Boxwise(segment, Len(segment.boxes)).boxes
  <2>1. segment \in Segment
    BY DEF OutInv
  <2>2. /\ NoTail(segment) /\ KeyMap(segment.ids, segment.keys) # <<>>
        /\ SameBoxes(out, boxes)
    BY <2>1, CompleteIs
  <2>3. PICK m : OneMoof(segment, m)
    BY <2>1, OneFragment
  <2>4. SameBoxes(boxes, ButSidx(BufferOf(segment)))
    BY <2>1, <2>2, <2>3, PathsJoin
  <2>5. PackAll(out) = PackAll(ButSidx(BufferOf(segment)))
    <3> HIDE DEF boxes
    <3> QED BY <2>2, <2>4, PackSame
  <2>6. BufferOf(segment) = Buffered
    BY DEF BufferOf, Buffered
  <2> QED BY <2>5, <2>6 DEF ButSidx
<1> QED BY <1>1, OutInvariant, CompleteInvariant, PTL

=============================================================================
