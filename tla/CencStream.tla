------------------------------- MODULE CencStream -------------------------------
(***************************************************************************)
(* Decryption of a segment while it is downloaded                           *)
(* (decrypt_segment_streaming in src/drm/cenc.rs).  The segment arrives in  *)
(* chunks cut anywhere; boxes are put together again, processed one by one  *)
(* and yielded.  buf always holds what was received and not yet taken, so   *)
(* it is two positions on the wire here, and cur_body is what was taken     *)
(* since the box's header.                                                  *)
(*                                                                         *)
(* A segment is                                                            *)
(*   init         the boxes of the init segment                             *)
(*   boxes        the boxes of the media segment; the form of a box says    *)
(*                how its header gives the size, see Header                 *)
(*   ids, keys    the key_id and key lists of the request                   *)
(*   includeInit  whether the player gets the init segment with it          *)
(*   known        the tracks encrypted with a key of the request            *)
(***************************************************************************)
EXTENDS CencDecrypter

CONSTANT Segment   \* the segments that are requested

(* What a child of a moof, a box and a byte of an mdat are made of. *)
IsChild(c) ==
  /\ c.traf \in Nat
  /\ c.kind = "tfhd" => c.size \in Nat
  /\ c.kind = "trun" =>
       c \in [kind : {"trun"}, traf : Nat, offset : Int, sizes : {c.sizes}] /\ c.sizes \in Seq(Nat)
  /\ c.kind = "senc" =>
       /\ IsSequence(c.samples)
       /\ \A i \in DOMAIN c.samples :
            c.samples[i].subs \in Seq([clear : Nat, enc : Nat])
IsBox(box) ==
  /\ box = [type |-> box.type, form |-> box.form, body |-> box.body]
  /\ IsSequence(box.body)
IsByte(u) == u \in [kind : {"byte"}, id : {u.id}, mask : {u.mask}]

(* Segments are finite, and nothing follows a box that reaches to the end.  *)
(* None is not the header of a box.  A moof has a traf.                     *)
ASSUME CencAssumption ==
  \A request \in Segment :
    /\ IsSequence(request.init)
    /\ \A i \in DOMAIN request.init : IsBox(request.init[i])
    /\ IsSequence(request.boxes)
    /\ \A i \in DOMAIN request.boxes :
         LET box == request.boxes[i] IN
         /\ IsBox(box)
         /\ \/ box.form \in {"normal", "extended"}
            \/ box.form = "toEnd" /\ i = Len(request.boxes)
         /\ None \notin [type : {box.type}, start : Nat, remaining : Nat]
         /\ box.type = "moof" => /\ \A c \in ToSet(box.body) : IsChild(c)
                                /\ \E c \in ToSet(box.body) : c.traf # 0
         /\ box.type = "mdat" => \A u \in ToSet(box.body) : IsByte(u)

VARIABLES
  segment,   \* the request
  received,  \* units of the segment that have arrived
  taken,     \* units of the segment taken out of buf
  cur,       \* cur_type, where cur_body starts, cur_body_remaining; or None
  dec,       \* the decrypter
  out,       \* the boxes yielded
  rest,      \* what was passed on after a box that reaches to the end
  cencPc     \* where the stream is

cencVars == <<segment, received, taken, cur, dec, out, rest, cencPc>>

Header(box) ==
  LET n == Len(box.body) IN
  CASE box.form = "normal"   -> <<SizeUnit(n + 2), TypeUnit(box.type)>>
    [] box.form = "extended" -> <<SizeUnit(1), TypeUnit(box.type), SizeUnit(n + 3)>>
    [] box.form = "toEnd"    -> <<SizeUnit(0), TypeUnit(box.type)>>

WireOf(boxes) == FlattenSeq([i \in DOMAIN boxes |-> Header(boxes[i]) \o boxes[i].body])
Wire  == WireOf(segment.boxes)
Avail == received - taken

CencInit ==
  /\ segment \in Segment
  /\ received = 0
  /\ taken = 0
  /\ cur = None
  /\ dec = None
  /\ out = <<>>
  /\ rest = <<>>
  /\ cencPc = "start"

(* Mutant: an init segment that is not emitted is not read either. *)
StartUnprimed ==
  /\ cencPc = "start"
  /\ \E keys \in {KeyMap(segment.ids, segment.keys)} :
     \E init \in {ProcessInit(NewDecrypter(keys), segment.init)} :
         IF keys = <<>>
         THEN cencPc' = "failed" /\ UNCHANGED <<dec, out>>
         ELSE /\ dec' = IF segment.includeInit THEN init.dec ELSE NewDecrypter(keys)
              /\ out' = IF segment.includeInit THEN init.boxes ELSE <<>>
              /\ cencPc' = "parse"
  /\ UNCHANGED <<segment, received, taken, cur, rest>>

(* Without a valid pair of key id and key nothing but an error is yielded;  *)
(* otherwise the init segment primes the decrypter and may be yielded.      *)
StartStream ==
  /\ cencPc = "start"
  /\ \E keys \in {KeyMap(segment.ids, segment.keys)} :
     \E init \in {ProcessInit(NewDecrypter(keys), segment.init)} :
         IF keys = <<>>
         THEN cencPc' = "failed" /\ UNCHANGED <<dec, out>>
         ELSE /\ dec' = init.dec
              /\ out' = IF segment.includeInit THEN init.boxes ELSE <<>>
              /\ cencPc' = "parse"
  /\ UNCHANGED <<segment, received, taken, cur, rest>>

(* Header lengths: 2 units, 3 with a 64-bit size. *)
HeaderLen == IF Wire[taken + 1].n = 1 THEN 3 ELSE 2
HeaderComplete == Avail >= 2 /\ Avail >= HeaderLen

ReadHeader ==
  /\ cencPc = "parse"
  /\ cur = None
  /\ HeaderComplete
  /\ Wire[taken + 1].n # 0
  /\ LET size == IF HeaderLen = 3 THEN Wire[taken + 3].n ELSE Wire[taken + 1].n
     IN  cur' = [type |-> Wire[taken + 2].t, start |-> taken + HeaderLen,
                 remaining |-> IF size < HeaderLen THEN 0 ELSE size - HeaderLen]
  /\ taken' = taken + HeaderLen
  /\ UNCHANGED <<segment, received, dec, out, rest, cencPc>>

(* A size of 0: from here on everything is passed on as it is. *)
PassTail ==
  /\ cencPc = "parse"
  /\ cur = None
  /\ HeaderComplete
  /\ Wire[taken + 1].n = 0
  /\ rest' = SubSeq(Wire, taken + 1, received)
  /\ taken' = received
  /\ cencPc' = "tail"
  /\ UNCHANGED <<segment, received, cur, dec, out>>

NeedHeader ==
  /\ cencPc = "parse"
  /\ cur = None
  /\ ~HeaderComplete
  /\ cencPc' = "read"
  /\ UNCHANGED <<segment, received, taken, cur, dec, out, rest>>

(* Mutant: the end of a body is waited for behind the body. *)
TakeLast ==
  /\ cencPc = "parse"
  /\ cur # None
  /\ Avail <= cur.remaining
  /\ taken' = received
  /\ cur' = [cur EXCEPT !.remaining = @ - Avail]
  /\ cencPc' = "read"
  /\ UNCHANGED <<segment, received, dec, out, rest>>

(* The body is not complete yet. *)
TakePart ==
  /\ cencPc = "parse"
  /\ cur # None
  /\ Avail < cur.remaining
  /\ taken' = received
  /\ cur' = [cur EXCEPT !.remaining = @ - Avail]
  /\ cencPc' = "read"
  /\ UNCHANGED <<segment, received, dec, out, rest>>

ProcessBox(d, box) == IF box.type \in {"moof", "mdat"} THEN ProcessAtom(d, box)
                      ELSE [dec |-> d, box |-> box]

(* The box is complete: sidx is dropped, moof and mdat are processed. *)
EmitBox ==
  /\ cencPc = "parse"
  /\ cur # None
  /\ Avail >= cur.remaining
  /\ taken' = taken + cur.remaining
  /\ \E box \in {[type |-> cur.type, form |-> "normal",
                   body |-> SubSeq(Wire, cur.start + 1, taken + cur.remaining)]} :
       IF box.type = "sidx" THEN UNCHANGED <<dec, out>>
       ELSE \E done \in {ProcessBox(dec, box)} :
              dec' = done.dec /\ out' = Append(out, done.box)
  /\ cur' = None
  /\ UNCHANGED <<segment, received, rest, cencPc>>

(* The next chunk of the upstream's answer. *)
Receive(n) ==
  /\ cencPc \in {"read", "tail"}
  /\ received + n <= Len(Wire)
  /\ received' = received + n
  /\ IF cencPc = "tail"
     THEN /\ rest' = rest \o SubSeq(Wire, received + 1, received + n)
          /\ taken' = received + n
          /\ UNCHANGED cencPc
     ELSE /\ cencPc' = "parse"
          /\ UNCHANGED <<rest, taken>>
  /\ UNCHANGED <<segment, cur, dec, out>>

(* The answer ends, whether or not all of the segment has come. *)
UpstreamEnds ==
  /\ cencPc \in {"read", "tail"}
  /\ cencPc' = "ended"
  /\ UNCHANGED <<segment, received, taken, cur, dec, out, rest>>

UpstreamFails ==
  /\ cencPc \in {"read", "tail"}
  /\ cencPc' = "failed"
  /\ UNCHANGED <<segment, received, taken, cur, dec, out, rest>>

CencNext ==
  \/ StartStream
  \/ ReadHeader
  \/ PassTail
  \/ NeedHeader
  \/ TakePart
  \/ EmitBox
  \/ \E n \in 1 .. Len(Wire) : Receive(n)
  \/ UpstreamEnds
  \/ UpstreamFails

CencSpec == CencInit /\ [][CencNext]_cencVars

-----------------------------------------------------------------------------
(* The boxes that end within the first n units, and how many they are. *)
Within(n) == {i \in DOMAIN segment.boxes :
                /\ segment.boxes[i].form # "toEnd"
                /\ Len(WireOf(SubSeq(segment.boxes, 1, i))) <= n}
Arrived(n) == Cardinality(Within(n))

(* What processing the first k boxes of a segment one after the other yields. *)
Primed(request) ==
  LET After(init) == [dec |-> init.dec, boxes |-> IF request.includeInit THEN init.boxes ELSE <<>>]
  IN  After(ProcessInit(NewDecrypter(KeyMap(request.ids, request.keys)), request.init))

AddBox(r, box) ==
  LET Add(one) == [dec |-> one.dec, boxes |-> Append(r.boxes, one.box)]
  IN  IF box.type = "sidx" THEN r ELSE Add(ProcessBox(r.dec, box))

Boxwise(request, k) ==
  LET After[i \in 0 .. Len(request.boxes)] ==
        IF i = 0 THEN Primed(request) ELSE AddBox(After[i - 1], request.boxes[i])
  IN  After[k]

(* How far the reader is. *)
Behind == IF cur = None THEN taken ELSE cur.start - 1

(* However the segment is cut into chunks, the stream yields what its boxes *)
(* give one by one; when it waits for more input it has yielded every box   *)
(* that has arrived, and the tail of a segment is passed on completely.     *)
(* Breaks when the reader loses or repeats units at a chunk boundary, holds *)
(* a complete box back, or processes a box with the state of another.       *)
BoxwiseOutput ==
  /\ cencPc \in {"parse", "read"} => PackAll(out) = PackAll(Boxwise(segment, Arrived(Behind)).boxes)
  /\ cencPc = "read" => Within(Behind) = Within(received)
  /\ cencPc = "tail" =>
       PackAll(out) \o rest
         = PackAll(Boxwise(segment, Arrived(received)).boxes) \o
           SubSeq(Wire, Len(WireOf(SubSeq(segment.boxes, 1, Arrived(received)))) + 1, received)

(* The media in boxes. *)
MediaOf(boxes) ==
  FlattenSeq([i \in DOMAIN boxes |-> IF boxes[i].type = "mdat" THEN boxes[i].body ELSE <<>>])

(* What is to become of a byte. *)
Cleared(byte) == IF byte.id[1] \in segment.known THEN [byte EXCEPT !.mask = {}] ELSE byte

(* Every media byte yielded is the next byte of the segment, decrypted      *)
(* exactly once if the request has the key of its track and as it was if    *)
(* not, whatever the scheme, the sub-samples, the sizes and the             *)
(* interleaving of tracks.                                                  *)
BytesDecrypted ==
  LET given == MediaOf(segment.boxes)
      got   == MediaOf(out)
  IN  /\ Len(got) <= Len(given)
      /\ \A i \in DOMAIN got : got[i] = Cleared(given[i])

(* The runs of a fragment: the unit each trun's data offset leads to. *)
Truns(moof) == {c \in ToSet(moof.body) : c.kind = "trun" /\ c.traf # 0}
RunStart(c, moof, mdat) == (Pack(moof) \o Pack(mdat))[c.offset + 1]
RunStarts(moof, mdat) ==
  {<<c.traf, c.sizes, RunStart(c, moof, mdat).kind, RunStart(c, moof, mdat).id>> : c \in Truns(moof)}

(* The reader emits boxes with 32-bit sizes, a tfhd in every traf and no    *)
(* sidx: a fragment with other headers, without a tfhd or with a sidx in it *)
(* changes length by more than the stripped boxes.  The data offsets lead   *)
(* into the mdat, and there are no fragments in the init segment.           *)
Regular ==
  /\ \A i \in DOMAIN segment.init : segment.init[i].type \notin {"moof", "mdat"}
  /\ \A i \in DOMAIN segment.boxes :
       LET moof == segment.boxes[i]
           mdat == segment.boxes[i + 1]
           first == Len(moof.body) + 4
       IN  /\ moof.form = "normal"
           /\ moof.type = "moof" =>
                /\ i + 1 \in DOMAIN segment.boxes /\ mdat.type = "mdat"
                /\ \A c \in ToSet(moof.body) :
                     c.traf # 0 => Children(moof.body, {c.traf}, "tfhd") # {}
                /\ \A c \in Truns(moof) : c.offset \in first .. first + Len(mdat.body) - 1

(* The data offsets of the truns yielded lead to the sample they led to in  *)
(* the segment, though the moof has become shorter.                         *)
OffsetsHit ==
  Regular =>
    \A i \in DOMAIN out \ {1} : out[i - 1].type = "moof" /\ out[i].type = "mdat" =>
      \E k \in DOMAIN segment.boxes \ {1} :
        /\ segment.boxes[k - 1].type = "moof" /\ segment.boxes[k].type = "mdat"
        /\ RunStarts(out[i - 1], out[i]) = RunStarts(segment.boxes[k - 1], segment.boxes[k])

Complete == cencPc = "ended" /\ received = Len(Wire)
Fragments == Cardinality({i \in DOMAIN segment.boxes : segment.boxes[i].type = "moof"})
Buffered == DecryptBuffer(segment.ids, segment.keys, WireOf(segment.init \o segment.boxes),
                          segment.includeInit)

(* The handler's two ways to decrypt a segment agree: one fragment streamed *)
(* is the same fragment decrypted as a buffer, but for the sidx.            *)
PathsAgree ==
  Complete /\ Fragments = 1 /\ rest = <<>> =>
    PackAll(out) = PackAll(Filtered(Buffered, {i \in DOMAIN Buffered : Buffered[i].type # "sidx"}))

(* "Decrypt a combined init+segment buffer" (src/drm/cenc.rs:116): what     *)
(* comes out holds the segment's bytes, in order, those of known tracks     *)
(* decrypted.  Fails for two fragments: the first one's boxes stand for     *)
(* both.                                                                    *)
BufferDecrypted ==
  Complete /\ rest = <<>> =>
    LET given == MediaOf(segment.boxes)
    IN  MediaOf(Buffered) = [i \in DOMAIN given |-> Cleared(given[i])]

=============================================================================
