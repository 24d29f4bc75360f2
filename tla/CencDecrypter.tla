----------------------------- MODULE CencDecrypter -----------------------------
(***************************************************************************)
(* Mp4Decrypter (src/drm/cenc.rs) and the boxes it reads and writes         *)
(* (src/drm/mp4_atom.rs).                                                   *)
(*                                                                         *)
(* A box is [type, body], its body a sequence of units; lengths and offsets *)
(* count units.  A unit stands for a byte of an mdat, a child of a moov, or *)
(* a child of a moof.  The children of a traf are listed in the moof one by *)
(* one with the number of their traf (0: not in a traf; trafs are numbered  *)
(* from 1 on, as they follow each other), so that stripping a child         *)
(* shortens the moof by what it adds to the encryption overhead:            *)
(*   "trak"  its id, the scheme of its schm and its tenc, or None           *)
(*   "tfhd"  its track and default sample size (0 if absent)                *)
(*   "trun"  its data offset and sample sizes (0 if absent)                 *)
(*   "senc"  the length of its IVs (0 if constant) and its samples          *)
(* The state of the decrypter is a record; an operation takes it and the    *)
(* box and returns both.                                                    *)
(***************************************************************************)
EXTENDS CencSamples, TLC

(* build_key_map_from_hex: the two lists are zipped and pairs with bad hex  *)
(* (None here) are dropped; of two equal ids the later one counts.           *)
KeyMap(ids, keys) ==
  LET n == IF Len(ids) < Len(keys) THEN Len(ids) ELSE Len(keys)
      Good(i) == i <= n /\ ids[i] # None /\ keys[i] # None
      Insert(m, i) == IF Good(i) THEN (ids[i] :> keys[i]) @@ m ELSE m
  IN  FoldLeftDomain(Insert, <<>>, ids)

NewDecrypter(keys) ==
  [keys |-> keys, scheme |-> "cenc", ivSize |-> 8, crypt |-> 1, skip |-> 9, civ |-> None,
   defaultSize |-> 0, sizes |-> <<>>, overhead |-> 0, tracks |-> <<>>,
   settings |-> <<>>, kids |-> <<>>, track |-> 0]

-----------------------------------------------------------------------------
(* The moov box *)

(* parse_tenc: the track's settings, and the globals of the last tenc. *)
ParseTenc(d, t) ==
  LET crypt == IF t.version > 0 THEN t.crypt ELSE 1
      skip  == IF t.version > 0 THEN t.skip ELSE 9
      size  == IF t.ivSize = 0 THEN 16 ELSE t.ivSize
      civ   == IF t.ivSize = 0 THEN t.civ ELSE None
  IN  [d EXCEPT
         !.crypt  = IF t.version > 0 THEN crypt ELSE @,
         !.skip   = IF t.version > 0 THEN skip ELSE @,
         !.ivSize = size,
         !.civ    = IF civ # None THEN civ ELSE @,
         !.kids   = IF d.track > 0 THEN (d.track :> t.kid) @@ @ ELSE @,
         !.settings = IF d.track > 0
                      THEN (d.track :> [crypt |-> crypt, skip |-> skip, civ |-> civ]) @@ @
                      ELSE @]

(* process_trak down to extract_codec_format: what a trak leaves behind.    *)
ReadTrak(d, trak) ==
  LET atTrack  == [d EXCEPT !.track = trak.id]
      schemed  == IF trak.scheme = None THEN atTrack ELSE [atTrack EXCEPT !.scheme = trak.scheme]
  IN  IF trak.tenc = None THEN schemed ELSE ParseTenc(schemed, trak.tenc)

(* What reading the first n traks leaves behind. *)
ReadTraks(d, children, n) ==
  LET after[i \in 0 .. Len(children)] ==
        IF i = 0 THEN d
        ELSE IF children[i].kind = "trak" THEN ReadTrak(after[i - 1], children[i])
        ELSE after[i - 1]
  IN  after[n]

(* process_moov: pssh boxes and the protection in sample entries go. *)
ProcessMoov(d, moov) ==
  LET kept         == Filtered(moov.body, {i \in DOMAIN moov.body : moov.body[i].kind # "pssh"})
      Clean(child) == IF child.kind = "trak"
                      THEN [child EXCEPT !.scheme = None, !.tenc = None] ELSE child
  IN  [dec |-> ReadTraks(d, moov.body, Len(moov.body)),
       box |-> [moov EXCEPT !.body = [i \in DOMAIN kept |-> Clean(kept[i])]]]

(* get_key_for_track: the KID as it is, its PlayReady byte order, or the    *)
(* only key.  A KID is <<name, order>>.                                     *)
KeyForTrack(d, track) ==
  LET kid     == d.kids[track]
      swapped == <<kid[1], IF kid[2] = "uuid" THEN "guid" ELSE "uuid">>
      known   == track \in DOMAIN d.kids /\ kid[1] # "zero"
  IN  IF known /\ kid \in DOMAIN d.keys THEN d.keys[kid]
      ELSE IF known /\ swapped \in DOMAIN d.keys THEN d.keys[swapped]
      ELSE IF Cardinality(DOMAIN d.keys) = 1 THEN d.keys[CHOOSE k \in DOMAIN d.keys : TRUE]
      ELSE None

-----------------------------------------------------------------------------
(* The moof box *)

Stripped == {"senc", "saiz", "saio"}

(* parse_senc, by the decrypter's IV size and constant IV.  If they are not *)
(* those the box was written with, it reads IVs from the wrong places.      *)
ParseSenc(d, senc) ==
  LET constant == d.scheme = "cbcs" /\ d.civ # None
      Info(s)  == IF constant /\ senc.ivSize = 0 THEN [iv |-> d.civ, subs |-> s.subs]
                  ELSE IF ~constant /\ senc.ivSize = d.ivSize THEN s
                  ELSE [iv |-> "misread", subs |-> <<>>]
  IN  [i \in DOMAIN senc.samples |-> Info(senc.samples[i])]

(* The places of the children of a kind in some trafs of a moof. *)
Children(body, trafs, kind) ==
  {i \in DOMAIN body : body[i].traf \in trafs /\ body[i].kind = kind}

(* parse_tfhd: the default size is that of the last tfhd to give one, which *)
(* may be one of an earlier fragment.                                       *)
DefaultSize(d, body, tfhds) ==
  LET giving == {i \in tfhds : body[i].size # 0}
  IN  IF giving = {} THEN d.defaultSize ELSE body[Greatest(giving)].size

(* process_trun: the sizes of the last trun, which may be one of an earlier *)
(* traf or fragment.                                                        *)
SampleSizes(d, body, truns) == IF truns = {} THEN d.sizes ELSE body[Greatest(truns)].sizes

(* Mutant: the stripped boxes are forgotten. *)
KeepTrun(d, trun) == trun

(* modify_trun *)
ModifyTrun(d, trun) == [trun EXCEPT !.offset = IF @ = 0 THEN 0 ELSE @ - d.overhead]

(* What process_traf pushes for a traf: of several children of a kind the   *)
(* last one counts.                                                         *)
TrackInfo(d, body, t) ==
  LET Own(kind)   == Children(body, {t}, kind)
      SoFar(kind) == Children(body, 1 .. t, kind)
      Final(kind) == body[Greatest(Own(kind))]
      track    == IF Own("tfhd") = {} THEN 0 ELSE Final("tfhd").track
      settings == IF track \in DOMAIN d.settings THEN d.settings[track]
                  ELSE [crypt |-> d.crypt, skip |-> d.skip, civ |-> d.civ]
  IN  [offset |-> IF Own("trun") = {} THEN 0 ELSE Final("trun").offset,
       sizes  |-> SampleSizes(d, body, SoFar("trun")),
       info   |-> IF Own("senc") = {} THEN <<>> ELSE ParseSenc(d, Final("senc")),
       size   |-> IF Own("tfhd") = {} THEN 0 ELSE DefaultSize(d, body, SoFar("tfhd")),
       key    |-> KeyForTrack(d, track),
       enc    |-> settings]

(* What process_traf writes for a child, behind the tfhd it makes up for a  *)
(* traf that has none.                                                      *)
Rewritten(d, body, i) ==
  LET c     == body[i]
      first == c.traf # 0 /\ \A j \in 1 .. i - 1 : body[j].traf # c.traf
  IN  (IF first /\ d.track > 0 /\ Children(body, {c.traf}, "tfhd") = {}
       THEN <<[kind |-> "tfhd", traf |-> c.traf, track |-> d.track, size |-> 0]>> ELSE <<>>)
      \o (IF c.traf # 0 /\ c.kind \in Stripped THEN <<>>
          ELSE IF c.traf # 0 /\ c.kind = "trun" THEN <<ModifyTrun(d, c)>>
          ELSE <<c>>)

(* The children of trafs that will be stripped. *)
Overhead(body) == Cardinality({i \in DOMAIN body : body[i].traf # 0 /\ body[i].kind \in Stripped})

(* Mutant: the tracks of the fragment before are kept. *)
BeginMoofOnTop(d, body) == [d EXCEPT !.overhead = Overhead(body)]

(* process_moof, the first pass *)
BeginMoof(d, body) == [d EXCEPT !.tracks = <<>>, !.overhead = Overhead(body)]

ProcessMoof(d, moof) ==
  LET body  == moof.body
      begun == BeginMoof(d, body)
      trafs == 1 .. Cardinality({c.traf : c \in ToSet(body)} \ {0})
  IN  [dec |-> [begun EXCEPT
                  !.tracks = @ \o [t \in trafs |-> TrackInfo(d, body, t)],
                  !.sizes = SampleSizes(d, body, Children(body, trafs, "trun")),
                  !.defaultSize = DefaultSize(d, body, Children(body, trafs, "tfhd"))],
       box |-> [moof EXCEPT !.body = FlattenSeq([i \in DOMAIN body |-> Rewritten(begun, body, i)])]]

(* process_sidx: its one unit holds the referenced size. *)
ProcessSidx(d, sidx) ==
  LET Smaller(n) == IF n < d.overhead THEN 0 ELSE n - d.overhead
  IN  [sidx EXCEPT !.body = [i \in DOMAIN @ |-> [@[i] EXCEPT !.size = Smaller(@)]]]

-----------------------------------------------------------------------------
(* The mdat box *)

(* Where the samples of a track begin and end: one behind the other, the    *)
(* first where the track does; one of unknown size is skipped.              *)
SampleEnds(track, first) ==
  LET Size(i) == IF i \in DOMAIN track.sizes /\ track.sizes[i] # 0
                 THEN track.sizes[i] ELSE track.size
      end == Ends([i \in DOMAIN track.info |-> Size(i)])
  IN  [i \in 0 .. Len(track.info) |-> track.offset - first + end[i]]

(* decrypt_mdat and decrypt_mdat_multi_track: a sample that would not fit   *)
(* ends the walk over its track; tracks are walked in the order of their    *)
(* offsets, so that of two samples on one place the last is what is left.   *)
(* (What is done after a moof without a traf is left out: none is modelled.) *)
DecryptBody(d, body) ==
  LET tracks == d.tracks
      first  == Least({tracks[k].offset : k \in DOMAIN tracks})
      ends   == [k \in DOMAIN tracks |-> SampleEnds(tracks[k], first)]
      Fits(k, i, p) == ends[k][i - 1] < p /\ p <= ends[k][i] /\ ends[k][i] <= Len(body)
      Over(p) == {k \in DOMAIN tracks : /\ tracks[k].key # None
                                        /\ \E i \in DOMAIN tracks[k].info : Fits(k, i, p)}
      Final(K) == CHOOSE k \in K : \A j \in K \ {k} : \/ tracks[j].offset < tracks[k].offset
                                                      \/ tracks[j].offset = tracks[k].offset /\ j < k
      Plain(k, i) == DecryptSample(SubSeq(body, ends[k][i - 1] + 1, ends[k][i]), tracks[k].info[i],
                                   tracks[k].key, d.scheme, tracks[k].enc)
      Byte(k, p) == LET i == CHOOSE i \in DOMAIN tracks[k].info : Fits(k, i, p)
                    IN  Plain(k, i)[p - ends[k][i - 1]]
  IN  [p \in DOMAIN body |-> IF Over(p) = {} THEN body[p] ELSE Byte(Final(Over(p)), p)]

DecryptMdat(d, mdat) == [mdat EXCEPT !.body = DecryptBody(d, @)]

(* process_atom *)
ProcessAtom(d, box) ==
  CASE box.type = "moov" -> ProcessMoov(d, box)
    [] box.type = "moof" -> ProcessMoof(d, box)
    [] box.type = "sidx" -> [dec |-> d, box |-> ProcessSidx(d, box)]
    [] box.type = "mdat" -> [dec |-> d, box |-> DecryptMdat(d, box)]
    [] OTHER -> [dec |-> d, box |-> box]

-----------------------------------------------------------------------------
(* Whole buffers.  Boxes on the wire: the size, 1 for a 64-bit size that    *)
(* follows the type, 0 for a box that reaches to the end; and the type.     *)

SizeUnit(n)  == [kind |-> "size", n |-> n]
TypeUnit(t)  == [kind |-> "type", t |-> t]

(* Mp4Atom::pack *)
Pack(box) == <<SizeUnit(Len(box.body) + 2), TypeUnit(box.type)>> \o box.body

PackAll(boxes) == FlattenSeq([i \in DOMAIN boxes |-> Pack(boxes[i])])

(* Mp4Parser::read_atom_at: the lengths of the header and of the box at a   *)
(* position, whether all of it is there, and the box.                       *)
HeadAt(units, pos) == IF units[pos + 1].n = 1 THEN 3 ELSE 2
SizeAt(units, pos) ==
  LET raw == units[pos + 1].n
  IN  IF raw = 1 THEN units[pos + 3].n ELSE IF raw = 0 THEN Len(units) - pos ELSE raw
HasAtom(units, pos) ==
  /\ pos + 2 <= Len(units) /\ pos + HeadAt(units, pos) <= Len(units)
  /\ HeadAt(units, pos) <= SizeAt(units, pos) /\ pos + SizeAt(units, pos) <= Len(units)
AtomAt(units, pos) ==
  [type |-> units[pos + 2].t, form |-> "normal",
   body |-> SubSeq(units, pos + HeadAt(units, pos) + 1, pos + SizeAt(units, pos))]

(* Mp4Parser::list_atoms: box after box, up to where there is none. *)
ListAtoms(units) ==
  LET pos[k \in 0 .. Len(units)] ==
        IF k = 0 THEN 0 ELSE pos[k - 1] + SizeAt(units, pos[k - 1])
      read == {k \in DOMAIN pos : \A j \in 0 .. k : HasAtom(units, pos[j])}
  IN  [k \in 1 .. Cardinality(read) |-> AtomAt(units, pos[k - 1])]

(* Mp4Decrypter::decrypt_segment: the first box of each type is processed,  *)
(* in this order, and the result stands for every box of the type.          *)
DecryptSegment(d, boxes, includeInit) ==
  LET First(type)  == SelectInSeq(boxes, LAMBDA b : b.type = type)
      One(e, type) == ProcessAtom(e, boxes[First(type)])
      Past(e, type) == IF First(type) = 0 THEN e ELSE One(e, type).dec
      primed == Past(d, "moov")
      begun  == Past(primed, "moof")
      Result(type) == CASE type = "moov" -> One(d, type).box
                        [] type = "moof" -> One(primed, type).box
                        [] type \in {"sidx", "mdat"} -> One(begun, type).box
      wanted == Filtered(boxes, {i \in DOMAIN boxes :
                                   includeInit \/ boxes[i].type \notin {"ftyp", "moov"}})
  IN  [i \in DOMAIN wanted |-> IF wanted[i].type \in {"moov", "moof", "sidx", "mdat"}
                               THEN Result(wanted[i].type) ELSE wanted[i]]

(* The entry point decrypt_segment: the init segment and the segment as one *)
(* buffer; None is an error.                                                *)
DecryptBuffer(ids, keys, units, includeInit) ==
  LET map == KeyMap(ids, keys)
  IN  IF map = <<>> THEN None
      ELSE DecryptSegment(NewDecrypter(map), ListAtoms(units), includeInit)

(* process_init_only, and init_from_segment, which keeps the state alone.   *)
ProcessInit(d, boxes) ==
  LET i == SelectInSeq(boxes, LAMBDA b : b.type = "moov")
      With(one) ==
        [dec |-> one.dec,
         boxes |-> [j \in DOMAIN boxes |-> IF boxes[j].type = "moov" THEN one.box ELSE boxes[j]]]
  IN  IF i = 0 THEN [dec |-> d, boxes |-> boxes] ELSE With(ProcessMoov(d, boxes[i]))

=============================================================================
