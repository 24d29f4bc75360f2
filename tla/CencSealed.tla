------------------------------- MODULE CencSealed -------------------------------
(***************************************************************************)
(* Segments encrypted as ISO/IEC 23001-7 says, for which CencStream is to   *)
(* give the media in the clear: how every byte is masked, where the moof    *)
(* puts the samples, and what Mp4Decrypter (src/drm/cenc.rs) presumes of    *)
(* them.  Nothing here decrypts anything.                                   *)
(***************************************************************************)
EXTENDS CencStream

-----------------------------------------------------------------------------
(* Samples *)

(* Bytes xored with a keystream of AES-CTR from its byte number n on. *)
Streamed(data, key, iv, n) ==
  \A o \in 0 .. Len(data) - 1 :
    data[o + 1].mask = {<<"ctr", key, iv, (n + o) \div Block, (n + o) % Block>>}

(* Blocks chained by AES-CBC: of each crypt + skip blocks the first crypt,  *)
(* as far as they are whole.                                                *)
InChain(data, crypt, skip, b) == b % (crypt + skip) < crypt /\ (b + 1) * Block <= Len(data)
Before(data, crypt, skip, b)  == {c \in 0 .. b - 1 : InChain(data, crypt, skip, c)}
ChainedTo(data, crypt, skip, iv, b) ==
  IF Before(data, crypt, skip, b) = {} THEN <<"iv", iv>>
  ELSE <<"block", data[Greatest(Before(data, crypt, skip, b)) * Block + 1].id>>
ChainedBy(data, key, iv, crypt, skip) ==
  \A o \in 0 .. Len(data) - 1 :
    data[o + 1].mask =
      IF InChain(data, crypt, skip, o \div Block)
      THEN {<<"cbc", key, ChainedTo(data, crypt, skip, iv, o \div Block), o % Block>>} ELSE {}

(* The sub-samples of a sample of n bytes, where they end, where they would *)
(* with the protected parts alone, and the protected part of the i-th.      *)
SubSamples(n, subs) == IF subs = <<>> THEN <<[clear |-> 0, enc |-> n]>> ELSE subs
SubEnds(subs)       == Ends([i \in DOMAIN subs |-> subs[i].clear + subs[i].enc])
RunEnds(subs)       == Ends([i \in DOMAIN subs |-> subs[i].enc])
ProtectedPart(sample, subs, i) ==
  SubSeq(sample, SubEnds(subs)[i - 1] + subs[i].clear + 1, SubEnds(subs)[i])

(* A sample in sub-samples that cover it.  With cenc the keystream runs on  *)
(* from one protected part to the next, and all but the last are whole      *)
(* blocks; with cbc1 there is one sub-sample; with cbcs every protected     *)
(* part begins with the IV.                                                 *)
Sealed(sample, info, key, scheme, track) ==
  LET subs == SubSamples(Len(sample), info.subs)
      end  == SubEnds(subs)
      civ  == IF track.civ # None THEN track.civ ELSE info.iv
      data(i) == ProtectedPart(sample, subs, i)
  IN  /\ end[Len(subs)] = Len(sample)
      /\ \A i \in DOMAIN subs :
           /\ \A j \in end[i - 1] + 1 .. end[i - 1] + subs[i].clear : sample[j].mask = {}
           /\ scheme = "cbcs" => /\ track.crypt \in Nat /\ track.skip \in Nat
                                 /\ track.crypt # 0 \/ track.skip # 0
                                 /\ ChainedBy(data(i), key, civ, track.crypt, track.skip)
           /\ scheme = "cbc1" => Len(subs) = 1 /\ ChainedBy(data(i), key, info.iv, 1, 0)
           /\ scheme \notin {"cbcs", "cbc1"} =>
                /\ i < Len(subs) => subs[i].enc % Block = 0
                /\ Streamed(data(i), key, info.iv, RunEnds(subs)[i - 1])

-----------------------------------------------------------------------------
(* The body of an mdat *)

(* Where the i-th sample of the k-th track ends, whether a place of a body  *)
(* of n bytes is in it, and whether it is in a sample of a track with a key.*)
FirstOffset(tracks) == Least({tracks[k].offset : k \in DOMAIN tracks})
EndAt(tracks, k, i) == SampleEnds(tracks[k], FirstOffset(tracks))[i]
FitsAt(tracks, n, k, i, p) ==
  EndAt(tracks, k, i - 1) < p /\ p <= EndAt(tracks, k, i) /\ EndAt(tracks, k, i) <= n
Writes(d, n, k, p) ==
  d.tracks[k].key # None /\ \E i \in DOMAIN d.tracks[k].info : FitsAt(d.tracks, n, k, i, p)
SampleAt(tracks, body, k, i) == SubSeq(body, EndAt(tracks, k, i - 1) + 1, EndAt(tracks, k, i))

(* The bytes of known tracks are those in samples of a track with a key,    *)
(* and each such sample is sealed with it.                                  *)
BodySealed(known, d, body) ==
  /\ \A p \in DOMAIN body : body[p].id[1] \in known
                              <=> \E k \in DOMAIN d.tracks : Writes(d, Len(body), k, p)
  /\ \A k \in DOMAIN d.tracks : d.tracks[k].key # None =>
       \A i \in DOMAIN d.tracks[k].info : EndAt(d.tracks, k, i) <= Len(body) =>
         Sealed(SampleAt(d.tracks, body, k, i), d.tracks[k].info[i], d.tracks[k].key,
                d.scheme, d.tracks[k].enc)

-----------------------------------------------------------------------------
(* A fragment as its moof describes it to whoever knows the init segment *)

Trafs(body) == 1 .. Cardinality({c.traf : c \in ToSet(body)} \ {0})

(* The one child of a kind that a traf has. *)
TheChild(body, t, kind)   == body[CHOOSE i \in Children(body, {t}, kind) : TRUE]
HasOne(body, t, kind) == \E i \in DOMAIN body : Children(body, {t}, kind) = {i}

(* Trafs follow each other, each with a tfhd, a trun and perhaps a senc. *)
WellFormed(body) ==
  /\ \A i, j \in DOMAIN body :
       i < j /\ body[i].traf # 0 /\ body[j].traf # 0 => body[i].traf <= body[j].traf
  /\ \A t \in Trafs(body) :
       /\ HasOne(body, t, "tfhd") /\ HasOne(body, t, "trun")
       /\ Children(body, {t}, "senc") = {} \/ HasOne(body, t, "senc")

(* Where the samples of a traf are, and how they are encrypted. *)
Described(d, body, t) ==
  LET tfhd == TheChild(body, t, "tfhd")
      trun == TheChild(body, t, "trun")
  IN  [offset |-> trun.offset, sizes |-> trun.sizes, size |-> tfhd.size,
       info |-> IF Children(body, {t}, "senc") = {} THEN <<>> ELSE TheChild(body, t, "senc").samples,
       key |-> KeyForTrack(d, tfhd.track), enc |-> d.settings[tfhd.track]]
FragmentOf(d, body) == [scheme |-> d.scheme, tracks |-> [t \in Trafs(body) |-> Described(d, body, t)]]

(* What the decrypter presumes of a traf it has the key of: the init        *)
(* segment describes its track, its IVs are as long as the last tenc says,  *)
(* and its samples have sizes.                                              *)
Readable(d, body) ==
  \A t \in Trafs(body) :
    LET tfhd == TheChild(body, t, "tfhd")
        trun == TheChild(body, t, "trun")
        senc == TheChild(body, t, "senc")
        constant == d.scheme = "cbcs" /\ d.civ # None
    IN  KeyForTrack(d, tfhd.track) # None /\ Children(body, {t}, "senc") # {} =>
          /\ tfhd.track \in DOMAIN d.settings
          /\ IF constant THEN senc.ivSize = 0 /\ d.settings[tfhd.track].civ # None
             ELSE senc.ivSize = d.ivSize
          /\ tfhd.size # 0 \/ \A i \in DOMAIN senc.samples : i \in DOMAIN trun.sizes /\ trun.sizes[i] # 0

(* A segment whose every mdat follows a moof that says how it is encrypted, *)
(* and whose init segment has no media.                                     *)
FragmentSealed(request, moof, mdat) ==
  LET d == Primed(request).dec
  IN  /\ WellFormed(moof.body) /\ Readable(d, moof.body)
      /\ BodySealed(request.known, FragmentOf(d, moof.body), mdat.body)
Protected(request) ==
  /\ \A i \in DOMAIN request.init : request.init[i].type # "mdat"
  /\ \A k \in DOMAIN request.boxes : request.boxes[k].type = "mdat" =>
       /\ k # 1 /\ request.boxes[k - 1].type = "moof"
       /\ FragmentSealed(request, request.boxes[k - 1], request.boxes[k])

-----------------------------------------------------------------------------
(* A segment that can be decrypted in either way: there is no fragment in   *)
(* the init segment and no moov in the segment; what the init segment holds *)
(* besides the moov is yielded or not with it; and one mdat at most follows *)
(* the moof.                                                                *)
Joinable(request) ==
  /\ \A i \in DOMAIN request.init :
       LET box == request.init[i] IN
       /\ box.form \in {"normal", "extended"} /\ box.type \notin {"moof", "mdat", "sidx"}
       /\ request.includeInit \/ box.type \in {"ftyp", "moov"}
  /\ \A i \in DOMAIN request.boxes :
       LET box == request.boxes[i] IN
       /\ box.type # "moov" /\ (request.includeInit \/ box.type # "ftyp")
       /\ box.type = "mdat" =>
            \A j \in DOMAIN request.boxes : /\ request.boxes[j].type = "mdat" => j = i
                                            /\ request.boxes[j].type = "moof" => j < i

=============================================================================
