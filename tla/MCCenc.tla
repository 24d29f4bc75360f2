-------------------------------- MODULE MCCenc --------------------------------
(* Small encrypted segments for CencStream, made as ISO/IEC 23001-7 says    *)
(* and independently of the decrypter's definitions.                        *)
EXTENDS CencSealed

Sum(seq) == FoldLeft(LAMBDA a, b : a + b, 0, seq)

(* The keystream of byte p of a sample of n bytes; {} in a clear part. *)
Protection(t, s, p) ==
  LET subs == IF s.subs = <<>> THEN <<[clear |-> 0, enc |-> s.n]>> ELSE s.subs
      Start(i) == Sum([j \in 1 .. i - 1 |-> subs[j].clear + subs[j].enc])
      i == CHOOSE i \in DOMAIN subs : Start(i) < p /\ p <= Start(i) + subs[i].clear + subs[i].enc
      q == p - Start(i) - subs[i].clear - 1
      counter == Sum([j \in 1 .. i - 1 |-> subs[j].enc]) + q
      period == IF t.scheme = "cbcs" THEN t.crypt + t.skip ELSE 1
      crypt  == IF t.scheme = "cbcs" THEN t.crypt ELSE 1
      Covered(b) == b % period < crypt /\ (b + 1) * Block <= subs[i].enc
      b == q \div Block
      before == {c \in 0 .. b - 1 : Covered(c)}
      last == CHOOSE c \in before : \A e \in before : e <= c
      iv == IF t.civ # None THEN t.civ ELSE s.iv
      chain == IF before = {} THEN <<"iv", iv>>
               ELSE <<"block", <<t.track, s.base + Start(i) + subs[i].clear + last * Block + 1>>>>
  IN  IF q < 0 THEN {}
      ELSE IF t.scheme = "cenc" THEN {<<"ctr", t.key, s.iv, counter \div Block, counter % Block>>}
      ELSE IF Covered(b) THEN {<<"cbc", t.key, chain, q % Block>>} ELSE {}

SampleBytes(t, s) ==
  [p \in 1 .. s.n |-> [kind |-> "byte", id |-> <<t.track, s.base + p>>, mask |-> Protection(t, s, p)]]

TrackBytes(t) == FlattenSeq([i \in DOMAIN t.samples |-> SampleBytes(t, t.samples[i])])

Other(kind, k) == [kind |-> kind, traf |-> k]

(* A moof with a traf for each track and its mdat. *)
Fragment(ts, form, tfhds) ==
  LET TrafOf(k, offset) ==
        LET t == ts[k] IN
        (IF tfhds THEN <<[kind |-> "tfhd", traf |-> k, track |-> t.track, size |-> t.size]>> ELSE <<>>)
        \o <<Other("tfdt", k)>>
        \o (IF \E i \in DOMAIN t.samples : t.samples[i].subs # <<>>
            THEN <<Other("saiz", k), Other("saio", k)>> ELSE <<>>)
        \o <<[kind |-> "trun", traf |-> k, offset |-> offset,
              sizes |-> IF t.size # 0 THEN <<>> ELSE [i \in DOMAIN t.samples |-> t.samples[i].n]],
             [kind |-> "senc", traf |-> k, ivSize |-> t.ivSize,
              samples |-> [i \in DOMAIN t.samples |->
                             [iv |-> t.samples[i].iv, subs |-> t.samples[i].subs]]]>>
      Moof(offsets) == <<Other("mfhd", 0)>> \o FlattenSeq([k \in DOMAIN ts |-> TrafOf(k, offsets[k])])
      start == Len(Moof([k \in DOMAIN ts |-> 0])) + 2 + (IF form = "extended" THEN 3 ELSE 2)
      offset == [k \in DOMAIN ts |-> start + Sum([j \in 1 .. k - 1 |-> Len(TrackBytes(ts[j]))])]
  IN  <<[type |-> "moof", form |-> "normal", body |-> Moof(offset)],
        [type |-> "mdat", form |-> form,
         body |-> FlattenSeq([k \in DOMAIN ts |-> TrackBytes(ts[k])])]>>

Init(ts) ==
  <<[type |-> "ftyp", form |-> "normal", body |-> <<Other("brand", 0)>>],
    [type |-> "moov", form |-> "normal",
     body |-> <<Other("mvhd", 0)>> \o
              [k \in DOMAIN ts |->
                 [kind |-> "trak", id |-> ts[k].track, scheme |-> ts[k].scheme,
                  tenc |-> [version |-> 1, crypt |-> ts[k].crypt, skip |-> ts[k].skip,
                            kid |-> ts[k].kid, ivSize |-> ts[k].ivSize, civ |-> ts[k].civ]]]
              \o <<Other("pssh", 0)>>]>>

Track(id, scheme, key, kid, samples) ==
  [track |-> id, scheme |-> scheme, key |-> key, kid |-> kid, ivSize |-> 8, civ |-> None,
   crypt |-> 1, skip |-> 1, size |-> 0, samples |-> samples]
Sample(base, n, iv, subs) == [base |-> base, n |-> n, iv |-> iv, subs |-> subs]
Sub(clear, enc) == [clear |-> clear, enc |-> enc]

Kid(name) == <<name, "uuid">>
Guid(name) == <<name, "guid">>

video == Track(1, "cenc", "K1", Kid("a"),
               <<Sample(0, 3, "v1", <<>>), Sample(3, 6, "v2", <<Sub(1, 2), Sub(0, 3)>>)>>)
audio == [Track(2, "cenc", "K2", Guid("b"),
                <<Sample(0, 2, "w1", <<>>), Sample(2, 2, "w2", <<Sub(1, 1)>>)>>)
          EXCEPT !.size = 2]
hls   == [Track(1, "cbcs", "K1", Kid("a"),
                <<Sample(0, 9, "v1", <<Sub(1, 8)>>), Sample(9, 3, "v2", <<>>)>>)
          EXCEPT !.ivSize = 0, !.civ = "c1"]
full  == [hls EXCEPT !.skip = 0, !.samples = <<Sample(0, 5, "v1", <<>>)>>]
older == Track(1, "cbc1", "K1", Kid("zero"),
               <<Sample(0, 5, "v1", <<>>), Sample(5, 3, "v2", <<Sub(1, 2)>>)>>)
short == Track(1, "cenc", "K1", Kid("a"), <<Sample(0, 2, "v1", <<>>)>>)
next  == Track(1, "cenc", "K1", Kid("a"), <<Sample(2, 2, "v2", <<Sub(1, 1)>>)>>)

Styp == <<[type |-> "styp", form |-> "normal", body |-> <<>>]>>
Sidx == <<[type |-> "sidx", form |-> "extended", body |-> <<[kind |-> "ref", size |-> 9]>>]>>

Request(tracks, boxes, ids, keys, known, init) ==
  [init |-> Init(tracks), boxes |-> boxes, ids |-> ids, keys |-> keys,
   known |-> known, includeInit |-> init]

Single == {
  \* two tracks, two keys, one of them with the KID in PlayReady order
  Request(<<video, audio>>, Fragment(<<video, audio>>, "normal", TRUE),
          <<Kid("a"), Kid("b")>>, <<"K1", "K2">>, {1, 2}, FALSE),
  \* the key of one track only, among two
  Request(<<video, audio>>, Fragment(<<video, audio>>, "normal", TRUE),
          <<Kid("a"), Kid("c")>>, <<"K1", "K3">>, {1}, FALSE),
  \* a constant IV and a pattern; sidx; 64-bit sizes
  Request(<<hls>>, Styp \o Sidx \o Fragment(<<hls>>, "extended", TRUE),
          <<Kid("a")>>, <<"K1">>, {1}, TRUE),
  Request(<<full>>, Fragment(<<full>>, "normal", TRUE), <<Kid("a")>>, <<"K1">>, {1}, FALSE),
  \* one key for an unnamed KID; no tfhd
  Request(<<older>>, Fragment(<<older>>, "normal", FALSE),
          <<Kid("d"), None>>, <<"K1", "K2">>, {1}, TRUE),
  \* no valid key
  Request(<<short>>, Fragment(<<short>>, "normal", TRUE), <<None>>, <<"K1">>, {}, TRUE)}

Double == {
  Request(<<short>>, Fragment(<<short>>, "normal", TRUE) \o Fragment(<<next>>, "normal", TRUE),
          <<Kid("a")>>, <<"K1">>, {1}, FALSE),
  Request(<<short>>, Fragment(<<short>>, "normal", TRUE) \o Fragment(<<next>>, "toEnd", TRUE),
          <<Kid("a")>>, <<"K1">>, {1}, FALSE)}

MCSegment == Single \cup Double

\* What the proofs presume of a segment holds of these, and of the one
\* without a tfhd once it has one.
Repaired == Request(<<older>>, Fragment(<<older>>, "normal", TRUE),
                    <<Kid("d"), None>>, <<"K1", "K2">>, {1}, TRUE)
ASSUME MCProtected ==
  \A request \in MCSegment \cup {Repaired} :
    (\A box \in ToSet(request.boxes) :
       box.type = "moof" => \E c \in ToSet(box.body) : c.kind = "tfhd") => Protected(request)
ASSUME MCJoinable == \A request \in Single : Joinable(request)
=============================================================================
