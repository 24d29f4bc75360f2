------------------------------ MODULE DashPlaylist ------------------------------
(***************************************************************************)
(* From a DASH manifest to an HLS playlist (src/mpd/processor.rs and        *)
(* src/mpd/timeline.rs).  A time is a whole number of seconds and a         *)
(* timescale is 1.                                                          *)
(*                                                                         *)
(* An MPD is [live, avail, depth, total, periods], with availabilityStart-  *)
(* Time, timeShiftBufferDepth and mediaPresentationDuration; a period is    *)
(* [start, reps]; a representation (with what it takes from its adaptation  *)
(* set) is                                                                 *)
(*   adapt, rep, bandwidth, kind, lang, height                              *)
(*   form       "timeline", "duration", "list", "base" or "none"            *)
(*   naming     "number" or "time": the variable in the media template      *)
(*   number     startNumber or None       pto   presentationTimeOffset      *)
(*   S          the S elements [t, d, r], t None if absent                  *)
(*   d          the template's or the list's duration                       *)
(*   urls       a list's segments [media, range]                            *)
(*   init, initRange, base, index   the template's or the list's            *)
(*              initialization, its range, the BaseURL and the index range  *)
(* Names stand for URLs; a segment made from a template is named by its     *)
(* representation and its number or time.                                   *)
(***************************************************************************)
EXTENDS Absent, Places

CONSTANTS
  Floor, FloorTs,     \* the least number of segments in a live playlist
  Safety, SafetyTs,   \* segments added to those behind the start offset
  DefaultOffset,      \* seconds behind the live edge, 30
  MaxVideo, MaxAudio  \* MAX_VIDEO_VARIANTS, MAX_AUDIO_TRACKS

Monus(a, b)   == IF a < b THEN 0 ELSE a - b
CeilDiv(a, b) == (a + b - 1) \div b
AtLeast(a, b) == IF a < b THEN b ELSE a
Upto(seq, n)  == SubSeq(seq, 1, IF n < Len(seq) THEN n ELSE Len(seq))

(* The elements with a positive duration. *)
Timed(segments) ==
  Filtered(segments, {i \in DOMAIN segments : segments[i].extinf \in Nat \ {0}})

(* The first of those elements that agree on a field. *)
DedupBy(seq, field) ==
  Filtered(seq, {i \in DOMAIN seq : \A j \in 1 .. i - 1 : seq[j][field] # seq[i][field]})

(* A stable sort, the greatest first. *)
SortDown(seq, field) ==
  LET Before(i, j) == \/ seq[i][field] > seq[j][field]
                      \/ seq[i][field] = seq[j][field] /\ i < j
  IN  Arranged(seq, DOMAIN seq, {e \in (DOMAIN seq) \X (DOMAIN seq) : Before(e[1], e[2])})

(* Of the durations in ascending order, the one in the middle. *)
Median(timed) == SortDown(timed, "extinf")[Len(timed) - Len(timed) \div 2].extinf

-----------------------------------------------------------------------------
(* Timelines: entries [number, time, duration, start]. *)

(* preprocess_timeline: a repeat count that is no natural number counts 0. *)
PreprocessTimeline(S, startNumber, periodStart, pto) ==
  LET copies == [n \in DOMAIN S |-> 1 + AtLeast(S[n].r, 0)]
      from[n \in DOMAIN S] == IF S[n].t # None THEN S[n].t
                              ELSE IF n = 1 THEN 0 ELSE from[n-1] + copies[n-1] * S[n-1].d
      number[n \in DOMAIN S] == IF n = 1 THEN startNumber ELSE number[n-1] + copies[n-1]
      Entry(n, time, k) == [number |-> number[n] + k - 1, time |-> time, duration |-> S[n].d,
                            start |-> periodStart + Monus(time, pto)]
      Expand(n) == [k \in 1 .. copies[n] |-> Entry(n, from[n] + (k - 1) * S[n].d, k)]
  IN  FlattenSeq([n \in DOMAIN S |-> Expand(n)])

(* Mutant: the window is not moved back by its length. *)
LiveEntriesAhead(avail, depth, d, startNumber, pto, now) ==
  [k \in 1 .. CeilDiv(depth, d) |->
     LET index == AtLeast(now - avail, 0) \div d + k - 1
     IN  [number |-> startNumber + index, time |-> pto + index * d, duration |-> d,
          start |-> avail + index * d]]

(* generate_live_segments: the depth of the window up to the segment that   *)
(* plays now; the cast of a negative elapsed time gives 0.                  *)
LiveEntries(avail, depth, d, startNumber, pto, now) ==
  LET count    == CeilDiv(depth, d)
      elapsed  == AtLeast(now - avail, 0) \div d
      earliest == AtLeast(Monus(startNumber + elapsed, count), startNumber)
  IN  [k \in 1 .. count |->
         LET index == earliest + k - 1 - startNumber
         IN  [number |-> startNumber + index, time |-> pto + index * d, duration |-> d,
              start |-> avail + index * d]]

(* generate_vod_segments *)
VodEntries(total, d, startNumber) ==
  [k \in 1 .. CeilDiv(total, d) |->
     [number |-> startNumber + k - 1, time |-> 0, duration |-> d, start |-> None]]

-----------------------------------------------------------------------------
(* Segments: [media, number, extinf, time, start, range, initRange, index], *)
(* a time of 0 is none, and so is the end of an open range <<first, 0>>.    *)

(* expand_template: without a time the variable stays in the name. *)
MediaName(rep, e) ==
  IF rep.naming = "number" THEN [rep |-> rep.rep, by |-> "number", at |-> e.number]
  ELSE [rep |-> rep.rep, by |-> IF e.time > 0 THEN "time" ELSE "$Time$", at |-> e.time]

(* timeline_entry_to_segment *)
EntryToSegment(rep, e) ==
  [media |-> MediaName(rep, e), number |-> e.number, extinf |-> e.duration, time |-> e.time,
   start |-> e.start, range |-> None, initRange |-> None, index |-> None]

FromTemplate(mpd, period, rep, now) ==
  LET avail   == mpd.avail + period.start
      number  == IF rep.number = None THEN 1 ELSE rep.number
      entries == IF rep.form = "timeline" THEN PreprocessTimeline(rep.S, number, avail, rep.pto)
                 ELSE IF rep.d = 0 THEN <<>>
                 ELSE IF mpd.live THEN LiveEntries(avail, mpd.depth, rep.d, number, rep.pto, now)
                 ELSE VodEntries(mpd.total, rep.d, number)
      Each(es) == [i \in DOMAIN es |-> EntryToSegment(rep, es[i])]
  IN  Each(entries)

Plain(media, number, extinf) ==
  [media |-> media, number |-> number, extinf |-> extinf, time |-> 0,
   start |-> None, range |-> None, initRange |-> None, index |-> None]

(* generate_from_list: an entry without a name is a range of the BaseURL. *)
FromList(rep) ==
  LET named == Filtered(rep.urls, {i \in DOMAIN rep.urls :
                                     rep.urls[i].media # None \/ rep.base # None})
      Name(u) == IF u.media # None THEN u.media ELSE rep.base
  IN  [i \in DOMAIN named |->
         [Plain(Name(named[i]), i, AtLeast(rep.d, 1)) EXCEPT !.range = named[i].range]]

(* generate_from_base: everything after the init segment. *)
FromBase(mpd, rep) ==
  <<[Plain(rep.base, 1, AtLeast(mpd.total, 1)) EXCEPT
       !.range = IF rep.initRange = None THEN None ELSE <<rep.initRange[2] + 1, 0>>,
       !.initRange = rep.initRange, !.index = rep.index]>>

GenerateSegments(mpd, period, rep, now) ==
  CASE rep.form \in {"timeline", "duration"} -> FromTemplate(mpd, period, rep, now)
    [] rep.form = "list" -> FromList(rep)
    [] rep.form = "base" -> FromBase(mpd, rep)
    [] rep.form = "none" -> <<>>

(* compute_init_url: [url, range]. *)
InitOf(rep) ==
  CASE rep.form \in {"timeline", "duration"} /\ rep.init # None -> <<rep.init, None>>
    [] rep.form = "list" /\ rep.init # None -> <<rep.init, None>>
    [] rep.form = "list" /\ rep.init = None /\ rep.initRange # None -> <<rep.base, rep.initRange>>
    [] rep.form = "base" -> <<rep.base, rep.initRange>>
    [] OTHER -> <<rep.base, None>>

(* parse_sidx_fragments: sidx is the sizes of the boxes before it, its own  *)
(* size and first offset, the references and how many of them were fetched. *)
SidxFragments(sidx, from) ==
  LET refs  == Upto(sidx.refs, sidx.have)
      start == from + Ends(sidx.before)[Len(sidx.before)] + sidx.size + sidx.offset
      end   == Ends([i \in DOMAIN refs |-> refs[i].size])
      Fragment(i) == <<start + end[i - 1], start + end[i] - 1, refs[i].d>>
  IN  Filtered([i \in DOMAIN refs |-> Fragment(i)], {i \in DOMAIN refs : refs[i].media})

(* expand_segment_base_segments: one segment for each fragment; the single  *)
(* segment stays when there is no index or nothing came of it (None).       *)
ExpandBase(profile, sidx) ==
  LET s == profile.segments[1]
      Into(fragments) ==
        IF fragments = <<>> THEN profile
        ELSE [profile EXCEPT !.segments =
                [i \in DOMAIN fragments |->
                   [Plain(s.media, i, fragments[i][3]) EXCEPT
                      !.range = <<fragments[i][1], fragments[i][2]>>, !.initRange = s.initRange]]]
  IN  IF Len(profile.segments) # 1 \/ s.index = None \/ sidx = None THEN profile
      ELSE Into(SidxFragments(sidx, s.index[1]))

(* resolve_nominal_duration: the median, 0 for none. *)
NominalDuration(segments) == IF Timed(segments) = <<>> THEN 0 ELSE Median(Timed(segments))

(* parse_representation: the segments are parsed for one profile or all. *)
Profile(mpd, period, rep, wanted, now) ==
  LET id == <<rep.adapt, rep.rep, rep.bandwidth>>
      segments == IF wanted \in {None, id} THEN GenerateSegments(mpd, period, rep, now) ELSE <<>>
  IN  [id |-> id, rep |-> rep.rep, kind |-> rep.kind, bandwidth |-> rep.bandwidth,
       lang |-> rep.lang, height |-> rep.height, explicit |-> rep.number # None,
       init |-> InitOf(rep)[1], initRange |-> InitOf(rep)[2], segments |-> segments]

(* parse_mpd_document: audio and video of all periods. *)
ParseMpd(mpd, wanted, now) ==
  FlattenSeq([p \in DOMAIN mpd.periods |->
    LET period == mpd.periods[p]
        played == Filtered(period.reps, {i \in DOMAIN period.reps :
                                           period.reps[i].kind \in {"video", "audio"}})
    IN  [i \in DOMAIN played |-> Profile(mpd, period, played[i], wanted, now)]])

-----------------------------------------------------------------------------
(* The master playlist.  params is [ts, height, offset]: remux_to_ts, the   *)
(* resolution and the start_offset of the query, the last two or None.      *)

(* filter_by_resolution: the highest that is not higher, else the lowest.   *)
ByHeight(videos, height) ==
  LET sized == SortDown(Filtered(videos, {i \in DOMAIN videos : videos[i].height > 0}), "height")
      fits  == Filtered(sized, {i \in DOMAIN sized : sized[i].height <= height})
  IN  IF sized = <<>> THEN videos
      ELSE <<IF fits # <<>> THEN fits[1] ELSE sized[Len(sized)]>>

OfKind(profiles, kind) == Filtered(profiles, {i \in DOMAIN profiles : profiles[i].kind = kind})

Chosen(videos, params) ==
  IF params.height = None THEN videos ELSE ByHeight(videos, params.height)

(* For a TS remux only the highest resolution. *)
Highest(videos, params) ==
  LET Tallest(top) == Filtered(videos, {i \in DOMAIN videos : videos[i].height >= top})
  IN  IF ~params.ts THEN videos
      ELSE Tallest(Greatest({p.height : p \in ToSet(videos)} \cup {0}))

Ladder(videos, params) ==
  IF params.height # None \/ params.ts THEN Upto(videos, 1)
  ELSE Upto(DedupBy(videos, "height"), MaxVideo)

(* Mutant: the first of a height stays, whatever its bandwidth. *)
MasterVideosUnsorted(profiles, params) ==
  Ladder(DedupBy(Highest(Chosen(OfKind(profiles, "video"), params), params), "rep"), params)

MasterVideos(profiles, params) ==
  Ladder(DedupBy(SortDown(Highest(Chosen(OfKind(profiles, "video"), params), params),
                          "bandwidth"), "rep"), params)

(* English or else any, of the highest bandwidth, the last of equals. *)
DefaultAudio(audios) ==
  LET LastBest(among, best) == among[Greatest({i \in DOMAIN among : among[i].bandwidth = best})].id
      Best(among) == IF among = <<>> THEN None
                     ELSE LastBest(among, Greatest({p.bandwidth : p \in ToSet(among)}))
      english == Filtered(audios, {i \in DOMAIN audios : audios[i].lang = "en"})
  IN  Best(IF english # <<>> THEN english ELSE audios)

(* One track for each language, the default track first. *)
AudioTracks(sorted, default) ==
  LET first  == Filtered(sorted, {i \in DOMAIN sorted : sorted[i].id = default})
      others == Filtered(sorted, {i \in DOMAIN sorted : sorted[i].id # default})
      Entries(tracks) == [i \in DOMAIN tracks |->
                            [id |-> tracks[i].id, default |-> tracks[i].id = default]]
  IN  Entries(Upto(DedupBy(first \o others, "lang"), MaxAudio))

MasterAudios(profiles) ==
  LET Of(audios) == AudioTracks(SortDown(audios, "bandwidth"), DefaultAudio(audios))
  IN  Of(OfKind(profiles, "audio"))

-----------------------------------------------------------------------------
(* The media playlist *)

(* compute_live_playlist_depth *)
LiveDepth(ts, offset, configured, timed) ==
  LET floor   == AtLeast(configured, IF ts THEN FloorTs ELSE Floor)
      typical == IF timed = <<>> THEN 4 ELSE Median(timed)
      behind  == CeilDiv(-offset, typical) + (IF ts THEN SafetyTs ELSE Safety)
  IN  IF offset < 0 THEN AtLeast(floor, behind) ELSE floor

(* Mutant: numbers of the window, not of the presentation. *)
WindowSequence(first, profile) == AtLeast(first.number, 1)

(* compute_live_media_sequence *)
MediaSequence(first, profile) ==
  LET By(nominal) == IF profile.explicit \/ first.time = 0 \/ nominal = 0
                     THEN AtLeast(first.number, 1)
                     ELSE AtLeast(first.time \div nominal, 1)
  IN  By(NominalDuration(profile.segments))

(* build_segment_url: the query of a link to /proxy/mpd/segment. *)
SegmentLink(segment, profile, params) ==
  [init |-> profile.init, media |-> segment.media, useMap |-> ~params.ts,
   initRange |-> IF segment.initRange # None THEN segment.initRange ELSE profile.initRange,
   range |-> segment.range]

(* build_init_url: the query of a link to /proxy/mpd/init. *)
InitLink(profile) == [init |-> profile.init, initRange |-> profile.initRange]

(* Mutant: only the first line is given one. *)
FirstInit(kept, i, ts) == ~ts /\ i = 1

(* Whether an EXT-X-MAP goes before line i: use_map and current_init_url.   *)
NewInit(kept, i, ts) == ~ts /\ (i = 1 \/ kept[i].profile.init # kept[i - 1].profile.init)

(* The live window of the merged segments, and all of a recording. *)
Window(live, merged, params, configured) ==
  LET offset == IF params.offset # None THEN params.offset
                ELSE IF live THEN -DefaultOffset ELSE 0
      timed  == Timed([i \in DOMAIN merged |-> merged[i].segment])
      start  == IF live THEN Monus(Len(merged), LiveDepth(params.ts, offset, configured, timed))
                ELSE 0
  IN  SubSeq(merged, start + 1, Len(merged))

Lines(live, kept, params) ==
  IF kept = <<>> THEN [sequence |-> 0, lines |-> <<>>]
  ELSE [sequence |-> IF live THEN MediaSequence(kept[1].segment, kept[1].profile)
                     ELSE AtLeast(kept[1].segment.number, 1),
        lines |-> [i \in DOMAIN kept |->
          [discontinuity |-> NewInit(kept, i, params.ts) /\ i > 1,
           map  |-> IF NewInit(kept, i, params.ts) /\ kept[i].profile.init # None
                    THEN InitLink(kept[i].profile) ELSE None,
           link |-> SegmentLink(kept[i].segment, kept[i].profile, params)]]]

(* build_hls_media_playlist: its sequence number and its segments, each     *)
(* with its number, its link and the EXT-X-MAP and EXT-X-DISCONTINUITY that  *)
(* precede it.  The handler passes no ranges to skip.                       *)
MediaPlaylist(live, profiles, params, configured) ==
  LET Pairs(p) == [i \in DOMAIN p.segments |-> [segment |-> p.segments[i], profile |-> p]]
      merged == FlattenSeq([k \in DOMAIN profiles |-> Pairs(profiles[k])])
  IN  Lines(live, Window(live, merged, params, configured), params)

=============================================================================
