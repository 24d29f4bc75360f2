------------------------------- MODULE DashHandler -------------------------------
(***************************************************************************)
(* The DASH endpoints (src/mpd/handler.rs): a player asks for the master    *)
(* playlist, follows its links to media playlists, which it refreshes while *)
(* the channel is live, and theirs to segments.  MPDs come from upstream    *)
(* through a cache that all requests share; other requests of this or of    *)
(* other players run between the fetch of an MPD and its use.               *)
(*                                                                         *)
(* A channel is a stream of one origin, Publish(channel, t) its MPD at time *)
(* t and Index(channel) the sidx of its files or None.  A query is          *)
(*   profile  a profile id, or None for the master playlist                 *)
(*   ts, height, offset   remux_to_ts, resolution and start_offset          *)
(*   keys     whether the query has key_id and key                          *)
(***************************************************************************)
EXTENDS DashPlaylist

CONSTANTS
  Player,          \* the clients of the proxy
  Channel,         \* the channels that are asked for
  Publish(_, _),
  Index(_),
  Query(_),        \* what players ask of a channel before they follow links
  Truth(_, _, _, _), \* the segments of a profile when its MPD is published
                   \* and when it is served, made by the origin
  Configured,      \* live_playlist_depth
  MpdTtl,          \* time to live in the MPD cache (30 s in the code)
  MaxFetch,        \* assumed: the longest an answer is on its way
  MaxTime          \* bound: the last time

ASSUME DashAssumption == MpdTtl \in Nat \ {0} /\ MaxFetch \in Nat

Reps(doc) == UNION {ToSet(period.reps) : period \in ToSet(doc.periods)}

(* MPDs are finite, only pictures have a height, representations that agree *)
(* on the three parts of a profile id are of one kind and language, and     *)
(* those that share a representation id are of one quality.                 *)
ASSUME DashDocuments ==
  /\ MaxTime \in Nat /\ MaxVideo \in Nat \ {0} /\ MaxAudio \in Nat \ {0}
  /\ \A c \in Channel, t \in 0 .. MaxTime :
       LET doc == Publish(c, t) IN
       /\ doc.periods \in Seq(ToSet(doc.periods))
       /\ \A period \in ToSet(doc.periods) : period.reps \in Seq(ToSet(period.reps))
       /\ \A x \in Reps(doc) : /\ x.bandwidth \in Nat /\ x.height \in Nat
                               /\ x.kind = "audio" => x.height = 0
       /\ \A x, y \in Reps(doc) :
            /\ <<x.adapt, x.rep, x.bandwidth>> = <<y.adapt, y.rep, y.bandwidth>> =>
                 x.kind = y.kind /\ x.lang = y.lang
            /\ x.kind = "video" /\ y.kind = "video" /\ x.rep = y.rep => x.height = y.height

(* Documents as far as the parser and the other code make sure of them.     *)
ASSUME DashTypes ==
  /\ {Floor, FloorTs, Safety, SafetyTs, Configured, DefaultOffset} \subseteq Nat
  /\ \A c \in Channel : \A query \in Query(c) : query.offset # None => query.offset \in Int
  /\ \A c \in Channel : Index(c) # None =>
       Index(c).have \in Nat /\ Index(c).refs \in Seq(ToSet(Index(c).refs))
  /\ \A c \in Channel, t \in 0 .. MaxTime :
       LET doc == Publish(c, t) IN
       /\ doc.depth \in Nat /\ doc.total \in Nat
       /\ \A x \in Reps(doc) :
            /\ x.form \in {"timeline", "duration", "list", "base", "none"} /\ x.d \in Nat
            /\ x.S \in Seq(ToSet(x.S)) /\ \A s \in ToSet(x.S) : s.r \in Int
            /\ x.urls \in Seq(ToSet(x.urls))
            /\ [init |-> InitOf(x)[1], initRange |-> InitOf(x)[2]] # None

VARIABLES
  dashNow,    \* the clock
  channel,    \* the channel
  mpdCache,   \* when the cached MPD was published and stored, [at, set], or None
  job,        \* each player's request that waits for the MPD, [query, at], or None
  shown,      \* the last playlist a player was given, or None
  numbering,  \* history: media sequence numbers and their segments, per profile
  answer      \* the answer to a segment request, until something else happens

dashVars == <<dashNow, channel, mpdCache, job, shown, numbering, answer>>

DashInit ==
  /\ dashNow = 0
  /\ channel \in Channel
  /\ mpdCache = None
  /\ job = [p \in Player |-> None]
  /\ shown = None
  /\ numbering = {}
  /\ answer = None

-----------------------------------------------------------------------------
(* Mutant: an entry stays for ever. *)
CachedForever == mpdCache # None

Cached == mpdCache # None /\ dashNow - mpdCache.set < MpdTtl

(* mpd_manifest_handler *)
Master(doc, query) ==
  LET Entries(videos) == [i \in DOMAIN videos |-> [id |-> videos[i].id, height |-> videos[i].height]]
      Of(profiles) == [videos |-> Entries(MasterVideos(profiles, query)),
                       audios |-> MasterAudios(profiles)]
  IN  Of(ParseMpd(doc, None, dashNow))

(* mpd_playlist_handler: index is the sidx or None if it was not fetched;   *)
(* None for a profile that the MPD does not have.                           *)
Playlist(doc, query, index) ==
  LET profiles == ParseMpd(doc, query.profile, dashNow)
      Of(matching) ==
        IF matching = <<>> THEN None
        ELSE MediaPlaylist(doc.live, [i \in DOMAIN matching |-> ExpandBase(matching[i], index)],
                           query, Configured)
  IN  Of(Filtered(profiles, {i \in DOMAIN profiles : profiles[i].id = query.profile}))

Numbers(query, list) ==
  {<<query.profile, query.ts, list.sequence + i - 1, list.lines[i].link.media, list.lines[i].link.range>> :
     i \in DOMAIN list.lines}

(* The rest of both handlers once they have the MPD. *)
Serve(query, at) ==
  \E doc \in {Publish(channel, at)} :
  IF query.profile = None
  THEN /\ shown' = [query |-> query, at |-> at, now |-> dashNow,
                   indexed |-> FALSE, body |-> Master(doc, query)]
       /\ UNCHANGED numbering
  ELSE \E index \in {None, Index(channel)} :
       \E list \in {Playlist(doc, query, index)} :
         IF list = None THEN UNCHANGED <<shown, numbering>>
         ELSE /\ shown' = [query |-> query, at |-> at, now |-> dashNow,
                          indexed |-> index # None, body |-> list]
              /\ numbering' = IF doc.live THEN numbering \cup Numbers(query, list) ELSE numbering

(* fetch_mpd_cached: a hit is served at once, a miss waits for upstream. *)
Ask(p, query) ==
  /\ job[p] = None
  /\ IF Cached
     THEN Serve(query, mpdCache.at) /\ UNCHANGED job
     ELSE /\ job' = [job EXCEPT ![p] = [query |-> query, at |-> None]]
          /\ UNCHANGED <<shown, numbering>>
  /\ answer' = None
  /\ UNCHANGED <<dashNow, channel, mpdCache>>

AskFirst(p) == \E query \in Query(channel) : Ask(p, query)

(* build_playlist_url: the query of the master's links. *)
PlaylistQuery(query, id) ==
  [profile |-> id, ts |-> query.ts, height |-> None, offset |-> None, keys |-> query.keys]

AskLinked(p) ==
  /\ shown # None
  /\ shown.query.profile = None
  /\ \E id \in {t.id : t \in ToSet(shown.body.videos) \cup ToSet(shown.body.audios)} :
       Ask(p, PlaylistQuery(shown.query, id))

Refresh(p) ==
  /\ shown # None
  /\ shown.query.profile # None
  /\ Ask(p, shown.query)

UpstreamAnswers(p) ==
  /\ job[p] # None
  /\ job[p].at = None
  /\ job' = [job EXCEPT ![p].at = dashNow]
  /\ answer' = None
  /\ UNCHANGED <<dashNow, channel, mpdCache, shown, numbering>>

UpstreamDown(p) ==
  /\ job[p] # None
  /\ job[p].at = None
  /\ job' = [job EXCEPT ![p] = None]
  /\ answer' = None
  /\ UNCHANGED <<dashNow, channel, mpdCache, shown, numbering>>

(* The answer is complete: it goes to the cache, whatever is there. *)
FetchEnds(p) ==
  /\ job[p] # None
  /\ job[p].at # None
  /\ mpdCache' = [at |-> job[p].at, set |-> dashNow]
  /\ Serve(job[p].query, job[p].at)
  /\ job' = [job EXCEPT ![p] = None]
  /\ answer' = None
  /\ UNCHANGED <<dashNow, channel>>

Tick ==
  /\ dashNow < MaxTime
  /\ \A p \in Player : job[p] # None =>
       (job[p].at # None => dashNow - job[p].at < MaxFetch)
  /\ dashNow' = dashNow + 1
  /\ answer' = None
  /\ UNCHANGED <<channel, mpdCache, job, shown, numbering>>

-----------------------------------------------------------------------------
(* mpd_init_handler: the init segment, prepared for a decrypted stream.     *)
InitAnswer(link) == <<link.init, link.initRange>>

(* mpd_segment_handler: fetched says whether the init segment could be      *)
(* fetched; if not, an empty one stands for it.  With keys the segment is   *)
(* decrypted, streamed if it is a range of a file and else as a whole.      *)
SegmentAnswer(link, keys, fetched) ==
  LET init == IF fetched THEN InitAnswer(link) ELSE None IN
  [inline |-> IF link.useMap THEN None ELSE init,
   media |-> link.media, range |-> link.range,
   way |-> IF ~keys THEN "clear" ELSE IF link.range # None THEN "streamed" ELSE "buffered",
   primed |-> IF keys THEN init ELSE None]

MapInEffect(lines, i) ==
  LET maps == {k \in 1 .. i : lines[k].map # None}
  IN  IF maps = {} THEN None ELSE InitAnswer(lines[Greatest(maps)].map)

(* Line i of the playlist is played, with the map in effect there. *)
Play(i) ==
  /\ shown # None
  /\ shown.query.profile # None
  /\ i \in DOMAIN shown.body.lines
  /\ \E fetched \in BOOLEAN :
       answer' = [line |-> i, fetched |-> fetched,
                  map |-> MapInEffect(shown.body.lines, i),
                  body |-> SegmentAnswer(shown.body.lines[i].link, shown.query.keys, fetched)]
  /\ UNCHANGED <<dashNow, channel, mpdCache, job, shown, numbering>>

MaxLines == 8   \* bound: lines of a playlist in the checked channels

DashNext ==
  \/ \E p \in Player : \/ AskFirst(p)
                       \/ AskLinked(p)
                       \/ Refresh(p)
                       \/ UpstreamAnswers(p)
                       \/ UpstreamDown(p)
                       \/ FetchEnds(p)
  \/ \E i \in 1 .. MaxLines : Play(i)
  \/ Tick

DashSpec == DashInit /\ [][DashNext]_dashVars

-----------------------------------------------------------------------------
IsList == shown # None /\ shown.query.profile # None

(* Where the lines of the playlist begin among the true segments. *)
Origin == Truth(channel, shown.query.profile, shown.at, shown.now)
Skipped == Len(Origin) - Len(shown.body.lines)
Unexpanded == Index(channel) # None /\ ~shown.indexed

(* A playlist lists the segments of its representation, in order, under     *)
(* their own names and ranges and with their own init segments: all of them *)
(* for a recording, for a live channel those up to the newest, as many as   *)
(* the depth asks for.  Breaks when a window is shifted, a repeat count is  *)
(* off by one, periods are mixed up, or a fragment of the sidx starts where *)
(* the last did not end.                                                    *)
PlaylistComplete ==
  IsList /\ ~Unexpanded =>
    LET lines == shown.body.lines IN
    /\ Skipped >= 0
    /\ Skipped > 0 => /\ Publish(channel, shown.at).live
                      /\ Len(lines) >= IF shown.query.ts THEN FloorTs ELSE Floor
    /\ \A i \in DOMAIN lines :
         LET true == Origin[Skipped + i]
             link == lines[i].link
         IN  /\ link.media = true.media /\ link.range = true.range
             /\ InitAnswer(link) = <<true.init, true.initRange>>

IdOf(rep) == <<rep.adapt, rep.rep, rep.bandwidth>>
PlayedReps(doc) == {r \in Reps(doc) : r.kind \in {"video", "audio"}}

(* A live representation whose segments can be counted: all are of one      *)
(* duration and follow each other, and its segments have numbers from its   *)
(* startNumber on or, without one, are named by their time.                 *)
Countable(rep) ==
  \/ /\ rep.form = "duration"
     /\ rep.number # None /\ rep.number \in Nat \ {0}
     /\ rep.d \in Nat \ {0} /\ rep.pto \in Nat
  \/ /\ rep.form = "timeline"
     /\ rep.S # <<>> /\ rep.S[1].t # None /\ rep.S[1].t \in Nat /\ rep.S[1].d \in Nat \ {0}
     /\ \A i \in 2 .. Len(rep.S) : rep.S[i].t = None /\ rep.S[i].d = rep.S[1].d
     /\ IF rep.number = None THEN rep.naming = "time" /\ rep.S[1].t >= rep.S[1].d
        ELSE rep.number \in Nat \ {0}

(* One of its segments and the step to the next. *)
Count(rep) ==
  CASE rep.form = "duration" -> [number |-> rep.number, time |-> rep.pto, d |-> rep.d]
    [] rep.form = "timeline" ->
         [number |-> IF rep.number = None THEN rep.S[1].t \div rep.S[1].d ELSE rep.number,
          time |-> rep.S[1].t, d |-> rep.S[1].d]

(* One period, whose start is known, and representations that are counted. *)
Counted(doc) ==
  /\ Len(doc.periods) = 1 /\ doc.avail \in Int /\ doc.periods[1].start \in Int
  /\ \A i, j \in DOMAIN doc.periods[1].reps :
       IdOf(doc.periods[1].reps[i]) = IdOf(doc.periods[1].reps[j]) => i = j
  /\ \A x \in PlayedReps(doc) : Countable(x)

SameCount(x, y) ==
  /\ x.naming = y.naming
  /\ Count(x).d = Count(y).d
  /\ Count(x).time - Count(x).number * Count(x).d = Count(y).time - Count(y).number * Count(y).d

(* A channel that, as long as it is live, goes on counting as it began. *)
Steady(c) ==
  \A t \in {t \in 0 .. MaxTime : Publish(c, t).live} :
    /\ Counted(Publish(c, t))
    /\ \A u \in {u \in 0 .. MaxTime : Publish(c, u).live} :
         \A x \in PlayedReps(Publish(c, t)), y \in PlayedReps(Publish(c, u)) :
           IdOf(x) = IdOf(y) => SameCount(x, y)

(* The live window moves, MPDs come from a cache of varying age and players *)
(* ask with different offsets: a media sequence number still names the same *)
(* segment in every playlist of a profile (HLS players find their place by  *)
(* it).  This holds for channels that are Steady.                           *)
SequenceNamesSegment ==
  \A a, b \in numbering :
    a[1] = b[1] /\ a[3] = b[3] => a[4] = b[4] /\ a[5] = b[5]

(* build_hls_media_playlist tells init segments apart by their URL alone: a *)
(* channel whose representations have one each and where, for a profile, a  *)
(* URL stands for one of them.                                              *)
OwnInits(c) ==
  \A t \in 0 .. MaxTime :
    \A x, y \in PlayedReps(Publish(c, t)) :
      /\ InitOf(x)[1] # None
      /\ IdOf(x) = IdOf(y) /\ InitOf(x)[1] = InitOf(y)[1] => InitOf(x) = InitOf(y)

(* A segment reaches its player after the init segment of its own period    *)
(* and representation, by EXT-X-MAP or inline, and is decrypted with it.    *)
(* Only when the init segment could not be fetched the segment goes out     *)
(* alone, or decrypted without it.  This holds for channels with OwnInits.  *)
SegmentDecodable ==
  answer # None =>
    LET true == Origin[Skipped + answer.line]
        init == <<true.init, true.initRange>>
    IN  ~Unexpanded =>
          /\ shown.query.ts => answer.map = None /\ answer.body.inline \in {init, None}
          /\ ~shown.query.ts => answer.map = init /\ answer.body.inline = None
          /\ answer.fetched =>
               /\ shown.query.ts => answer.body.inline = init
               /\ shown.query.keys => answer.body.primed = init

(* However requests overtake each other, no playlist is made of an MPD that *)
(* is older than the time to live and the time an answer may take.          *)
MpdFreshEnough ==
  shown # None => shown.now - shown.at < MpdTtl + MaxFetch

(* The master playlist offers each height once, with its best bandwidth     *)
(* (for a given resolution, with any), and one default among the audio      *)
(* tracks, English if there is English; every link leads to a profile.      *)
Playable(profiles, query, body) ==
  LET Of(v) == CHOOSE q \in profiles : q.id = v.id IN
  /\ \A v \in ToSet(body.videos) : query.height = None =>
       /\ \A q \in profiles :
            q.kind = "video" /\ q.height = v.height => q.bandwidth <= Of(v).bandwidth
       /\ query.ts => \A q \in profiles : q.height <= v.height
  /\ \A i, k \in DOMAIN body.videos :
       body.videos[i].height = body.videos[k].height => i = k
  /\ {q \in profiles : q.kind = "video"} # {} => body.videos # <<>>
  /\ {q \in profiles : q.kind = "audio"} # {} =>
       Cardinality({i \in DOMAIN body.audios : body.audios[i].default}) = 1
  /\ {q \in profiles : q.kind = "audio" /\ q.lang = "en"} # {} =>
       \A a \in ToSet(body.audios) : a.default => Of(a).lang = "en"
  /\ \A v \in ToSet(body.videos) \cup ToSet(body.audios) : \E q \in profiles : q.id = v.id

MasterPlayable ==
  shown # None /\ shown.query.profile = None =>
    \E profiles \in {ToSet(ParseMpd(Publish(channel, shown.at), None, shown.now))} :
      Playable(profiles, shown.query, shown.body)

(* "Replaces `$RepresentationID$`, `$Number$`, `$Number%04d$`,              *)
(* `$Bandwidth$`, and `$Time$` with the provided values"                    *)
(* (src/mpd/segment.rs:43): no listed segment keeps the variable in its     *)
(* name.  Fails for a segment that starts at time 0.                        *)
TimeReplaced ==
  IsList =>
    \A i \in DOMAIN shown.body.lines :
      shown.body.lines[i].link.media.by # "$Time$"

=============================================================================
