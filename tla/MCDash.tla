--------------------------------- MODULE MCDash ---------------------------------
(* Small DASH channels for DashHandler and what they truly consist of.      *)
EXTENDS DashStandard

Rep(id, kind, bandwidth, form) ==
  [adapt |-> 0, rep |-> id, bandwidth |-> bandwidth, kind |-> kind, lang |-> None, height |-> 0,
   form |-> form, naming |-> "number", number |-> None, pto |-> 0, S |-> <<>>, d |-> 0,
   urls |-> <<>>, init |-> <<id, "init">>, initRange |-> None, base |-> None, index |-> None]
Video(id, height, bandwidth, form) == [Rep(id, "video", bandwidth, form) EXCEPT !.height = height]
Audio(id, lang, bandwidth, form) ==
  [Rep(id, "audio", bandwidth, form) EXCEPT !.lang = lang, !.adapt = 1]

Vod(total, periods) == [live |-> FALSE, avail |-> 0, depth |-> 0, total |-> total, periods |-> periods]
Live(avail, depth, periods) ==
  [live |-> TRUE, avail |-> avail, depth |-> depth, total |-> 0, periods |-> periods]
Period(start, reps) == [start |-> start, reps |-> reps]
S(t, d, r) == [t |-> t, d |-> d, r |-> r]
Media(id, by, at) == [rep |-> id, by |-> by, at |-> at]

(* Numbers from 5 on; two bit rates of one height; two languages. *)
FilmRep(rep) == [rep EXCEPT !.d = 2, !.number = 5]
film == Vod(5, <<Period(0, <<FilmRep(Video("v1", 720, 3, "duration")),
                             FilmRep(Video("v2", 720, 5, "duration")),
                             FilmRep(Video("v3", 1080, 9, "duration")),
                             FilmRep(Video("v4", 360, 1, "duration")),
                             FilmRep(Audio("a1", "de", 3, "duration")),
                             FilmRep(Audio("a2", "en", 2, "duration")),
                             Rep("t", "text", 1, "none")>>)>>)

(* Two periods, named by time. *)
PartRep(init, pto, times) ==
  [Video("v", 720, 3, "timeline") EXCEPT !.naming = "time", !.S = times, !.init = init, !.pto = pto]
parts == Vod(0, <<Period(0, <<PartRep("init1", 0, <<S(2, 2, 1), S(None, 1, 0)>>)>>),
                  Period(5, <<PartRep("init2", 7, <<S(7, 2, 0), S(9, 1, 2)>>)>>)>>)

(* Segments of a list: one with a name, two that are ranges of a file. *)
list == Vod(6, <<Period(0, <<[Video("v", 720, 3, "list") EXCEPT
          !.init = None, !.initRange = <<0, 3>>, !.base = Media("v", "file", 0), !.d = 2,
          !.urls = <<[media |-> Media("v", "list", 1), range |-> None],
                     [media |-> None, range |-> <<4, 9>>],
                     [media |-> None, range |-> <<10, 12>>]>>]>>)>>)

(* One file with a sidx. *)
file == Vod(6, <<Period(0, <<[Video("v", 720, 3, "base") EXCEPT
          !.initRange = <<0, 3>>, !.index = <<4, 9>>, !.base = Media("v", "file", 0)]>>)>>)
MCIndex(c) ==
  IF c # "file" THEN None
  ELSE [before |-> <<>>, size |-> 6, offset |-> 0, have |-> 3,
        refs |-> <<[media |-> TRUE, size |-> 5, d |-> 2], [media |-> FALSE, size |-> 3, d |-> 1],
                   [media |-> TRUE, size |-> 4, d |-> 2]>>]

(* Live: four segments of 2 s that end before t + 10, named by time. *)
timeline(t) ==
  Live(0, 8, <<Period(0, <<[Video("v", 720, 3, "timeline") EXCEPT
         !.naming = "time", !.S = <<S(((t + 10) \div 2) * 2 - 8, 2, 3)>>]>>)>>)

(* Live since -9: numbers from 3 on, three segments in the window. *)
numbers == Live(-9, 5, <<Period(0, <<[Video("v", 720, 3, "duration") EXCEPT !.d = 2, !.number = 3]>>)>>)

(* A recording whose first segment starts at 0. *)
zero == Vod(0, <<Period(0, <<[PartRep("init", 0, <<S(0, 2, 1)>>) EXCEPT !.number = 1]>>)>>)

MCPublish(c, t) ==
  CASE c = "film" -> film [] c = "parts" -> parts [] c = "list" -> list [] c = "file" -> file
    [] c = "timeline" -> timeline(t) [] c = "numbers" -> numbers [] c = "zero" -> zero

True(media, range, init, initRange) ==
  [media |-> media, range |-> range, init |-> init, initRange |-> initRange]
Named(id, by, numbers_, init) ==
  [i \in DOMAIN numbers_ |-> True(Media(id, by, numbers_[i]), None, init, None)]

MCTruth(c, profile, at, now) ==
  LET id == profile[2]
      whole == Media("v", "file", 0) IN
  CASE c = "film" -> Named(id, "number", <<5, 6, 7>>, <<id, "init">>)
    [] c = "parts" -> Named("v", "time", <<2, 4, 6>>, "init1")
                      \o Named("v", "time", <<7, 9, 10, 11>>, "init2")
    [] c = "list" -> <<True(Media("v", "list", 1), None, whole, <<0, 3>>),
                       True(whole, <<4, 9>>, whole, <<0, 3>>),
                       True(whole, <<10, 12>>, whole, <<0, 3>>)>>
    [] c = "file" -> <<True(whole, <<10, 14>>, whole, <<0, 3>>),
                       True(whole, <<18, 21>>, whole, <<0, 3>>)>>
    [] c = "timeline" -> Named("v", "time", [i \in 1 .. 4 |-> 2 * (((at + 10) \div 2) - 5 + i)],
                               <<"v", "init">>)
    [] c = "numbers" -> Named("v", "number", [i \in 1 .. (now + 9) \div 2 |-> 2 + i],
                              <<"v", "init">>)
    [] c = "zero" -> Named("v", "time", <<0, 2>>, "init")

MCQuery(c) ==
  {[profile |-> None, ts |-> ts, height |-> None, offset |-> None, keys |-> ts \/ c = "parts"] :
     ts \in BOOLEAN}
  \cup (IF c = "film"
        THEN {[profile |-> None, ts |-> ts, height |-> 800, offset |-> None, keys |-> FALSE] :
                ts \in BOOLEAN}
        ELSE {})
  \cup (IF c \in {"timeline", "numbers"}
        THEN {[profile |-> <<0, "v", 3>>, ts |-> FALSE, height |-> None, offset |-> o, keys |-> FALSE] :
                o \in {-4}}
        ELSE {})

(* SequenceNamesSegment and SegmentDecodable are asked of such channels. *)
ASSUME ChannelsOrdinary == \A c \in Channel : Steady(c) /\ OwnInits(c)

(* The truth that is written down here is that of the standard, and all     *)
(* channels but the one whose first time is 0 are such as the code presumes. *)
ASSUME MCTruthful == \A c \in Channel : Truthful(c)
ASSUME MCListable == \A c \in Channel \ {"zero"} : Listable(c)

DashSymmetry == Permutations(Player)
Recordings == {"film", "parts", "list", "file"}
LiveChannels == {"timeline", "numbers"}
=============================================================================
