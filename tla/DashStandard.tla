------------------------------ MODULE DashStandard ------------------------------
(***************************************************************************)
(* What a DASH channel consists of by the standard (ISO/IEC 23009-1),       *)
(* whatever its MPD, and what the code presumes of the MPDs that it turns   *)
(* into complete playlists.                                                 *)
(***************************************************************************)
EXTENDS DashHandler

Plays(rep, id) == rep.kind \in {"video", "audio"} /\ IdOf(rep) = id
HasId(period, id) == \E rep \in ToSet(period.reps) : Plays(rep, id)

(* A segment of a representation is a file or a range of one, which needs   *)
(* the initialization segment of the representation.                        *)
InitFor(rep) == IF rep.form # "base" /\ rep.init # None THEN <<rep.init, None>>
                ELSE <<rep.base, rep.initRange>>
TrueSegment(rep, media, range) ==
  [media |-> media, range |-> range, init |-> InitFor(rep)[1], initRange |-> InitFor(rep)[2]]

(* $Number$ counts from startNumber, which is 1 by default, $Time$ is the   *)
(* segment's.                                                               *)
StartOf(rep) == IF rep.number = None THEN 1 ELSE rep.number
NameFor(rep, i, time) ==
  IF rep.naming = "number" THEN [rep |-> rep.rep, by |-> "number", at |-> StartOf(rep) + i - 1]
  ELSE [rep |-> rep.rep, by |-> "time", at |-> time]

(* An S element stands for r + 1 segments of d each, the first of them at t *)
(* or where the one before ends.                                            *)
TimelineTrue(rep, part) ==
  LET end == Ends([n \in DOMAIN rep.S |-> rep.S[n].r + 1])
      Time(n, i) == IF i > end[n - 1] + 1 THEN part[i - 1].media.at + rep.S[n].d
                    ELSE IF rep.S[n].t # None THEN rep.S[n].t
                    ELSE IF n = 1 THEN 0 ELSE part[i - 1].media.at + rep.S[n - 1].d
  IN  /\ Len(part) = end[Len(rep.S)]
      /\ \A n \in DOMAIN rep.S : \A i \in end[n - 1] + 1 .. end[n] :
           part[i] = TrueSegment(rep, NameFor(rep, i, Time(n, i)), None)

(* Without a timeline all segments have one duration.  A recording has as   *)
(* many as its period needs, a live channel those that have ended.          *)
DurationOf(doc, p) ==
  (IF p < Len(doc.periods) THEN doc.periods[p + 1].start ELSE doc.total) - doc.periods[p].start
Since(doc, p, now) == now - (doc.avail + doc.periods[p].start)
TemplateTrue(doc, p, rep, part, now) ==
  LET n == Len(part) IN
  /\ IF doc.live
     THEN /\ n * rep.d <= AtLeast(Since(doc, p, now), 0)
          /\ AtLeast(Since(doc, p, now), 0) < (n + 1) * rep.d
     ELSE DurationOf(doc, p) <= n * rep.d /\ (n - 1) * rep.d < DurationOf(doc, p)
  /\ \A i \in 1 .. n : part[i] = TrueSegment(rep, NameFor(rep, i, rep.pto + (i - 1) * rep.d), None)

ListTrue(rep, part) ==
  /\ Len(part) = Len(rep.urls)
  /\ \A i \in 1 .. Len(part) :
       LET url == rep.urls[i] IN
       part[i] = TrueSegment(rep, IF url.media # None THEN url.media ELSE rep.base, url.range)

(* A file is one segment, what follows its initialization, or its sidx      *)
(* tells subsegments apart, which follow each other from the byte on that   *)
(* it gives as an offset to its own end.                                    *)
AfterSidx(rep, index) ==
  rep.index[1] + Ends(index.before)[Len(index.before)] + index.size + index.offset
FileTrue(rep, index, part) ==
  IF index = None \/ rep.index = None
  THEN part = <<TrueSegment(rep, rep.base, IF rep.initRange = None THEN None
                                           ELSE <<rep.initRange[2] + 1, 0>>)>>
  ELSE LET end  == Ends([i \in DOMAIN index.refs |-> index.refs[i].size])
           from == AfterSidx(rep, index)
       IN  part = Filtered([i \in DOMAIN index.refs |->
                              TrueSegment(rep, rep.base, <<from + end[i - 1], from + end[i] - 1>>)],
                           {i \in DOMAIN index.refs : index.refs[i].media})

RepTrue(c, doc, p, rep, part, now) ==
  CASE rep.form = "timeline" -> TimelineTrue(rep, part)
    [] rep.form = "duration" -> TemplateTrue(doc, p, rep, part, now)
    [] rep.form = "list" -> ListTrue(rep, part)
    [] rep.form = "base" -> FileTrue(rep, Index(c), part)
    [] rep.form = "none" -> part = <<>>

(* Truth is what a channel consists of: the segments of a profile in each   *)
(* period that has it, one period after the other.                          *)
Having(doc, id) ==
  Filtered([p \in DOMAIN doc.periods |-> p], {p \in DOMAIN doc.periods : HasId(doc.periods[p], id)})
TrueTo(c, doc, id, now, whole) ==
  LET having == Having(doc, id) IN
  \E cut \in [0 .. Len(having) -> 0 .. Len(whole)] :
    /\ cut[0] = 0 /\ cut[Len(having)] = Len(whole)
    /\ \A k \in 1 .. Len(having) :
         /\ cut[k - 1] <= cut[k]
         /\ \A rep \in ToSet(doc.periods[having[k]].reps) : Plays(rep, id) =>
              RepTrue(c, doc, having[k], rep, SubSeq(whole, cut[k - 1] + 1, cut[k]), now)
Truthful(c) ==
  \A t, now \in 0 .. MaxTime : \A id \in {IdOf(rep) : rep \in PlayedReps(Publish(c, t))} :
    /\ IsSequence(Truth(c, id, t, now))
    /\ TrueTo(c, Publish(c, t), id, now, Truth(c, id, t, now))

-----------------------------------------------------------------------------
(* What the code presumes.  A name with $Time$ needs a time other than 0.   *)
Timely(rep, time) == rep.naming = "number" \/ time > 0

TimelineListable(rep) ==
  /\ rep.init # None /\ StartOf(rep) \in Nat
  /\ \A s \in ToSet(rep.S) : /\ s.r \in Nat /\ s.d \in Nat
                             /\ s.t # None => s.t \in Nat /\ Timely(rep, s.t)
  /\ rep.S # <<>> /\ rep.S[1].t = None => Timely(rep, 0)

(* A recording has one such period.  A live channel has too, and is older   *)
(* than its window, in which there are enough segments.                     *)
TemplateListable(doc, p, rep) ==
  LET count == CeilDiv(doc.depth, rep.d) IN
  /\ rep.init # None /\ StartOf(rep) \in Nat /\ rep.d # 0 /\ rep.pto \in Nat
  /\ Timely(rep, IF doc.live THEN rep.pto ELSE 0)
  /\ IF doc.live
     THEN /\ Len(doc.periods) = 1 /\ doc.avail + doc.periods[p].start \in Int
          /\ count * rep.d <= Since(doc, p, 0)
          /\ Floor <= count /\ FloorTs <= count
     ELSE DurationOf(doc, p) = doc.total

ListListable(rep) == \A url \in ToSet(rep.urls) : url.media # None \/ rep.base # None

(* A sidx that was fetched in whole.                                        *)
FileListable(rep, index) ==
  index # None /\ rep.index # None =>
    /\ Len(index.refs) <= index.have
    /\ \E ref \in ToSet(index.refs) : ref.media

RepListable(c, doc, p, rep) ==
  CASE rep.form = "timeline" -> TimelineListable(rep)
    [] rep.form = "duration" -> TemplateListable(doc, p, rep)
    [] rep.form = "list" -> ListListable(rep)
    [] rep.form = "base" -> FileListable(rep, Index(c))
    [] rep.form = "none" -> TRUE

(* In a period the ids are unique. *)
Listable(c) ==
  \A t \in 0 .. MaxTime :
    LET doc == Publish(c, t) IN
    \A p \in DOMAIN doc.periods :
      LET reps == doc.periods[p].reps IN
      \A i \in DOMAIN reps : reps[i].kind \in {"video", "audio"} =>
        /\ RepListable(c, doc, p, reps[i])
        /\ \A j \in DOMAIN reps : Plays(reps[j], IdOf(reps[i])) => i = j

=============================================================================
