------------------------------ MODULE Manifest -------------------------------
(* The two manifest parsers, getServiceSegmentsDAZN (Number templates) and  *)
(* getServiceSegmentsDAZNTimeNew (Time templates), and a live source whose  *)
(* manifest they read: it appends segments and drops the oldest. Each parse *)
(* lists the segments to download. What the source really offers is known   *)
(* here by the number of each segment, which a Time manifest does not say.  *)
EXTENDS Integers, Sequences, FiniteSets

CONSTANTS Limit,         \* $rMaxSegmentsDownload, 10
          Lead,          \* the 10 in functions.php:1015
          Durations,     \* of the audio part of a segment; they vary a little
          VideoDuration, \* of the video part; constant
          MaxSegments    \* bound: segments ever produced

ASSUME ManifestAssumption ==
  /\ Limit \in Nat \ {0} /\ Lead \in Nat \ {0}
  /\ Durations \subseteq Nat \ {0} /\ VideoDuration \in Nat \ {0}
  /\ MaxSegments \in Nat

VARIABLES
  times,    \* the times at which the audio parts produced so far begin, and the next
  head,     \* the oldest segment the manifest still has
  timeline, \* its audio SegmentTimeline: each S a duration and its repeats
  listed,   \* the segments of the last parse: their times, or their numbers
  by        \* the template it was parsed for; "none" before the first parse

vars == <<times, head, timeline, listed, by>>

Newest == Len(times) - 1
Offered == head .. Newest

-----------------------------------------------------------------------------
(* The source. The parts of segment i begin at these times.                  *)
AudioTime(i) == times[i]
VideoTime(i) == (i - 1) * VideoDuration

(* timeShiftBufferDepth in whole seconds, of segments of three seconds the    *)
(* oldest of which may be cut off.                                           *)
Depths == {3 * Cardinality(Offered) - cut : cut \in 0 .. 2}

-----------------------------------------------------------------------------
(* Not the code: of a list that is too short, the newest.                     *)
SliceNewest(list, from, length) ==
  LET start == IF Len(list) > from THEN Len(list) - from
               ELSE IF Len(list) > length THEN Len(list) - length ELSE 0
      end == IF start + length < Len(list) THEN start + length ELSE Len(list)
  IN SubSeq(list, start + 1, end)

(* array_slice($list, -$from, $length): an offset before the list is 0.       *)
Slice(list, from, length) ==
  LET start == IF Len(list) > from THEN Len(list) - from ELSE 0
      end == IF start + length < Len(list) THEN start + length ELSE Len(list)
  IN SubSeq(list, start + 1, end)

(* Not the code: the audio time is used before it is advanced.                *)
ListSAudioFirst(all, s) ==
  [audio |-> all.audio + (s.r + 1) * s.d,
   video |-> all.video + (s.r + 1) * VideoDuration,
   list  |-> all.list \o [i \in 1 .. s.r + 1 |-> [audio |-> all.audio + (i - 1) * s.d,
                                                  video |-> all.video + i * VideoDuration]]]

(* An S stands for r + 1 segments: for each both times are advanced before    *)
(* they are used, the audio's by its own d, the video's by the one d.         *)
ListS(all, s) ==
  [audio |-> all.audio + (s.r + 1) * s.d,
   video |-> all.video + (s.r + 1) * VideoDuration,
   list  |-> all.list \o [i \in 1 .. s.r + 1 |-> [audio |-> all.audio + i * s.d,
                                                  video |-> all.video + i * VideoDuration]]]

(* $rAudioStart, $rVideoStart and $rObject['segments'] after k of the S; both *)
(* times begin at the t of their timeline.                                    *)
Parsed[k \in 0 .. Len(timeline)] ==
  IF k = 0 THEN [audio |-> AudioTime(head), video |-> VideoTime(head), list |-> <<>>]
  ELSE ListS(Parsed[k - 1], timeline[k])

TimeList == Parsed[Len(timeline)].list

(* Not the code: the slice of the Number parser.                              *)
TimeWindowNewest == Slice(TimeList, Limit, Limit)

(* Ten segments from twenty before the end of the list.                       *)
TimeWindow == Slice(TimeList, Limit + Lead, Limit)

(* startNumber + depth / 3 - 2 * limit, advanced before it is used, floored;  *)
(* the slice of the last ten of ten changes nothing.                          *)
NumberWindow(depth) ==
  [k \in 1 .. Limit |-> head + depth \div 3 - 2 * Limit + k]

-----------------------------------------------------------------------------
Init ==
  /\ \E d \in Durations : times = <<0, d>> /\ timeline = <<[d |-> d, r |-> 0]>>
  /\ head = 1
  /\ listed = <<>> /\ by = "none"

(* The newest segment repeats the last S, or has an S of its own.             *)
Publish(d) ==
  /\ Newest < MaxSegments
  /\ times' = Append(times, times[Len(times)] + d)
  /\ LET last == Len(timeline)
     IN \/ timeline' = Append(timeline, [d |-> d, r |-> 0])
        \/ timeline[last].d = d /\ timeline' = [timeline EXCEPT ![last].r = @ + 1]
  /\ UNCHANGED <<head, listed, by>>

(* The oldest segment is one repeat less of the first S, or was the last of it. *)
DropOldest ==
  /\ head < Newest
  /\ head' = head + 1
  /\ timeline' = IF timeline[1].r = 0 THEN Tail(timeline)
                 ELSE [timeline EXCEPT ![1].r = @ - 1]
  /\ UNCHANGED <<times, listed, by>>

(* A channel keeps its kind of template.                                      *)
ParseTime ==
  /\ by # "Number"
  /\ by' = "Time" /\ listed' = TimeWindow
  /\ UNCHANGED <<times, head, timeline>>

ParseNumber(depth) ==
  /\ by # "Time"
  /\ by' = "Number" /\ listed' = NumberWindow(depth)
  /\ UNCHANGED <<times, head, timeline>>

Next ==
  \/ \E d \in Durations : Publish(d)
  \/ DropOldest \/ ParseTime
  \/ \E depth \in Depths : ParseNumber(depth)

Spec == Init /\ [][Next]_vars

-----------------------------------------------------------------------------
(* The segments a parse lists. A pair of times that belongs to no segment     *)
(* names none; the segment that is produced next has times already.           *)
NumbersOf(list, template) ==
  IF template = "Number" THEN {list[k] : k \in DOMAIN list}
  ELSE {i \in DOMAIN times :
          \E k \in DOMAIN list :
            list[k] = [audio |-> AudioTime(i), video |-> VideoTime(i)]}

Numbers == NumbersOf(listed, by)

(* A Time parse pairs the audio and the video part of one segment, though it *)
(* adds up durations that vary in one track and one constant in the other     *)
(* (functions.php 975-1009): as many segments as list entries, in a row.      *)
PairsMatch ==
  /\ Cardinality(Numbers) = Len(listed)
  /\ \A i, j \in Numbers : i .. j \subseteq Numbers

(* The lists move forward with the manifest, however it grows and shrinks     *)
(* (functions.php:1015): what SegmentPipeline assumes of its Window.          *)
MovesForward ==
  [][by = "Time" =>
       \A i \in Numbers, j \in Numbers' :
         (\E k \in Numbers' : i <= k) /\ (\E k \in Numbers : k <= j)]_vars

(* A Time parse of more than Limit segments, and a Number parse of 2 * Limit, *)
(* list Limit segments, all of which the manifest has: the window lies        *)
(* whole between its ends (functions.php 809, 845-859, 975-1015).             *)
ListsOffered ==
  [][(by' = "Time" /\ Cardinality(Offered) > Limit)
       \/ (by' = "Number" /\ Cardinality(Offered) >= 2 * Limit)
     => (listed' # listed => Cardinality(Numbers') = Limit /\ Numbers' \subseteq Offered)]_vars

=============================================================================
