------------------------ MODULE SegmentPipelineProofs ------------------------
(* Theorems about the worker for every window, every number of kept files,  *)
(* and every number of faults and removals.                                 *)
EXTENDS SegmentPipeline, FiniteSetTheorems, TLAPS

(* A nonempty set of naturals has a least element, the one Min chooses.     *)
LEMMA MinOfNats ==
  ASSUME NEW S \in SUBSET Nat, S # {}
  PROVE  Min(S) \in S /\ \A x \in S : Min(S) <= x
<1> DEFINE T == {0 .. n : n \in S}
<1>1. T \subseteq FiniteSubsetsOf(Nat)
  <2>1. ASSUME NEW n \in S PROVE (0 .. n) \in FiniteSubsetsOf(Nat)
    <3>1. n \in Nat
      OBVIOUS
    <3>2. IsFiniteSet(0 .. n)
      BY <3>1, FS_Interval
    <3>3. (0 .. n) \subseteq Nat
      BY <3>1
    <3> QED
      BY <3>2, <3>3 DEF FiniteSubsetsOf
  <2> QED
    BY <2>1
<1>2. T # {}
  OBVIOUS
<1>3. PICK U \in T : \A V \in T : <<V, U>> \notin StrictSubsetOrdering(Nat)
  <2> HIDE DEF T
  <2> QED
    BY <1>1, <1>2, FS_StrictSubsetOrderingWellFounded, WFMin
<1>4. PICK m \in S : U = 0 .. m
  BY <1>3
<1>5. ASSUME NEW x \in S PROVE m <= x
  <2>1. m \in Nat /\ x \in Nat
    BY <1>4
  <2>2. SUFFICES ASSUME x < m PROVE FALSE
    BY <2>1
  <2>3. (0 .. x) \subseteq (0 .. m) /\ (0 .. x) # (0 .. m)
    BY <2>1, <2>2
  <2>4. (0 .. x) \in SUBSET Nat /\ (0 .. m) \in SUBSET Nat
    BY <2>1
  <2>5. <<0 .. x, 0 .. m>> \in StrictSubsetOrdering(Nat)
    BY <2>3, <2>4 DEF StrictSubsetOrdering
  <2> QED
    BY <1>3, <1>4, <2>5
<1> QED
  BY <1>4, <1>5 DEF Min

(* Where updateSegments starts its list: a sampled slot, or 0 for none.     *)
LEMMA ListStartSampled ==
  ASSUME NEW f, NEW sample \in SUBSET Nat
  PROVE  /\ ListStart(f, sample) \in Nat
         /\ ListStart(f, sample) # 0 => ListStart(f, sample) \in sample
<1> DEFINE after == IF 0 \in sample
                      THEN {n \in sample \ {0} : f[n].mtime >= f[0].mtime}
                      ELSE sample
<1>1. after \in SUBSET Nat /\ after \subseteq sample
  OBVIOUS
<1>2. ListStart(f, sample) = IF after = {} THEN 0 ELSE Min(after)
  BY DEF ListStart
<1>3. CASE after = {}
  BY <1>2, <1>3
<1>4. CASE after # {}
  <2>1. Min(after) \in after
    BY <1>1, <1>4, MinOfNats
  <2> QED
    BY <1>1, <1>2, <1>4, <2>1
<1> QED
  BY <1>3, <1>4

(* The rank of a segment among the missing ones is less than a window.      *)
LEMMA RankBound ==
  ASSUME NEW e \in Nat, NEW segs \in SUBSET Window(e), NEW s \in segs
  PROVE  /\ Cardinality({t \in segs : t < s}) \in Nat
         /\ Cardinality({t \in segs : t < s}) <= WindowSize - 1
<1> DEFINE before == {t \in segs : t < s}
           lo == IF e < WindowSize THEN 1 ELSE e - WindowSize + 1
           hi == s - 1
<1>1. WindowSize \in Nat \ {0}
  BY PipelineAssumption
<1>2. \A t \in segs : t \in Nat /\ t <= e /\ lo <= t
  BY <1>1 DEF Window
<1>3. lo \in Int /\ hi \in Int /\ hi - lo + 1 <= WindowSize - 1
  BY <1>1, <1>2
<1>4. before \in SUBSET (lo .. hi)
  BY <1>2, <1>3
<1> HIDE DEF before, lo, hi
<1>5. /\ IsFiniteSet(lo .. hi)
      /\ Cardinality(lo .. hi) = IF lo > hi THEN 0 ELSE hi - lo + 1
  BY <1>3, FS_Interval
<1>6. Cardinality(lo .. hi) \in Nat /\ Cardinality(lo .. hi) <= WindowSize - 1
  BY <1>1, <1>3, <1>5
<1>7. IsFiniteSet(before) /\ Cardinality(before) <= Cardinality(lo .. hi)
  BY <1>4, <1>5, FS_Subset
<1>8. Cardinality(before) \in Nat
  BY <1>7, FS_CardinalityType
<1>9. Cardinality(before) <= WindowSize - 1
  BY <1>1, <1>6, <1>7, <1>8
<1> QED
  BY <1>8, <1>9 DEF before

(* What Assign, the numbering of the missing segments, does to the map.     *)
LEMMA AssignMap ==
  ASSUME NEW e \in Nat, NEW segs \in SUBSET Window(e), NEW first \in Nat,
         NEW m, DOMAIN m \subseteq Nat, m \in [DOMAIN m -> Nat],
         NEW f, f = Assign(m, first, segs)
  PROVE  /\ DOMAIN f = DOMAIN m \cup segs
         /\ DOMAIN f \subseteq Nat
         /\ f \in [DOMAIN f -> Nat]
         /\ \A s \in segs : f[s] <= first + WindowSize - 1
<1>1. \A s \in segs : /\ Cardinality({t \in segs : t < s}) \in Nat
                      /\ Cardinality({t \in segs : t < s}) <= WindowSize - 1
  BY RankBound
<1>2. segs \subseteq Nat
  BY DEF Window
<1>3. WindowSize \in Nat
  BY PipelineAssumption
<1>4. \A s \in segs :
        /\ first + Cardinality({t \in segs : t < s}) \in Nat
        /\ first + Cardinality({t \in segs : t < s}) <= first + WindowSize - 1
  BY <1>1, <1>3
<1> QED
  BY <1>2, <1>4 DEF Assign

-----------------------------------------------------------------------------
(* NoDuplicate holds because a held segment keeps its entry in the map, the *)
(* map is only cleared while the counter says that nothing is held, and the  *)
(* STOP that removes it takes the parts with it, so that nothing is muxed    *)
(* before the worker has cleaned its directories.                           *)
MapAgrees ==
  "parts" \in dirs =>
    \A n \in DOMAIN final : final[n].seg \in DOMAIN map /\ map[final[n].seg] = n

Counted == DOMAIN final # {} => 0 < rLoop

Bare ==
  pc \in {"parts", "final", "hls"} =>
    DOMAIN final = {} /\ DOMAIN map = {} /\ playlist = {}

IInv == TypeOK /\ MapAgrees /\ Counted /\ Bare /\ NoDuplicate

(* An rm -rf of video/<channel> that has begun ends without the parts, and   *)
(* the worker builds the directory again only after it has cleaned it.       *)
Tear ==
  /\ "files" \in stop => "final" \in stop
  /\ stop \cap VideoItems # {} => "rest" \in stop \/ "parts" \notin dirs
  /\ pc = "parts" => ~VideoThere /\ stop \cap VideoItems = {}

(* A new worker's variables satisfy the invariant (dazn.php:6-16).          *)
THEOREM InitIInv == Init => IInv
<1> SUFFICES ASSUME Init PROVE IInv
  OBVIOUS
<1>1. DOMAIN map = {} /\ map \in [DOMAIN map -> Nat]
  BY DEF Init, NoFiles
<1>2. DOMAIN final = {} /\ final \in [DOMAIN final -> [seg : Nat, mtime : Nat]]
  BY DEF Init, NoFiles
<1>3. NoPlayer \in [left : SUBSET Nat, last : Nat \cup {-1}]
  BY DEF NoPlayer
<1>4. TypeOK
  BY <1>1, <1>2, <1>3 DEF Init, TypeOK, CompletedBase, Rounds
<1> QED
  BY <1>1, <1>2, <1>4 DEF Init, IInv, MapAgrees, Counted, Bare, NoDuplicate

(* Every step keeps what an rm -rf leaves and has still to remove together. *)
LEMMA StepTear ==
  ASSUME Tear, [Next]_vars
  PROVE  Tear'
<1> USE DEF Tear
<1>1. CASE Clean
  <2>1. dirs' = {} /\ stop' \cap VideoItems = {}
    BY <1>1 DEF Clean
  <2>2. "files" \notin stop'
    BY <2>1 DEF VideoItems
  <2> QED
    BY <2>1, <2>2 DEF VideoThere
<1>2. CASE MakeParts \/ MakeFinal \/ Start
  <2>1. /\ stop' = stop /\ pc' # "parts"
        /\ pc = "parts" \/ ("parts" \in dirs' => "parts" \in dirs)
    BY <1>2 DEF MakeParts, MakeFinal, Start
  <2> QED
    BY <2>1
<1>3. CASE \/ ForceStopped \/ Fetch \/ DownloadAudio \/ DownloadVideo
           \/ Mux \/ UpdateSegments \/ StartPlaylist \/ ClearSegments
  <2>1. UNCHANGED <<dirs, stop>> /\ pc' # "parts"
    BY <1>3 DEF ForceStopped, Fetch, DownloadAudio, DownloadVideo, Mux, Skip, Combine, Drop,
                Visit, UpdateSegments, StartPlaylist, ClearSegments, files
  <2> QED
    BY <2>1
<1>4. CASE StopReads
  <2>1. UNCHANGED <<dirs, pc>> /\ (VideoThere => "rest" \in stop')
        /\ (~VideoThere => stop' = {"hls"}) /\ ("files" \in stop' => "final" \in stop')
    BY <1>4 DEF StopReads, VideoThere, worker, files
  <2>2. VideoThere' = VideoThere
    BY <2>1 DEF VideoThere
  <2>3. ~VideoThere => stop' \cap VideoItems = {}
    BY <2>1 DEF VideoItems
  <2> QED
    BY <2>1, <2>2, <2>3
<1>5. CASE Stop
  <2>1. /\ pc' = pc /\ dirs' \subseteq dirs /\ stop' \subseteq stop
        /\ "files" \in stop' => "final" \in stop'
        /\ "rest" \in stop /\ "rest" \notin stop' => "parts" \notin dirs'
    BY <1>5 DEF Stop, StopUnlinks, StopRemovesFinal, StopRemovesRest, StopRemovesHls, worker
  <2> QED
    BY <2>1 DEF VideoThere
<1>6. CASE PlayerEnds \/ PlayerCrashes \/ (\E n \in ffmpeg.left : Play(n)) \/ UNCHANGED vars
  <2>1. UNCHANGED <<pc, dirs, stop>>
    BY <1>6 DEF PlayerEnds, PlayerCrashes, Play, vars, worker, files
  <2> QED
    BY <2>1 DEF VideoThere
<1> QED
  BY <1>1, <1>2, <1>3, <1>4, <1>5, <1>6 DEF Next, Worker, Player

(* While a STOP is at a video directory it is not the worker's, and it does  *)
(* not become so again by what the STOP does.                                *)
LEMMA StopNotOwned ==
  ASSUME Tear, StopReads \/ Stop
  PROVE  Owned' => Owned /\ UNCHANGED <<worker, encrypted, final, now, playlist>>
<1>1. CASE StopReads
  BY <1>1 DEF StopReads, Owned, files
<1>2. CASE StopUnlinks
  <2>1. "final" \in stop'
    BY <1>2 DEF StopUnlinks, Tear
  <2> QED
    BY <2>1 DEF Owned, VideoItems
<1>3. CASE StopRemovesFinal
  <2>1. "rest" \in stop \/ "parts" \notin dirs
    BY <1>3 DEF StopRemovesFinal, Tear, VideoItems
  <2>2. "rest" \in stop' \/ "parts" \notin dirs'
    BY <1>3, <2>1 DEF StopRemovesFinal
  <2> QED
    BY <2>2 DEF Owned, VideoItems
<1>4. CASE StopRemovesRest
  BY <1>4 DEF StopRemovesRest, Owned
<1>5. CASE StopRemovesHls
  <2>1. /\ stop = {"hls"} /\ dirs' \subseteq dirs
        /\ UNCHANGED <<worker, encrypted, final, now, playlist>>
    BY <1>5 DEF StopRemovesHls
  <2> QED
    BY <2>1 DEF Owned, VideoItems
<1> QED
  BY <1>1, <1>2, <1>3, <1>4, <1>5 DEF Stop

(* A directory from which files were unlinked keeps its type.               *)
LEMMA RestrictFinal ==
  ASSUME TypeOK, NEW keep \in SUBSET DOMAIN final
  PROVE  /\ DOMAIN Restrict(final, keep) = keep
         /\ Restrict(final, keep) \in [keep -> [seg : Nat, mtime : Nat]]
         /\ \A n \in keep : Restrict(final, keep)[n] = final[n]
BY DEF TypeOK, Restrict

(* Every step of the worker, its player and a STOP keeps the invariant: one *)
(* case for each action, where the map or the files change the argument is  *)
(* that only segments without a file are numbered anew.                     *)
THEOREM StepIInv == IInv /\ [Next]_vars => IInv'
<1> SUFFICES ASSUME IInv, [Next]_vars PROVE IInv'
  OBVIOUS
<1> USE DEF IInv
<1>empty. DOMAIN NoFiles = {} /\ NoFiles \in [{} -> Nat]
          /\ NoFiles \in [{} -> [seg : Nat, mtime : Nat]]
  BY DEF NoFiles
<1>types. /\ edge \in Nat /\ rLoop \in Nat /\ now \in Nat /\ todo \subseteq Nat
          /\ rCompleted \in Nat /\ faults \in Nat /\ removals \in Nat
          /\ DOMAIN map \subseteq Nat /\ map \in [DOMAIN map -> Nat]
          /\ DOMAIN final \subseteq Nat
          /\ final \in [DOMAIN final -> [seg : Nat, mtime : Nat]]
          /\ encrypted \subseteq Nat \X Types /\ playlist \subseteq Nat
          /\ ffmpeg \in [left : SUBSET Nat, last : Nat \cup {-1}]
          /\ dirs \subseteq Whole /\ stop \subseteq VideoItems \cup {"hls"}
          /\ pc \in {"start", "parts", "final", "hls"} \cup Rounds
  BY DEF TypeOK
<1>1. CASE Clean
  <2>1. /\ DOMAIN map' = {} /\ map' \in [DOMAIN map' -> Nat]
        /\ DOMAIN final' = {} /\ final' \in [DOMAIN final' -> [seg : Nat, mtime : Nat]]
    BY <1>1, <1>empty DEF Clean
  <2>2. /\ encrypted' = {} /\ playlist' = {} /\ dirs' = {} /\ stop' \subseteq stop
        /\ pc' = "parts"
    BY <1>1 DEF Clean
  <2>3. TypeOK'
    BY <1>1, <1>types, <2>1, <2>2 DEF Clean, TypeOK
  <2> QED
    BY <2>1, <2>2, <2>3 DEF MapAgrees, Counted, Bare, NoDuplicate
<1>16. CASE MakeParts \/ MakeFinal \/ Start
  <2>1. /\ UNCHANGED <<edge, map, rLoop, todo, rCompleted, encrypted, final, now, playlist,
                       stop, ffmpeg, removals>>
        /\ pc \in {"parts", "final", "hls"} /\ dirs' \subseteq Whole
        /\ pc' \in {"final", "hls", "start", "check"}
    BY <1>16, <1>types DEF MakeParts, MakeFinal, Start, Whole
  <2>2. faults' \in Nat
    BY <1>16, <1>types DEF MakeParts, MakeFinal, Start, Fault, NoFault
  <2>3. TypeOK'
    BY <1>types, <2>1, <2>2 DEF TypeOK, Rounds
  <2>4. DOMAIN final = {} /\ DOMAIN map = {} /\ playlist = {}
    BY <2>1 DEF Bare
  <2> QED
    BY <2>1, <2>3, <2>4 DEF MapAgrees, Counted, Bare, NoDuplicate
<1>2. CASE ForceStopped
  <2>1. UNCHANGED <<map, final, dirs, rLoop, playlist>> /\ pc' = "start"
    BY <1>2 DEF ForceStopped, files
  <2>2. TypeOK'
    BY <1>2, <1>types DEF ForceStopped, files, TypeOK
  <2> QED
    BY <2>1, <2>2 DEF MapAgrees, Counted, Bare, NoDuplicate
<1>3. CASE Fetch
  <2>1. edge' \in Nat
    BY <1>3 DEF Fetch
  <2>2. UNCHANGED <<map, final, dirs, rLoop, playlist>> /\ pc' = "audio"
    BY <1>3 DEF Fetch, files
  <2>3. TypeOK'
    BY <1>3, <1>types, <2>1 DEF Fetch, files, TypeOK, Rounds
  <2> QED
    BY <2>2, <2>3 DEF MapAgrees, Counted, Bare, NoDuplicate
<1>4. CASE DownloadAudio
  <2>1. /\ DOMAIN map' \subseteq Nat /\ map' \in [DOMAIN map' -> Nat]
    BY <1>4, <1>empty, <1>types DEF DownloadAudio
  <2>2. encrypted' \subseteq Nat \X Types
    BY <1>4, <1>types DEF DownloadAudio, Download, Missing, Window, Types
  <2>3. faults' \in Nat
    BY <1>4, <1>types DEF DownloadAudio, Download, Fault, NoFault
  <2>4. UNCHANGED <<final, dirs, rLoop, playlist>> /\ pc' = "video" /\ rCompleted' = CompletedBase
    BY <1>4 DEF DownloadAudio
  <2>5. TypeOK'
    BY <1>4, <1>types, <2>1, <2>2, <2>3, <2>4 DEF DownloadAudio, TypeOK, CompletedBase, Rounds
  <2>6. MapAgrees'
    <3>1. CASE rLoop = 0
      <4>1. ~(0 < rLoop)
        BY <3>1
      <4> QED
        BY <2>4, <4>1 DEF MapAgrees, Counted
    <3>2. CASE rLoop # 0
      BY <1>4, <2>4, <3>2 DEF DownloadAudio, MapAgrees
    <3> QED
      BY <3>1, <3>2
  <2> QED
    BY <2>4, <2>5, <2>6 DEF Counted, Bare, NoDuplicate
<1>5. CASE DownloadVideo
  <2>1. Missing(map) \in SUBSET Window(edge)
    BY DEF Missing
  <2>2. /\ DOMAIN map' \subseteq Nat /\ map' \in [DOMAIN map' -> Nat]
        /\ DOMAIN map \subseteq DOMAIN map'
        /\ \A s \in DOMAIN map : s \notin Missing(map) => map'[s] = map[s]
    <3>2. CASE map' = Assign(map, rLoop, Missing(map))
      <4>1. /\ DOMAIN map' = DOMAIN map \cup Missing(map)
            /\ DOMAIN map' \subseteq Nat
            /\ map' \in [DOMAIN map' -> Nat]
        BY <1>types, <2>1, <3>2, AssignMap
      <4>2. \A s \in DOMAIN map : s \notin Missing(map) => map'[s] = map[s]
        BY <3>2 DEF Assign
      <4> QED
        BY <4>1, <4>2
    <3>3. CASE map' = map
      BY <1>types, <3>3
    <3> QED
      BY <1>5, <3>2, <3>3 DEF DownloadVideo
  <2>3. encrypted' \subseteq Nat \X Types
    BY <1>5, <1>types DEF DownloadVideo, Download, Missing, Window, Types
  <2>4. faults' \in Nat
    BY <1>5, <1>types DEF DownloadVideo, Download, Fault, NoFault
  <2>5. UNCHANGED <<final, dirs, rLoop, playlist>> /\ pc' = "process" /\ todo' = Window(edge)
    BY <1>5 DEF DownloadVideo
  <2>6. TypeOK'
    BY <1>5, <1>types, <2>2, <2>3, <2>4, <2>5 DEF DownloadVideo, TypeOK, Window, Rounds
  <2>7. "parts" \in dirs => \A n \in DOMAIN final : final[n].seg \notin Missing(map)
    BY DEF MapAgrees, Missing, Held
  <2>8. MapAgrees'
    BY <2>2, <2>5, <2>7 DEF MapAgrees
  <2> QED
    BY <2>5, <2>6, <2>8 DEF Counted, Bare, NoDuplicate
<1>6. ASSUME NEW s \in todo, Skip(s) PROVE IInv'
  <2>1. UNCHANGED <<map, final, dirs, rLoop, playlist, pc>> /\ todo' \subseteq todo
    BY <1>6 DEF Skip, files
  <2>2. TypeOK'
    BY <1>6, <1>types, <2>1 DEF Skip, files, TypeOK
  <2> QED
    BY <2>1, <2>2 DEF MapAgrees, Counted, Bare, NoDuplicate
<1>7. ASSUME NEW s \in todo, Combine(s) PROVE IInv'
  <2>1. /\ s \in Nat /\ s \in DOMAIN map /\ map[s] \in Nat /\ map[s] \notin DOMAIN final
        /\ "parts" \in dirs /\ pc = "process"
    BY <1>7, <1>types DEF Combine, CanMux, Held, Visit
  <2>2. /\ DOMAIN final' = DOMAIN final \cup {map[s]}
        /\ final' \in [DOMAIN final' -> [seg : Nat, mtime : Nat]]
        /\ final'[map[s]].seg = s
        /\ \A n \in DOMAIN final : final'[n] = final[n]
    <3>1. final' = Put(final, map[s], [seg |-> s, mtime |-> now])
      BY <1>7 DEF Combine
    <3> QED
      BY <1>types, <2>1, <3>1 DEF Put
  <2>3. /\ UNCHANGED <<pc, edge, map, dirs, playlist, stop, ffmpeg, faults, removals>>
        /\ now' \in Nat /\ encrypted' \subseteq encrypted /\ todo' \subseteq todo
        /\ rLoop' = rLoop + 1 /\ rCompleted' \in Nat
    BY <1>7, <1>types DEF Combine
  <2>4. TypeOK'
    BY <1>types, <2>1, <2>2, <2>3 DEF TypeOK
  <2>5. MapAgrees'
    BY <2>1, <2>2, <2>3 DEF MapAgrees
  <2>6. \A n \in DOMAIN final : final[n].seg # s
    BY <2>1 DEF MapAgrees
  <2>7. NoDuplicate'
    BY <2>1, <2>2, <2>6 DEF NoDuplicate
  <2> QED
    BY <1>types, <2>1, <2>3, <2>4, <2>5, <2>7 DEF Counted, Bare
<1>8. ASSUME NEW s \in todo, Drop(s) PROVE IInv'
  <2>1. /\ UNCHANGED <<map, final, dirs, rLoop, playlist, pc>>
        /\ todo' \subseteq todo /\ encrypted' \subseteq encrypted
    BY <1>8 DEF Drop
  <2>2. faults' \in Nat
    BY <1>8, <1>types DEF Drop, Fault, NoFault
  <2>3. TypeOK'
    BY <1>8, <1>types, <2>1, <2>2 DEF Drop, TypeOK
  <2> QED
    BY <2>1, <2>3 DEF MapAgrees, Counted, Bare, NoDuplicate
<1>9. CASE UpdateSegments
  <2>1. PICK sample \in Newest(final, SampleSize) :
          playlist' = IF 0 < rCompleted /\ ListStart(final, sample) # 0
                        THEN Listing(final, sample) ELSE playlist
    BY <1>9 DEF UpdateSegments
  <2>2. sample \in SUBSET Nat
    BY <1>types DEF Newest, kSubset
  <2>3. ListStart(final, sample) \in Nat
    BY <2>2, ListStartSampled
  <2>4. Listing(final, sample) \subseteq Nat
    BY <2>3, StoreAssumption DEF Listing
  <2>5. UNCHANGED <<map, final, dirs, rLoop>> /\ pc' \in {"play", "start"}
    BY <1>9 DEF UpdateSegments
  <2>6. playlist' \subseteq Nat
    BY <1>types, <2>1, <2>4
  <2>7. TypeOK'
    BY <1>9, <1>types, <2>5, <2>6 DEF UpdateSegments, TypeOK, Rounds
  <2> QED
    BY <2>5, <2>7 DEF MapAgrees, Counted, Bare, NoDuplicate
<1>10. CASE StartPlaylist
  <2>1. UNCHANGED <<map, final, dirs, rLoop, playlist>> /\ pc' = "clear"
    BY <1>10 DEF StartPlaylist, files
  <2>2. ffmpeg' \in [left : SUBSET Nat, last : Nat \cup {-1}]
    BY <1>10, <1>types DEF StartPlaylist
  <2>3. TypeOK'
    BY <1>10, <1>types, <2>2 DEF StartPlaylist, TypeOK, files, Rounds
  <2> QED
    BY <2>1, <2>3 DEF MapAgrees, Counted, Bare, NoDuplicate
<1>11. CASE ClearSegments
  <2>1. PICK keep \in SUBSET DOMAIN final : final' = Restrict(final, keep)
    BY <1>11 DEF ClearSegments, Newest, kSubset
  <2>2. /\ DOMAIN final' = keep
        /\ final' \in [DOMAIN final' -> [seg : Nat, mtime : Nat]]
        /\ \A n \in keep : final'[n] = final[n]
    BY <2>1, RestrictFinal
  <2>3. now' \in Nat
    BY <1>11, <1>types DEF ClearSegments
  <2>4. UNCHANGED <<map, dirs, rLoop, playlist>> /\ pc' = "check"
    BY <1>11 DEF ClearSegments
  <2>5. TypeOK'
    BY <1>11, <1>types, <2>2, <2>3, <2>4 DEF ClearSegments, TypeOK, Rounds
  <2>6. MapAgrees' /\ NoDuplicate'
    BY <2>2, <2>4 DEF MapAgrees, NoDuplicate
  <2> QED
    BY <2>2, <2>4, <2>5, <2>6 DEF Counted, Bare
<1>12. CASE StopReads \/ StopRemovesFinal \/ StopRemovesHls
  <2>1. /\ UNCHANGED <<worker, encrypted, final, now, playlist, ffmpeg, faults>>
        /\ dirs' \subseteq dirs /\ stop' \subseteq VideoItems \cup {"hls"} /\ removals' \in Nat
    BY <1>12, <1>types DEF StopReads, StopRemovesFinal, StopRemovesHls, files, VideoItems
  <2>2. TypeOK'
    BY <1>types, <2>1 DEF TypeOK, worker
  <2> QED
    BY <2>1, <2>2 DEF MapAgrees, Counted, Bare, NoDuplicate, worker
<1>17. CASE StopUnlinks
  <2>1. /\ DOMAIN final' = {} /\ final' \in [DOMAIN final' -> [seg : Nat, mtime : Nat]]
    BY <1>17, <1>empty DEF StopUnlinks
  <2>2. /\ UNCHANGED <<worker, dirs, encrypted, now, playlist, ffmpeg, faults, removals>>
        /\ stop' \subseteq stop
    BY <1>17 DEF StopUnlinks
  <2>3. TypeOK'
    BY <1>types, <2>1, <2>2 DEF TypeOK, worker
  <2> QED
    BY <2>1, <2>2, <2>3 DEF MapAgrees, Counted, Bare, NoDuplicate, worker
<1>18. CASE StopRemovesRest
  <2>1. /\ DOMAIN map' = {} /\ map' \in [DOMAIN map' -> Nat]
    BY <1>18, <1>empty DEF StopRemovesRest
  <2>2. /\ UNCHANGED <<pc, edge, rLoop, todo, rCompleted, final, now, ffmpeg, faults, removals>>
        /\ stop' \subseteq stop /\ dirs' = dirs \ {"parts"} /\ encrypted' = {} /\ playlist' = {}
    BY <1>18 DEF StopRemovesRest
  <2>3. TypeOK'
    BY <1>types, <2>1, <2>2 DEF TypeOK
  <2> QED
    BY <2>1, <2>2, <2>3 DEF MapAgrees, Counted, Bare, NoDuplicate
<1>13. ASSUME NEW n \in ffmpeg.left, Play(n) PROVE IInv'
  <2>1. final[n].seg \in Nat /\ ffmpeg.left \subseteq Nat
    BY <1>13, <1>types DEF Play
  <2>2. UNCHANGED <<worker, files, stop, faults, removals>>
        /\ ffmpeg' = [left |-> ffmpeg.left \ {n}, last |-> final[n].seg]
    BY <1>13 DEF Play
  <2>3. TypeOK'
    BY <1>types, <2>1, <2>2 DEF TypeOK, worker, files
  <2> QED
    BY <2>2, <2>3 DEF MapAgrees, Counted, Bare, NoDuplicate, worker, files
<1>14. CASE PlayerEnds \/ PlayerCrashes
  <2>1. NoPlayer \in [left : SUBSET Nat, last : Nat \cup {-1}]
    BY DEF NoPlayer
  <2>2. UNCHANGED <<worker, files, stop, removals>> /\ faults' \in Nat /\ ffmpeg' = NoPlayer
    BY <1>14, <1>types DEF PlayerEnds, PlayerCrashes, Fault
  <2>3. TypeOK'
    BY <1>types, <2>1, <2>2 DEF TypeOK, worker, files
  <2> QED
    BY <2>2, <2>3 DEF MapAgrees, Counted, Bare, NoDuplicate, worker, files
<1>15. CASE UNCHANGED vars
  BY <1>15 DEF vars, worker, files, TypeOK, MapAgrees, Counted, Bare, NoDuplicate
<1> QED
  BY <1>1, <1>2, <1>3, <1>4, <1>5, <1>6, <1>7, <1>8, <1>9, <1>10, <1>11, <1>12, <1>13,
     <1>14, <1>15, <1>16, <1>17, <1>18 DEF Next, Worker, Stop, Mux, Player

-----------------------------------------------------------------------------
(* The files of final/ agree with downloadMap.json in every reachable state *)
(* (functions.php:396-442, 506-525).                                        *)
THEOREM SpecIInv == Spec => []IInv
BY InitIInv, StepIInv, PTL DEF Spec

(* Every variable keeps its type, for every window and every bound.         *)
THEOREM SpecTypeOK == Spec => []TypeOK
BY SpecIInv, PTL DEF IInv

(* No segment is ever in two files of final/, for every window, every       *)
(* number of kept files and however many downloads, muxes, players and      *)
(* directories are lost: the files agree with downloadMap.json.             *)
THEOREM SpecNoDuplicate == Spec => []NoDuplicate
<1>1. IInv => NoDuplicate
  BY DEF IInv
<1> QED
  BY <1>1, SpecIInv, PTL

-----------------------------------------------------------------------------
(* The numbers in use stay within a window of the counter: when the mux loop *)
(* runs, the numbers given out this round are still within reach of $rLoop,  *)
(* and each muxed segment moves $rLoop up by one.                            *)
GivenOut ==
  pc = "process" /\ "parts" \in dirs =>
    \A s \in todo \cap DOMAIN map : map[s] <= rLoop + WindowSize - 1

LagInv == IInv /\ NumberingLag /\ GivenOut

(* A new worker has no files and no numbers given out.                      *)
THEOREM InitLagInv == Init => LagInv
<1> SUFFICES ASSUME Init PROVE LagInv
  OBVIOUS
<1>1. DOMAIN map = {} /\ DOMAIN final = {} /\ pc = "start"
  BY DEF Init, NoFiles
<1> QED
  BY <1>1, InitIInv DEF LagInv, NumberingLag, GivenOut

(* Every step keeps the numbers in use and those given out near the counter *)
(* (functions.php:402-442, 522-525).                                        *)
THEOREM StepLagInv == LagInv /\ [Next]_vars => LagInv'
<1> SUFFICES ASSUME LagInv, [Next]_vars PROVE NumberingLag' /\ GivenOut'
  BY StepIInv DEF LagInv
<1> USE DEF LagInv
<1>a. /\ edge \in Nat /\ rLoop \in Nat /\ DOMAIN final \subseteq Nat /\ todo \subseteq Nat
      /\ DOMAIN map \subseteq Nat /\ map \in [DOMAIN map -> Nat]
      /\ WindowSize \in Nat \ {0}
  BY PipelineAssumption DEF IInv, TypeOK
<1>empty. DOMAIN NoFiles = {}
  BY DEF NoFiles
<1>1. CASE Clean \/ MakeParts \/ MakeFinal \/ Start \/ ForceStopped \/ Fetch \/ DownloadAudio
  <2>1. /\ DOMAIN final' \subseteq DOMAIN final /\ rLoop' = rLoop /\ pc' # "process"
    BY <1>1, <1>empty DEF Clean, MakeParts, MakeFinal, Start, ForceStopped, Fetch,
                          DownloadAudio, files
  <2> QED
    BY <2>1 DEF NumberingLag, GivenOut
<1>2. CASE StopReads \/ Stop
  <2>1. /\ UNCHANGED <<pc, rLoop, todo>> /\ dirs' \subseteq dirs
        /\ map' = map \/ DOMAIN map' = {}
        /\ DOMAIN final' \subseteq DOMAIN final
    BY <1>2, <1>empty DEF StopReads, Stop, StopUnlinks, StopRemovesFinal, StopRemovesRest,
                          StopRemovesHls, worker, files
  <2> QED
    BY <2>1 DEF NumberingLag, GivenOut
<1>4. CASE DownloadVideo
  <2>1. Missing(map) \in SUBSET Window(edge)
    BY DEF Missing
  <2>2. CASE "parts" \in dirs
    <3>1. map' = Assign(map, rLoop, Missing(map)) /\ todo' = Window(edge)
          /\ UNCHANGED <<rLoop, final, dirs>>
      BY <1>4, <2>2 DEF DownloadVideo, VideoThere
    <3>2. \A s \in Missing(map) : map'[s] <= rLoop + WindowSize - 1
      BY <1>a, <2>1, <3>1, AssignMap
    <3>3. ASSUME NEW s \in Window(edge), s \notin Missing(map)
          PROVE  s \in DOMAIN map /\ map'[s] = map[s] /\ map[s] \in DOMAIN final
      BY <3>1, <3>3 DEF Missing, Held, Assign
    <3>4. ASSUME NEW s \in Window(edge), s \notin Missing(map)
          PROVE  map'[s] <= rLoop + WindowSize - 1
      BY <1>a, <3>3, <3>4 DEF NumberingLag
    <3> QED
      BY <3>1, <3>2, <3>4 DEF NumberingLag, GivenOut
  <2>3. CASE "parts" \notin dirs
    BY <1>4, <2>3 DEF DownloadVideo, NumberingLag, GivenOut
  <2> QED
    BY <2>2, <2>3
<1>5. ASSUME NEW s \in todo, Skip(s) \/ Drop(s)
      PROVE  NumberingLag' /\ GivenOut'
  BY <1>5 DEF Skip, Drop, NumberingLag, GivenOut, files
<1>6. ASSUME NEW s \in todo, Combine(s)
      PROVE  NumberingLag' /\ GivenOut'
  <2>1. /\ s \in DOMAIN map /\ map[s] \in Nat /\ map[s] <= rLoop + WindowSize - 1
        /\ rLoop' = rLoop + 1 /\ todo' \subseteq todo
        /\ UNCHANGED <<map, pc, dirs>>
    BY <1>a, <1>6 DEF Combine, CanMux, Visit, GivenOut
  <2>2. DOMAIN final' = DOMAIN final \cup {map[s]}
    BY <1>6 DEF Combine, Put
  <2>3. NumberingLag'
    BY <1>a, <2>1, <2>2 DEF NumberingLag
  <2>4. GivenOut'
    BY <1>a, <2>1 DEF GivenOut
  <2> QED
    BY <2>3, <2>4
<1>7. CASE UpdateSegments \/ StartPlaylist
  BY <1>7 DEF UpdateSegments, StartPlaylist, NumberingLag, GivenOut, files
<1>8. CASE ClearSegments
  <2>1. DOMAIN final' \subseteq DOMAIN final
    BY <1>8 DEF ClearSegments, Newest, kSubset, Restrict
  <2> QED
    BY <1>8, <2>1 DEF ClearSegments, NumberingLag, GivenOut
<1>9. CASE PlayerEnds \/ PlayerCrashes \/ (\E n \in ffmpeg.left : Play(n)) \/ UNCHANGED vars
  BY <1>9 DEF PlayerEnds, PlayerCrashes, Play, vars, worker, files, NumberingLag, GivenOut
<1> QED
  BY <1>1, <1>2, <1>4, <1>5, <1>6, <1>7, <1>8, <1>9 DEF Next, Worker, Mux, Player

(* A slot in use is never a window or more above the counter, for every     *)
(* window and however many segments are lost: what the counter lags behind  *)
(* by does not add up from round to round.                                  *)
THEOREM SpecNumberingLag == Spec => []NumberingLag
<1>1. LagInv => NumberingLag
  BY DEF LagInv
<1> QED
  BY <1>1, InitLagInv, StepLagInv, PTL DEF Spec

-----------------------------------------------------------------------------
(* The store is bounded because a round adds one file at most for each       *)
(* segment of its window, and clearing comes before the next round.          *)
Room ==
  IF pc \in {"check", "audio", "video"} THEN MaxSegments
  ELSE MaxSegments + WindowSize - (IF pc = "process" THEN Cardinality(todo) ELSE 0)

StoreInv ==
  /\ TypeOK
  /\ IsFiniteSet(DOMAIN final) /\ IsFiniteSet(todo)
  /\ Cardinality(DOMAIN final) <= Room

(* A manifest's window has WindowSize segments at most.                     *)
LEMMA WindowBound ==
  ASSUME NEW e \in Nat
  PROVE  IsFiniteSet(Window(e)) /\ Cardinality(Window(e)) <= WindowSize
<1> DEFINE lo == IF e < WindowSize THEN 1 ELSE e - WindowSize + 1
<1>1. WindowSize \in Nat \ {0}
  BY PipelineAssumption
<1>2. lo \in Int /\ e \in Int /\ e - lo + 1 <= WindowSize
  BY <1>1
<1>3. Window(e) \in SUBSET (lo .. e)
  BY <1>1 DEF Window
<1> HIDE DEF lo
<1>4. /\ IsFiniteSet(lo .. e)
      /\ Cardinality(lo .. e) = IF lo > e THEN 0 ELSE e - lo + 1
  BY <1>2, FS_Interval
<1>5. IsFiniteSet(Window(e)) /\ Cardinality(Window(e)) <= Cardinality(lo .. e)
  BY <1>3, <1>4, FS_Subset
<1>6. Cardinality(Window(e)) \in Nat
  BY <1>5, FS_CardinalityType
<1> QED
  BY <1>1, <1>2, <1>4, <1>5, <1>6

(* Slicing off the newest files keeps as many as asked for at most.         *)
LEMMA NewestBound ==
  ASSUME NEW f, IsFiniteSet(DOMAIN f), NEW n \in Nat, NEW keep \in Newest(f, n)
  PROVE  /\ keep \subseteq DOMAIN f
         /\ IsFiniteSet(keep)
         /\ Cardinality(keep) <= n
<1>1. Cardinality(DOMAIN f) \in Nat
  BY FS_CardinalityType
<1>2. Min({n, Cardinality(DOMAIN f)}) <= n
  <2>1. {n, Cardinality(DOMAIN f)} \in SUBSET Nat /\ {n, Cardinality(DOMAIN f)} # {}
    BY <1>1
  <2> QED
    BY <2>1, MinOfNats
<1>3. keep \in SUBSET DOMAIN f /\ Cardinality(keep) = Min({n, Cardinality(DOMAIN f)})
  BY DEF Newest, kSubset
<1> QED
  BY <1>2, <1>3, FS_Subset

(* Every step keeps the files within the room of its stage: muxing a segment *)
(* (functions.php:508-525) takes the room that its visit frees.              *)
THEOREM StepStoreInv == IInv /\ StoreInv /\ [Next]_vars => StoreInv'
<1> SUFFICES ASSUME IInv, StoreInv, [Next]_vars
             PROVE  /\ IsFiniteSet(DOMAIN final') /\ IsFiniteSet(todo')
                    /\ Cardinality(DOMAIN final') <= Room'
  BY StepIInv DEF StoreInv, IInv
<1>a. /\ WindowSize \in Nat \ {0} /\ MaxSegments \in Nat \ {0}
      /\ IsFiniteSet(DOMAIN final) /\ IsFiniteSet(todo)
      /\ Cardinality(DOMAIN final) \in Nat /\ Cardinality(todo) \in Nat
      /\ Cardinality(DOMAIN final) <= Room
      /\ edge \in Nat
  BY PipelineAssumption, StoreAssumption, FS_CardinalityType DEF StoreInv, TypeOK
<1>empty. IsFiniteSet(DOMAIN NoFiles) /\ Cardinality(DOMAIN NoFiles) = 0
  BY FS_EmptySet DEF NoFiles
<1>1. CASE Clean \/ MakeParts \/ MakeFinal \/ Start
  <2>1. /\ UNCHANGED todo /\ (final' = NoFiles \/ final' = final)
        /\ pc \in {"start", "parts", "final", "hls"}
        /\ pc' \in {"start", "parts", "final", "hls", "check"}
    BY <1>1 DEF Clean, MakeParts, MakeFinal, Start
  <2>2. pc' = "check" => final' = final /\ DOMAIN final = {}
    BY <1>1 DEF Clean, MakeParts, MakeFinal, Start, IInv, Bare
  <2>3. pc' = "check" => Cardinality(DOMAIN final') = 0 /\ IsFiniteSet(DOMAIN final')
    BY <2>2, FS_EmptySet
  <2> QED
    BY <1>a, <1>empty, <2>1, <2>3 DEF Room
<1>2. CASE StopReads \/ Stop
  <2>1. UNCHANGED <<todo, pc>> /\ (final' = NoFiles \/ final' = final)
    BY <1>2 DEF StopReads, Stop, StopUnlinks, StopRemovesFinal, StopRemovesRest,
                StopRemovesHls, worker, files
  <2> QED
    BY <1>a, <1>empty, <2>1 DEF Room
<1>3. CASE ForceStopped \/ Fetch \/ DownloadAudio
  <2>1. /\ UNCHANGED <<todo, final>> /\ pc \in {"check", "audio"}
        /\ pc' \in {"start", "audio", "video"}
    BY <1>3 DEF ForceStopped, Fetch, DownloadAudio, files
  <2> QED
    BY <1>a, <2>1 DEF Room
<1>4. CASE DownloadVideo
  <2>1. pc = "video" /\ pc' = "process" /\ todo' = Window(edge) /\ UNCHANGED final
    BY <1>4 DEF DownloadVideo
  <2>2. IsFiniteSet(todo') /\ Cardinality(todo') <= WindowSize
    BY <1>a, <2>1, WindowBound
  <2>3. Cardinality(todo') \in Nat
    BY <2>2, FS_CardinalityType
  <2> QED
    BY <1>a, <2>1, <2>2, <2>3 DEF Room
<1>5. ASSUME NEW s \in todo, Skip(s) \/ Drop(s) \/ Combine(s)
      PROVE  /\ IsFiniteSet(DOMAIN final') /\ IsFiniteSet(todo')
             /\ Cardinality(DOMAIN final') <= Room'
  <2>1. pc = "process" /\ pc' = "process" /\ todo' = todo \ {s}
    BY <1>5 DEF Skip, Drop, Combine, Visit
  <2>2. IsFiniteSet(todo') /\ Cardinality(todo') = Cardinality(todo) - 1
    BY <1>a, <2>1, FS_RemoveElement
  <2>3. DOMAIN final' = DOMAIN final \/ DOMAIN final' = DOMAIN final \cup {map[s]}
    BY <1>5 DEF Skip, Drop, Combine, Put, files
  <2>4. /\ IsFiniteSet(DOMAIN final') /\ Cardinality(DOMAIN final') \in Nat
        /\ Cardinality(DOMAIN final') <= Cardinality(DOMAIN final) + 1
    <3>1. CASE DOMAIN final' = DOMAIN final
      BY <1>a, <3>1
    <3>2. CASE DOMAIN final' = DOMAIN final \cup {map[s]}
      <4>1. /\ IsFiniteSet(DOMAIN final')
            /\ Cardinality(DOMAIN final') =
                 IF map[s] \in DOMAIN final THEN Cardinality(DOMAIN final)
                                           ELSE Cardinality(DOMAIN final) + 1
        BY <1>a, <3>2, FS_AddElement
      <4> QED
        BY <1>a, <4>1
    <3> QED
      BY <2>3, <3>1, <3>2
  <2>5. Room = MaxSegments + WindowSize - Cardinality(todo)
        /\ Room' = MaxSegments + WindowSize - Cardinality(todo')
    BY <2>1 DEF Room
  <2> QED
    BY <1>a, <2>2, <2>4, <2>5
<1>6. CASE UpdateSegments
  <2>1. pc = "process" /\ todo = {} /\ UNCHANGED <<todo, final>> /\ pc' \in {"play", "start"}
    BY <1>6 DEF UpdateSegments
  <2>2. Room = MaxSegments + WindowSize - Cardinality(todo) /\ Room' = MaxSegments + WindowSize
    BY <1>a, <2>1 DEF Room
  <2> QED
    BY <1>a, <2>1, <2>2
<1>7. CASE StartPlaylist
  <2>1. pc = "play" /\ pc' = "clear" /\ UNCHANGED <<todo, final>>
    BY <1>7 DEF StartPlaylist, files
  <2> QED
    BY <1>a, <2>1 DEF Room
<1>8. CASE ClearSegments
  <2>1. PICK keep \in Newest(final, MaxSegments) : final' = Restrict(final, keep)
    BY <1>8 DEF ClearSegments
  <2>2. DOMAIN final' = keep
    BY <2>1 DEF Restrict
  <2>3. IsFiniteSet(keep) /\ Cardinality(keep) <= MaxSegments
    BY <1>a, NewestBound
  <2>4. pc' = "check" /\ UNCHANGED todo
    BY <1>8 DEF ClearSegments
  <2> QED
    BY <1>a, <2>2, <2>3, <2>4 DEF Room
<1>9. CASE PlayerEnds \/ PlayerCrashes \/ (\E n \in ffmpeg.left : Play(n)) \/ UNCHANGED vars
  <2>1. UNCHANGED <<pc, todo, final>>
    BY <1>9 DEF PlayerEnds, PlayerCrashes, Play, vars, worker, files
  <2> QED
    BY <1>a, <2>1 DEF Room
<1> QED
  BY <1>1, <1>2, <1>3, <1>4, <1>5, <1>6, <1>7, <1>8, <1>9 DEF Next, Worker, Mux, Player

(* An empty directory is within its room.                                   *)
LEMMA InitStoreInv == Init => StoreInv
<1> SUFFICES ASSUME Init PROVE StoreInv
  OBVIOUS
<1>1. DOMAIN final = {} /\ todo = {} /\ pc = "start"
  BY DEF Init, NoFiles
<1>2. TypeOK
  BY InitIInv DEF IInv
<1> QED
  BY <1>1, <1>2, FS_EmptySet, PipelineAssumption, StoreAssumption DEF StoreInv, Room

(* final/ never holds more than the kept files and one window's new ones,   *)
(* for every number of kept files and every window (functions.php:238-257). *)
THEOREM SpecStoreBounded == Spec => []StoreBounded
<1>1. StoreInv => StoreBounded
  <2> SUFFICES ASSUME StoreInv PROVE StoreBounded
    OBVIOUS
  <2>1. /\ WindowSize \in Nat /\ MaxSegments \in Nat
        /\ Cardinality(DOMAIN final) \in Nat /\ Cardinality(todo) \in Nat
        /\ Cardinality(DOMAIN final) <= Room
    BY PipelineAssumption, StoreAssumption, FS_CardinalityType DEF StoreInv
  <2> QED
    BY <2>1 DEF Room, StoreBounded
<1> QED
  BY InitStoreInv, <1>1, SpecIInv, StepStoreInv, PTL DEF Spec

-----------------------------------------------------------------------------
(* A player is started on a file that is there because slot 0, which         *)
(* updateSegments takes for "not set yet", is never younger than another:    *)
(* only the first file of an empty directory gets number 0.                  *)
ZeroOldest ==
  Owned =>
    /\ \A n \in DOMAIN final : final[n].mtime <= now
    /\ 0 \in DOMAIN final => \A n \in DOMAIN final : final[0].mtime <= final[n].mtime

ZeroFirst ==
  Owned /\ pc = "process" =>
    \A s \in todo : s \in DOMAIN map /\ map[s] = 0 /\ 0 \notin DOMAIN final
      => DOMAIN final = {} /\ \A t \in todo : s <= t

Listed == Owned /\ playlist # {} => \E n \in DOMAIN final : n # 0

Headed == Owned /\ pc = "play" /\ playlist # {} => Min(playlist) \in DOMAIN final

StartInv == Tear /\ ZeroOldest /\ ZeroFirst /\ Listed /\ Headed

(* A sample of two files or more is not slot 0 alone unless final/ is.       *)
SlicesTwo == MaxSegments >= 2 /\ SampleSize >= 2

(* A slice of two or more is empty or a single file only if all there is is. *)
LEMMA NewestSize ==
  ASSUME NEW f, IsFiniteSet(DOMAIN f), NEW n \in Nat, n >= 2, NEW keep \in Newest(f, n)
  PROVE  /\ keep \subseteq DOMAIN f
         /\ keep = {} => DOMAIN f = {}
         /\ \A k : keep = {k} => DOMAIN f = {k}
<1>1. Cardinality(DOMAIN f) \in Nat
  BY FS_CardinalityType
<1>2. Min({n, Cardinality(DOMAIN f)}) \in {n, Cardinality(DOMAIN f)}
  <2>1. {n, Cardinality(DOMAIN f)} \in SUBSET Nat /\ {n, Cardinality(DOMAIN f)} # {}
    BY <1>1
  <2> QED
    BY <2>1, MinOfNats
<1>3. keep \in SUBSET DOMAIN f /\ Cardinality(keep) = Min({n, Cardinality(DOMAIN f)})
  BY DEF Newest, kSubset
<1>4. ASSUME keep = {} PROVE DOMAIN f = {}
  <2>1. Cardinality(keep) = 0
    BY <1>4, FS_EmptySet
  <2>2. Cardinality(DOMAIN f) = 0
    BY <1>2, <1>3, <2>1
  <2> QED
    BY <2>2, FS_EmptySet
<1>5. ASSUME NEW k, keep = {k} PROVE DOMAIN f = {k}
  <2>1. Cardinality(keep) = 1
    BY <1>5, FS_Singleton
  <2>2. Cardinality(DOMAIN f) = 1
    BY <1>2, <1>3, <2>1
  <2>3. PICK x : DOMAIN f = {x}
    BY <2>2, FS_Singleton
  <2> QED
    BY <1>3, <1>5, <2>3
<1> QED
  BY <1>3, <1>4, <1>5

(* No list is started only when final/ holds slot 0 at most.                 *)
LEMMA NoListStart ==
  ASSUME TypeOK, ZeroOldest, Owned, IsFiniteSet(DOMAIN final), SlicesTwo,
         NEW sample \in Newest(final, SampleSize), ListStart(final, sample) = 0
  PROVE  DOMAIN final \subseteq {0}
<1> DEFINE after == IF 0 \in sample
                      THEN {n \in sample \ {0} : final[n].mtime >= final[0].mtime}
                      ELSE sample
<1>1. SampleSize \in Nat
  BY StoreAssumption
<1>2. /\ sample \subseteq DOMAIN final
      /\ sample = {} => DOMAIN final = {}
      /\ \A k : sample = {k} => DOMAIN final = {k}
  BY <1>1, NewestSize DEF SlicesTwo
<1>3. sample \in SUBSET Nat
  BY <1>2 DEF TypeOK
<1>4. after \in SUBSET Nat /\ 0 \notin after
  BY <1>3
<1>5. ListStart(final, sample) = IF after = {} THEN 0 ELSE Min(after)
  BY DEF ListStart
<1>6. after = {}
  <2>1. SUFFICES ASSUME after # {} PROVE FALSE
    OBVIOUS
  <2>2. Min(after) \in after
    BY <1>4, <2>1, MinOfNats
  <2> QED
    BY <1>4, <1>5, <2>1, <2>2
<1>7. CASE 0 \in sample
  <2>1. \A n \in sample : final[n].mtime >= final[0].mtime
    BY <1>2, <1>7 DEF ZeroOldest, TypeOK
  <2>2. sample = {0}
    BY <1>6, <1>7, <2>1
  <2> QED
    BY <1>2, <2>2
<1>8. CASE 0 \notin sample
  BY <1>2, <1>6, <1>8
<1> QED
  BY <1>7, <1>8

(* A list that is started begins with a sampled file.                        *)
LEMMA ListingHead ==
  ASSUME NEW f, DOMAIN f \subseteq Nat, NEW sample \in SUBSET DOMAIN f,
         ListStart(f, sample) # 0
  PROVE  /\ Min(Listing(f, sample)) = ListStart(f, sample)
         /\ ListStart(f, sample) \in DOMAIN f
<1> DEFINE start == ListStart(f, sample)
           list == Listing(f, sample)
<1>1. start \in Nat /\ start \in DOMAIN f
  BY ListStartSampled
<1>2. list = {n \in start .. start + ListSize : n \in DOMAIN f \/ Max(sample) < n}
  BY DEF Listing
<1>3. ListSize \in Nat
  BY StoreAssumption
<1> HIDE DEF start, list
<1>4. start \in list /\ list \subseteq Nat /\ \A n \in list : start <= n
  BY <1>1, <1>2, <1>3
<1>5. Min(list) \in list /\ \A n \in list : Min(list) <= n
  BY <1>4, MinOfNats
<1>6. Min(list) = start
  <2>1. Min(list) <= start /\ start <= Min(list)
    BY <1>4, <1>5
  <2>2. start \in Nat /\ Min(list) \in Nat
    BY <1>4, <1>5
  <2> QED
    BY <2>1, <2>2
<1> QED
  BY <1>1, <1>6 DEF start, list

(* Every step keeps slot 0 among the oldest and the list on its file.        *)
LEMMA StepStartInv ==
  ASSUME SlicesTwo, IInv, StoreInv, StartInv, [Next]_vars
  PROVE  StartInv'
<1> USE DEF StartInv
<1>a. /\ rLoop \in Nat /\ now \in Nat /\ todo \subseteq Nat /\ edge \in Nat
      /\ DOMAIN final \subseteq Nat /\ final \in [DOMAIN final -> [seg : Nat, mtime : Nat]]
  BY DEF IInv, TypeOK
<1>tear. Tear'
  BY StepTear
<1>1. CASE Clean \/ MakeParts \/ MakeFinal \/ Start
  <2>1. /\ DOMAIN final' = {} /\ playlist' = {}
        /\ pc' \in {"parts", "final", "hls", "start", "check"}
    BY <1>1 DEF Clean, MakeParts, MakeFinal, Start, NoFiles, IInv, Bare
  <2> QED
    BY <1>tear, <2>1 DEF ZeroOldest, ZeroFirst, Listed, Headed
<1>2. CASE StopReads \/ Stop
  <2>1. Owned' => Owned /\ UNCHANGED <<worker, encrypted, final, now, playlist>>
    BY <1>2, StopNotOwned
  <2> QED
    BY <1>tear, <2>1 DEF ZeroOldest, ZeroFirst, Listed, Headed, worker
<1>3. CASE ForceStopped \/ Fetch \/ DownloadAudio \/ StartPlaylist
  <2>1. /\ UNCHANGED <<final, now, playlist, dirs, stop>>
        /\ pc' \in {"start", "audio", "video", "clear"}
    BY <1>3 DEF ForceStopped, Fetch, DownloadAudio, StartPlaylist, files
  <2> QED
    BY <1>tear, <2>1 DEF ZeroOldest, ZeroFirst, Listed, Headed, Owned
<1>4. CASE DownloadVideo
  <2>1. /\ UNCHANGED <<final, now, playlist, dirs, stop>> /\ pc' = "process"
        /\ todo' = Window(edge)
    BY <1>4 DEF DownloadVideo
  <2>2. ZeroFirst'
    <3> SUFFICES ASSUME NEW s \in todo', Owned, s \in DOMAIN map', map'[s] = 0,
                        0 \notin DOMAIN final
                 PROVE  DOMAIN final = {} /\ \A t \in todo' : s <= t
      BY <2>1 DEF ZeroFirst, Owned
    <3>1. map' = Assign(map, rLoop, Missing(map)) /\ s \in Window(edge)
      BY <1>4, <2>1 DEF DownloadVideo, Owned, VideoThere
    <3>2. s \in Missing(map)
      BY <3>1 DEF Missing, Held, Assign
    <3>3. Missing(map) \in SUBSET Window(edge)
      BY DEF Missing
    <3> DEFINE before == {t \in Missing(map) : t < s}
    <3>4. rLoop + Cardinality(before) = 0
      BY <3>1, <3>2 DEF Assign
    <3>5. Cardinality(before) \in Nat
      BY <1>a, <3>2, <3>3, RankBound
    <3>6. rLoop = 0 /\ Cardinality(before) = 0
      BY <1>a, <3>4, <3>5
    <3>7. DOMAIN final = {}
      <4>1. ~(0 < rLoop)
        BY <3>6
      <4> QED
        BY <4>1 DEF IInv, Counted
    <3>8. Missing(map) = Window(edge)
      BY <3>7 DEF Missing, Held
    <3>9. before = {}
      <4>1. IsFiniteSet(Window(edge))
        BY <1>a, WindowBound
      <4>2. IsFiniteSet(before)
        BY <3>3, <4>1, FS_Subset
      <4> QED
        BY <3>6, <4>2, FS_EmptySet
    <3>10. \A t \in Window(edge) : t \in Nat
      BY DEF Window
    <3> QED
      BY <2>1, <3>1, <3>7, <3>8, <3>9, <3>10
  <2> QED
    BY <1>tear, <2>1, <2>2 DEF ZeroOldest, Listed, Headed, Owned
<1>5. ASSUME NEW s \in todo, Skip(s) \/ Drop(s)
      PROVE  StartInv'
  <2>1. /\ UNCHANGED <<final, now, playlist, dirs, stop, map>>
        /\ pc = "process" /\ pc' = "process" /\ todo' = todo \ {s}
    BY <1>5 DEF Skip, Drop, Visit, files
  <2> QED
    BY <1>tear, <2>1 DEF ZeroOldest, ZeroFirst, Listed, Headed, Owned
<1>6. ASSUME NEW s \in todo, Combine(s)
      PROVE  StartInv'
  <2>1. /\ UNCHANGED <<playlist, dirs, stop, map>> /\ pc = "process" /\ pc' = "process"
        /\ todo' = todo \ {s} /\ (\A t \in todo : s <= t)
        /\ s \in DOMAIN map /\ map[s] \notin DOMAIN final
        /\ final' = Put(final, map[s], [seg |-> s, mtime |-> now])
        /\ now' \in {now, now + 1}
    BY <1>6 DEF Combine, CanMux, Visit, Held
  <2>own. Owned' = Owned
    BY <2>1 DEF Owned
  <2> DEFINE n == map[s]
  <2>2. /\ DOMAIN final' = DOMAIN final \cup {n}
        /\ final'[n].mtime = now
        /\ \A k \in DOMAIN final : final'[k] = final[k]
    BY <2>1 DEF Put
  <2>3. ZeroOldest'
    <3> SUFFICES ASSUME Owned
                 PROVE  /\ \A k \in DOMAIN final' : final'[k].mtime <= now'
                        /\ 0 \in DOMAIN final' =>
                             \A k \in DOMAIN final' : final'[0].mtime <= final'[k].mtime
      BY <2>own DEF ZeroOldest
    <3>1. \A k \in DOMAIN final' : final'[k].mtime <= now'
      BY <1>a, <2>1, <2>2 DEF ZeroOldest
    <3>2. CASE n = 0
      <4>1. DOMAIN final' = {0}
        BY <2>1, <2>2, <3>2 DEF ZeroFirst
      <4> QED
        BY <1>a, <2>2, <3>1, <3>2, <4>1
    <3>3. CASE n # 0
      BY <1>a, <2>2, <3>1, <3>3 DEF ZeroOldest
    <3> QED
      BY <3>2, <3>3
  <2>4. ZeroFirst'
    <3> SUFFICES ASSUME Owned, NEW t \in todo', t \in DOMAIN map, map[t] = 0,
                        0 \notin DOMAIN final'
                 PROVE  FALSE
      BY <2>1, <2>own DEF ZeroFirst
    <3>1. t \in todo /\ t # s /\ 0 \notin DOMAIN final
      BY <2>1, <2>2
    <3>2. t <= s
      BY <2>1, <3>1 DEF ZeroFirst
    <3> QED
      BY <1>a, <2>1, <3>1, <3>2
  <2>5. Listed'
    BY <2>1, <2>2, <2>own DEF Listed
  <2> QED
    BY <1>tear, <2>1, <2>3, <2>4, <2>5 DEF Headed
<1>7. CASE UpdateSegments
  <2>1. UNCHANGED <<final, now, dirs, stop>> /\ pc' \in {"play", "start"}
    BY <1>7 DEF UpdateSegments
  <2>2. ZeroOldest' /\ ZeroFirst' /\ Owned' = Owned
    BY <2>1 DEF ZeroOldest, ZeroFirst, Owned
  <2>3. PICK sample \in Newest(final, SampleSize) :
          playlist' = IF 0 < rCompleted /\ ListStart(final, sample) # 0
                        THEN Listing(final, sample) ELSE playlist
    BY <1>7 DEF UpdateSegments
  <2>4. sample \in SUBSET DOMAIN final
    BY DEF Newest, kSubset
  <2>5. CASE ~(0 < rCompleted)
    <3>1. playlist' = playlist /\ pc' = "start"
      BY <1>7, <2>3, <2>5 DEF UpdateSegments
    <3> QED
      BY <1>tear, <2>1, <2>2, <3>1 DEF Listed, Headed
  <2>6. CASE 0 < rCompleted /\ ListStart(final, sample) # 0
    <3>1. playlist' = Listing(final, sample)
      BY <2>3, <2>6
    <3>2. /\ Min(playlist') = ListStart(final, sample)
          /\ ListStart(final, sample) \in DOMAIN final
      BY <1>a, <2>4, <2>6, <3>1, ListingHead
    <3> QED
      BY <1>tear, <2>1, <2>2, <2>6, <3>2 DEF Listed, Headed
  <2>7. CASE 0 < rCompleted /\ ListStart(final, sample) = 0
    <3>1. Owned => DOMAIN final \subseteq {0}
      BY <2>7, NoListStart DEF IInv, StoreInv
    <3>2. Owned => playlist' = {}
      BY <2>3, <2>7, <3>1 DEF Listed
    <3> QED
      BY <1>tear, <2>2, <3>2 DEF Listed, Headed
  <2> QED
    BY <2>5, <2>6, <2>7
<1>8. CASE ClearSegments
  <2>1. PICK keep \in Newest(final, MaxSegments) : final' = Restrict(final, keep)
    BY <1>8 DEF ClearSegments
  <2>2. /\ keep \subseteq DOMAIN final
        /\ keep = {} => DOMAIN final = {}
        /\ \A k : keep = {k} => DOMAIN final = {k}
    BY StoreAssumption, NewestSize DEF StoreInv, SlicesTwo
  <2>3. DOMAIN final' = keep /\ \A n \in keep : final'[n] = final[n]
    BY <2>1 DEF Restrict
  <2>4. /\ now' \in {now, now + 1} /\ pc' = "check"
        /\ UNCHANGED <<playlist, dirs, stop>> /\ Owned' = Owned
    BY <1>8 DEF ClearSegments, Owned
  <2>5. \A n \in DOMAIN final : final[n].mtime \in Nat
    BY <1>a
  <2>6. Owned => \A n \in DOMAIN final : final[n].mtime <= now'
    BY <1>a, <2>4, <2>5 DEF ZeroOldest
  <2>7. ZeroOldest'
    BY <2>2, <2>3, <2>4, <2>6 DEF ZeroOldest
  <2>8. Listed'
    <3> SUFFICES ASSUME Owned, playlist # {} PROVE \E n \in keep : n # 0
      BY <2>3, <2>4 DEF Listed
    <3>1. PICK n \in DOMAIN final : n # 0
      BY DEF Listed
    <3> QED
      BY <2>2, <3>1
  <2> QED
    BY <1>tear, <2>4, <2>7, <2>8 DEF ZeroFirst, Headed
<1>9. CASE PlayerEnds \/ PlayerCrashes \/ (\E n \in ffmpeg.left : Play(n)) \/ UNCHANGED vars
  <2>1. UNCHANGED <<worker, files, stop>>
    BY <1>9 DEF PlayerEnds, PlayerCrashes, Play, vars
  <2> QED
    BY <1>tear, <2>1 DEF ZeroOldest, ZeroFirst, Listed, Headed, Owned, worker, files
<1> QED
  BY <1>1, <1>2, <1>3, <1>4, <1>5, <1>6, <1>7, <1>8, <1>9 DEF Next, Worker, Mux, Player

(* A player is only started on a list whose first file is there, for every   *)
(* window and list, if files are sampled and kept two or more at a time.     *)
THEOREM SpecStartsOnAFile ==
  ASSUME SlicesTwo
  PROVE  Spec => StartsOnAFile
<1>1. Init => StartInv
  BY DEF Init, NoFiles, StartInv, Tear, ZeroOldest, ZeroFirst, Listed, Headed
<1>2. IInv /\ StoreInv /\ StartInv /\ [Next]_vars => StartInv'
  BY StepStartInv
<1>3. StartInv /\ [Next]_vars =>
        [Owned /\ ffmpeg = NoPlayer /\ ffmpeg' # ffmpeg
            => Min(ffmpeg'.left) \in DOMAIN final']_vars
  <2> SUFFICES ASSUME StartInv, Next, Owned, ffmpeg = NoPlayer, ffmpeg' # ffmpeg
               PROVE  Min(ffmpeg'.left) \in DOMAIN final'
    BY DEF vars
  <2>1. ~PlayerEnds /\ ~PlayerCrashes /\ \A n \in ffmpeg.left : ~Play(n)
    BY DEF PlayerEnds, PlayerCrashes, NoPlayer
  <2>2. StartPlaylist
    BY <2>1 DEF Next, Worker, Clean, MakeParts, MakeFinal, Start, ForceStopped, Fetch,
                DownloadAudio, DownloadVideo, Mux, Skip, Combine, Drop, UpdateSegments,
                ClearSegments, StopReads, Stop, StopUnlinks, StopRemovesFinal,
                StopRemovesRest, StopRemovesHls, Player
  <2>3. pc = "play" /\ playlist # {} /\ ffmpeg'.left = playlist /\ final' = final
    BY <2>2 DEF StartPlaylist, files
  <2> QED
    BY <2>3 DEF StartInv, Headed
<1> QED
  BY <1>1, <1>2, <1>3, InitStoreInv, SpecIInv, StepStoreInv, PTL DEF Spec, StartsOnAFile

-----------------------------------------------------------------------------
(* Clearing takes no segment the manifest still offers: a file that is as    *)
(* young as another one was written in its round or later, so its segment is *)
(* less than a window older, and there are not enough such segments for it   *)
(* to fall out of the files kept.                                            *)
Dated ==
  /\ \A n \in DOMAIN final : final[n].mtime <= now
  /\ pc \in {"check", "audio", "video"} => \A n \in DOMAIN final : final[n].mtime < now

Fresh ==
  pc \in {"process", "play", "clear"} =>
    \A n \in DOMAIN final : final[n].mtime = now => edge - WindowSize < final[n].seg

Offered ==
  /\ \A n \in DOMAIN final : final[n].seg <= edge
  /\ pc = "process" => todo \subseteq Window(edge)

Near ==
  \A m, n \in DOMAIN final :
    final[n].mtime <= final[m].mtime => final[n].seg - WindowSize < final[m].seg

AgeInv == Dated /\ Fresh /\ Offered /\ Near

(* Two windows of segments less one fit into the kept files.                 *)
KeepsEnough == MaxSegments >= 2 * WindowSize - 1

(* Every step keeps the ages of the files and of their segments together.    *)
LEMMA StepAgeInv ==
  ASSUME IInv, AgeInv, [Next]_vars
  PROVE  AgeInv'
<1> USE DEF AgeInv
<1>a. /\ now \in Nat /\ todo \subseteq Nat /\ edge \in Nat
      /\ DOMAIN final \subseteq Nat /\ final \in [DOMAIN final -> [seg : Nat, mtime : Nat]]
      /\ WindowSize \in Nat \ {0}
  BY PipelineAssumption DEF IInv, TypeOK
<1>b. \A n \in DOMAIN final : final[n].mtime \in Nat /\ final[n].seg \in Nat
  BY <1>a
<1>1. CASE Clean \/ MakeParts \/ MakeFinal \/ Start
  <2>1. DOMAIN final' = {} /\ pc' \in {"parts", "final", "hls", "start", "check"}
    BY <1>1 DEF Clean, MakeParts, MakeFinal, Start, NoFiles, IInv, Bare
  <2> QED
    BY <2>1 DEF Dated, Fresh, Offered, Near
<1>12. CASE StopReads \/ Stop
  <2>1. (final' = final \/ DOMAIN final' = {}) /\ UNCHANGED <<pc, todo, edge, now>>
    BY <1>12 DEF StopReads, Stop, StopUnlinks, StopRemovesFinal, StopRemovesRest,
                 StopRemovesHls, worker, files, NoFiles
  <2> QED
    BY <2>1 DEF Dated, Fresh, Offered, Near
<1>2. CASE ForceStopped
  <2>1. UNCHANGED <<final, now, edge>> /\ pc' = "start"
    BY <1>2 DEF ForceStopped, files
  <2> QED
    BY <2>1 DEF Dated, Fresh, Offered, Near
<1>3. CASE Fetch
  <2>1. /\ UNCHANGED <<final, now>> /\ pc = "check" /\ pc' = "audio"
        /\ edge' \in Nat /\ edge <= edge'
    <3>1. PICK e \in edge .. edge + MaxJump : e \in 1 .. MaxEdge /\ edge' = e
      BY <1>3 DEF Fetch
    <3>2. MaxJump \in Nat
      BY PipelineAssumption
    <3>3. edge' \in Nat /\ edge <= edge'
      BY <1>a, <3>1, <3>2
    <3> QED
      BY <1>3, <3>3 DEF Fetch, files
  <2>2. \A n \in DOMAIN final : final[n].seg <= edge'
    BY <1>a, <1>b, <2>1 DEF Offered
  <2>3. Dated' /\ Fresh' /\ Near'
    BY <2>1 DEF Dated, Fresh, Near
  <2>4. Offered'
    BY <2>1, <2>2 DEF Offered
  <2> QED
    BY <2>3, <2>4
<1>4. CASE DownloadAudio
  <2>1. UNCHANGED <<final, now, edge>> /\ pc = "audio" /\ pc' = "video"
    BY <1>4 DEF DownloadAudio
  <2> QED
    BY <2>1 DEF Dated, Fresh, Offered, Near
<1>5. CASE DownloadVideo
  <2>1. /\ UNCHANGED <<final, now, edge>> /\ pc = "video" /\ pc' = "process"
        /\ todo' = Window(edge)
    BY <1>5 DEF DownloadVideo
  <2>2. \A n \in DOMAIN final : final[n].mtime # now
    BY <1>a, <1>b, <2>1 DEF Dated
  <2>3. Dated' /\ Fresh' /\ Near'
    BY <2>1, <2>2 DEF Dated, Fresh, Near
  <2>4. Offered'
    BY <2>1 DEF Offered
  <2> QED
    BY <2>3, <2>4
<1>6. ASSUME NEW s \in todo, Skip(s) \/ Drop(s)
      PROVE  AgeInv'
  <2>1. /\ UNCHANGED <<final, now, edge>> /\ pc = "process" /\ pc' = "process"
        /\ todo' = todo \ {s}
    BY <1>6 DEF Skip, Drop, Visit, files
  <2>2. Dated' /\ Fresh' /\ Near'
    BY <2>1 DEF Dated, Fresh, Near
  <2>3. Offered'
    BY <2>1 DEF Offered
  <2> QED
    BY <2>2, <2>3
<1>7. ASSUME NEW s \in todo, Combine(s)
      PROVE  AgeInv'
  <2> DEFINE n == map[s]
  <2>1. /\ edge' = edge /\ pc = "process" /\ pc' = "process" /\ todo' = todo \ {s}
        /\ n \notin DOMAIN final
        /\ final' = Put(final, n, [seg |-> s, mtime |-> now])
        /\ now' \in {now, now + 1}
    BY <1>7 DEF Combine, CanMux, Visit, Held
  <2>2. /\ DOMAIN final' = DOMAIN final \cup {n}
        /\ final'[n].mtime = now /\ final'[n].seg = s
        /\ \A k \in DOMAIN final : final'[k] = final[k]
    BY <2>1 DEF Put
  <2>3. s \in Nat /\ s <= edge /\ edge - WindowSize < s
    BY <1>a, <2>1 DEF Offered, Window
  <2> HIDE DEF n
  <2>4. \A k \in DOMAIN final :
          /\ final[k].mtime <= now /\ final[k].seg <= edge
          /\ final[k].mtime = now => edge - WindowSize < final[k].seg
    BY <2>1 DEF Dated, Offered, Fresh
  <2>5. now' \in Nat /\ now <= now'
    BY <1>a, <2>1
  <2>6. \A k \in DOMAIN final' : final'[k].mtime <= now'
    BY <1>a, <1>b, <2>2, <2>4, <2>5
  <2>7. Dated'
    BY <2>1, <2>6 DEF Dated
  <2>8. \A k \in DOMAIN final' : final'[k].mtime = now' => edge - WindowSize < final'[k].seg
    <3> SUFFICES ASSUME NEW k \in DOMAIN final', final'[k].mtime = now'
                 PROVE  edge - WindowSize < final'[k].seg
      OBVIOUS
    <3>1. CASE k = n
      BY <2>2, <2>3, <3>1
    <3>2. CASE k \in DOMAIN final
      <4>1. final[k].mtime = now
        BY <1>a, <1>b, <2>2, <2>4, <2>5, <3>2
      <4> QED
        BY <2>2, <2>4, <3>2, <4>1
    <3> QED
      BY <2>2, <3>1, <3>2
  <2>9. Fresh'
    BY <2>1, <2>8 DEF Fresh
  <2>10. Offered'
    BY <2>1, <2>2, <2>3, <2>4 DEF Offered
  <2>11. Near'
    <3> SUFFICES ASSUME NEW j \in DOMAIN final', NEW k \in DOMAIN final',
                        final'[k].mtime <= final'[j].mtime
                 PROVE  final'[k].seg - WindowSize < final'[j].seg
      BY DEF Near
    <3>1. CASE j \in DOMAIN final /\ k \in DOMAIN final
      BY <2>2, <3>1 DEF Near
    <3>2. CASE j = n /\ k = n
      BY <1>a, <2>2, <2>3, <3>2
    <3>3. CASE j = n /\ k \in DOMAIN final
      <4>1. final'[j].seg = s /\ final'[k].seg \in Nat /\ final'[k].seg <= edge
        BY <1>b, <2>2, <2>4, <3>3
      <4> QED
        BY <1>a, <2>3, <4>1
    <3>4. CASE k = n /\ j \in DOMAIN final
      <4>1. final[j].mtime = now
        BY <1>a, <1>b, <2>2, <2>4, <3>4
      <4>2. final'[k].seg = s /\ final'[j].seg \in Nat /\ edge - WindowSize < final'[j].seg
        BY <1>b, <2>2, <2>4, <3>4, <4>1
      <4> QED
        BY <1>a, <2>3, <4>2
    <3> QED
      BY <2>2, <3>1, <3>2, <3>3, <3>4
  <2> QED
    BY <2>7, <2>9, <2>10, <2>11
<1>8. CASE UpdateSegments
  <2>1. UNCHANGED <<final, now, edge>> /\ pc = "process" /\ pc' \in {"play", "start"}
    BY <1>8 DEF UpdateSegments
  <2> QED
    BY <2>1 DEF Dated, Fresh, Offered, Near
<1>9. CASE StartPlaylist
  <2>1. UNCHANGED <<final, now, edge>> /\ pc = "play" /\ pc' = "clear"
    BY <1>9 DEF StartPlaylist, files
  <2> QED
    BY <2>1 DEF Dated, Fresh, Offered, Near
<1>10. CASE ClearSegments
  <2>1. PICK keep \in Newest(final, MaxSegments) : final' = Restrict(final, keep)
    BY <1>10 DEF ClearSegments
  <2>2. keep \subseteq DOMAIN final
    BY DEF Newest, kSubset
  <2>3. DOMAIN final' = keep /\ \A n \in keep : final'[n] = final[n]
    BY <2>1 DEF Restrict
  <2>4. /\ now' = IF \E n \in DOMAIN final : final[n].mtime = now THEN now + 1 ELSE now
        /\ pc' = "check" /\ edge' = edge
    BY <1>10 DEF ClearSegments
  <2>5. \A n \in DOMAIN final : final[n].mtime < now'
    <3>1. \A n \in DOMAIN final : final[n].mtime <= now
      BY DEF Dated
    <3>2. CASE \E n \in DOMAIN final : final[n].mtime = now
      BY <1>a, <1>b, <2>4, <3>1, <3>2
    <3>3. CASE ~\E n \in DOMAIN final : final[n].mtime = now
      BY <1>a, <1>b, <2>4, <3>1, <3>3
    <3> QED
      BY <3>2, <3>3
  <2>6. now' \in Nat
    BY <1>a, <2>4
  <2>7. Dated'
    BY <1>b, <2>2, <2>3, <2>5, <2>6 DEF Dated
  <2> QED
    BY <2>2, <2>3, <2>4, <2>7 DEF Fresh, Offered, Near
<1>11. CASE PlayerEnds \/ PlayerCrashes \/ (\E n \in ffmpeg.left : Play(n)) \/ UNCHANGED vars
  <2>1. UNCHANGED <<worker, files>>
    BY <1>11 DEF PlayerEnds, PlayerCrashes, Play, vars
  <2> QED
    BY <2>1 DEF Dated, Fresh, Offered, Near, worker, files
<1> QED
  BY <1>1, <1>2, <1>3, <1>4, <1>5, <1>6, <1>7, <1>8, <1>9, <1>10, <1>11, <1>12
     DEF Next, Worker, Mux, Player

(* With enough files kept, the one that is dropped is out of the window.     *)
LEMMA ClearedLeft ==
  ASSUME KeepsEnough, IInv, StoreInv, AgeInv, NEW keep \in Newest(final, MaxSegments),
         NEW n \in DOMAIN final \ keep
  PROVE  final[n].seg \notin Window(edge)
<1> SUFFICES ASSUME final[n].seg \in Window(edge) PROVE FALSE
  OBVIOUS
<1> DEFINE all == keep \cup {n}
           lo == final[n].seg - WindowSize + 1
           hi == final[n].seg + WindowSize - 1
<1>1. /\ WindowSize \in Nat \ {0} /\ MaxSegments \in Nat \ {0} /\ edge \in Nat
      /\ final \in [DOMAIN final -> [seg : Nat, mtime : Nat]]
  BY PipelineAssumption, StoreAssumption DEF IInv, TypeOK
<1>2. \A k \in DOMAIN final : final[k].seg \in Nat /\ final[k].mtime \in Nat
  BY <1>1
<1>3. /\ keep \in SUBSET DOMAIN final
      /\ Cardinality(keep) = Min({MaxSegments, Cardinality(DOMAIN final)})
      /\ \A k \in keep : final[n].mtime <= final[k].mtime
  BY DEF Newest, kSubset
<1>4. IsFiniteSet(DOMAIN final) /\ Cardinality(DOMAIN final) \in Nat
  BY FS_CardinalityType DEF StoreInv
<1>5. Cardinality(keep) = MaxSegments
  <2>1. Cardinality(keep) # Cardinality(DOMAIN final)
    BY <1>3, <1>4, FS_Subset
  <2>2. {MaxSegments, Cardinality(DOMAIN final)} \in SUBSET Nat
    BY <1>1, <1>4
  <2>3. Min({MaxSegments, Cardinality(DOMAIN final)}) \in {MaxSegments, Cardinality(DOMAIN final)}
    BY <2>2, MinOfNats
  <2> QED
    BY <1>3, <2>1, <2>3
<1>6. IsFiniteSet(all) /\ Cardinality(all) = MaxSegments + 1
  <2>1. IsFiniteSet(keep)
    BY <1>3, <1>4, FS_Subset
  <2> QED
    BY <1>5, <2>1, FS_AddElement
<1>7. \A k \in all : final[k].seg \in lo .. hi
  <2> SUFFICES ASSUME NEW k \in all PROVE final[k].seg \in lo .. hi
    OBVIOUS
  <2>1. k \in DOMAIN final /\ final[n].mtime <= final[k].mtime
    BY <1>2, <1>3
  <2>2. final[n].seg - WindowSize < final[k].seg /\ final[k].seg <= edge
    BY <2>1 DEF AgeInv, Near, Offered
  <2>3. edge - WindowSize < final[n].seg
    BY DEF Window
  <2>4. final[k].seg \in Nat /\ final[n].seg \in Nat
    BY <1>2, <2>1
  <2> QED
    BY <1>1, <2>2, <2>3, <2>4
<1>8. lo \in Int /\ hi \in Int /\ hi - lo + 1 = 2 * WindowSize - 1 /\ lo <= hi
  BY <1>1, <1>2
<1> DEFINE f == [k \in all |-> final[k].seg]
<1>9. f \in [all -> lo .. hi]
  BY <1>7
<1>10. IsFiniteSet(lo .. hi) /\ Cardinality(lo .. hi) < Cardinality(all)
  <2> HIDE DEF lo, hi, all
  <2>1. IsFiniteSet(lo .. hi) /\ Cardinality(lo .. hi) = hi - lo + 1
    BY <1>8, FS_Interval
  <2> QED
    BY <1>1, <1>6, <1>8, <2>1 DEF KeepsEnough
<1>11. \E j, k \in all : j # k /\ f[j] = f[k]
  <2> HIDE DEF f, lo, hi, all
  <2> QED
    BY <1>6, <1>9, <1>10, FS_PigeonHole
<1>12. all \subseteq DOMAIN final
  BY <1>3
<1> QED
  BY <1>11, <1>12 DEF IInv, NoDuplicate

(* Clearing removes no segment of the manifest, for every window, whatever   *)
(* failed before, if the files kept hold two windows (functions.php:238-257).*)
THEOREM SpecClearedIsOld ==
  ASSUME KeepsEnough
  PROVE  Spec => ClearedIsOld
<1>1. Init => AgeInv
  <2> SUFFICES ASSUME Init PROVE AgeInv
    OBVIOUS
  <2>1. DOMAIN final = {} /\ pc = "start"
    BY DEF Init, NoFiles
  <2> QED
    BY <2>1 DEF AgeInv, Dated, Fresh, Offered, Near
<1>2. IInv /\ AgeInv /\ [Next]_vars => AgeInv'
  BY StepAgeInv
<1>3. IInv /\ StoreInv /\ AgeInv /\ [Next]_vars =>
        [pc = "clear" /\ pc' = "check" => \A n \in DOMAIN final \ DOMAIN final' :
                        final[n].seg \notin Window(edge)]_vars
  <2> SUFFICES ASSUME IInv, StoreInv, AgeInv, Next, pc = "clear", pc' = "check",
                      NEW n \in DOMAIN final \ DOMAIN final'
               PROVE  final[n].seg \notin Window(edge)
    BY DEF vars
  <2>1. ClearSegments
    BY DEF Next, Worker, Clean, MakeParts, MakeFinal, Start, ForceStopped, Fetch,
           DownloadAudio, DownloadVideo, Mux, Visit, Skip, Combine, Drop, UpdateSegments,
           StartPlaylist, StopReads, Stop, StopUnlinks, StopRemovesFinal, StopRemovesRest,
           StopRemovesHls, Player, PlayerEnds, Play, PlayerCrashes, worker
  <2>2. PICK keep \in Newest(final, MaxSegments) : final' = Restrict(final, keep)
    BY <2>1 DEF ClearSegments
  <2>3. n \notin keep
    BY <2>2 DEF Restrict
  <2> QED
    BY <2>2, <2>3, ClearedLeft
<1> QED
  BY <1>1, <1>2, <1>3, InitStoreInv, SpecIInv, StepStoreInv, PTL DEF Spec, ClearedIsOld

=============================================================================
