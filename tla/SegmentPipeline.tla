--------------------------- MODULE SegmentPipeline ---------------------------
(* One channel's worker, includes/dazn.php START, from the point where it   *)
(* owns the channel: it fetches the manifest's window of segments, downloads *)
(* what it does not hold yet, gives each segment a slot number, muxes it     *)
(* into final/<slot>.mp4, writes playlist.txt, keeps an ffmpeg reading that  *)
(* list, and clears the oldest files. Its directories can be removed under   *)
(* it, one after the other, by the STOP command of another process.          *)
EXTENDS SegmentStore

CONSTANTS WindowSize,    \* $rMaxSegmentsDownload, 10: segments per manifest
          MaxEdge,       \* bound: the last segment the source produces
          MaxJump,       \* bound: segments produced between two fetches
          MaxFaults,     \* bound: downloads, muxes and ffmpegs that fail
          MaxRemovals    \* bound: STOP commands that run late

ASSUME PipelineAssumption ==
  /\ WindowSize \in Nat \ {0}
  /\ {MaxEdge, MaxJump, MaxFaults, MaxRemovals} \subseteq Nat

VARIABLES
  pc,          \* where the worker is in its two loops
  edge,        \* the latest segment in the manifest last fetched
  dirs,        \* which of the channel's directories exist, see Whole
  stop,        \* what a late STOP has still to remove
  map,         \* downloadMap.json: segment -> slot
  rLoop,       \* $rLoop: the slot after the last one counted
  encrypted,   \* the parts in video/<channel>/encrypted, <<segment, type>>
  todo,        \* segments of the window the mux loop has still to visit
  rCompleted,  \* $rCompleted of this round
  final,       \* video/<channel>/final: slot -> [seg, mtime]
  now,         \* the second filemtime would give a file written now
  playlist,    \* the slots in playlist.txt, {} if there is no such file
  ffmpeg,      \* the player: the slots it has still to open and the segment
               \* it opened last; NoPlayer when $rFFPID is not in /proc
  faults, removals   \* counters of what the bounds limit

worker == <<pc, edge, map, rLoop, todo, rCompleted>>
files  == <<dirs, encrypted, final, now, playlist>>
vars   == <<worker, files, stop, ffmpeg, faults, removals>>

(* "parts" stands for aria, encrypted and decrypted under video/<channel>,   *)
(* without any of which nothing can be muxed, "final" for the directory of    *)
(* muxed files next to them, and "hls" for hls/<channel>/hls.                 *)
Whole == {"parts", "final", "hls"}

(* A STOP's rm -rf of video/<channel> in its parts: the files of final/,      *)
(* final/ itself, and the rest with downloadMap.json and playlist.txt.        *)
VideoItems == {"files", "final", "rest"}

VideoThere == dirs \cap {"parts", "final"} # {}

(* The worker's video directory is all there and no rm -rf is inside it.     *)
Owned == {"parts", "final"} \subseteq dirs /\ stop \cap VideoItems = {}

Types == {"audio", "video"}
NoPlayer == [left |-> {}, last |-> -1]

(* The segments of a manifest whose newest one is e. *)
Window(e) == {s \in 1 .. e : e - WindowSize < s}

(* is_file of the final path downloadMap.json gives the segment. *)
Held(m, s) == s \in DOMAIN m /\ m[s] \in DOMAIN final

(* Not the code: every segment of the window is downloaded in every round.    *)
MissingAll(m) == Window(edge)

Missing(m) == {s \in Window(edge) : ~Held(m, s)}

(* Not the code: $rLoopDownload raised before it is stored, counted from one  *)
(* below, not raised at all, and given out from the newest segment backwards. *)
AssignPreIncrement(m, first, segs) ==
  [s \in DOMAIN m \cup segs |->
     IF s \in segs THEN first + Cardinality({t \in segs : t <= s}) ELSE m[s]]

AssignFromBelow(m, first, segs) ==
  [s \in DOMAIN m \cup segs |->
     IF s \in segs THEN first - 1 + Cardinality({t \in segs : t < s}) ELSE m[s]]

AssignSame(m, first, segs) ==
  [s \in DOMAIN m \cup segs |-> IF s \in segs THEN first ELSE m[s]]

AssignBackwards(m, first, segs) ==
  [s \in DOMAIN m \cup segs |->
     IF s \in segs THEN first + Cardinality({t \in segs : s < t}) ELSE m[s]]

(* $rLoopDownload: the missing segments get consecutive slots from first on. *)
Assign(m, first, segs) ==
  [s \in DOMAIN m \cup segs |->
     IF s \in segs THEN first + Cardinality({t \in segs : t < s}) ELSE m[s]]

(* processSegmentsIterative starts its count of muxed segments at 23. *)
CompletedBase == 23

Fault == faults < MaxFaults /\ faults' = faults + 1
NoFault == UNCHANGED faults

Init ==
  /\ pc = "start" /\ edge = 0 /\ dirs = {} /\ stop = {}
  /\ map = NoFiles /\ rLoop = 0 /\ encrypted = {} /\ todo = {}
  /\ rCompleted = CompletedBase
  /\ final = NoFiles /\ now = 0 /\ playlist = {}
  /\ ffmpeg = NoPlayer /\ faults = 0 /\ removals = 0

-----------------------------------------------------------------------------
(* The worker.                                                               *)

(* The head of the outer loop. $rLoop and $rFFPID keep their values from the  *)
(* previous turn. An rm -rf that is inside the old video directory finds      *)
(* nothing any more of what it has listed.                                    *)
Clean ==
  /\ pc = "start" /\ pc' = "parts"
  /\ dirs' = {} /\ map' = NoFiles /\ encrypted' = {} /\ final' = NoFiles
  /\ playlist' = {}
  /\ stop' = stop \ VideoItems
  /\ UNCHANGED <<edge, rLoop, todo, rCompleted, now, ffmpeg, faults, removals>>

MakeParts ==
  /\ pc = "parts" /\ pc' = "final"
  /\ dirs' = dirs \cup {"parts"}
  /\ UNCHANGED <<edge, map, rLoop, todo, rCompleted, encrypted, final, now, playlist, stop,
                 ffmpeg, faults, removals>>

(* mkdir of final fails without video/<channel>; the worker does not look.   *)
MakeFinal ==
  /\ pc = "final" /\ pc' = "hls"
  /\ dirs' = IF VideoThere THEN dirs \cup {"final"} ELSE dirs
  /\ UNCHANGED <<edge, map, rLoop, todo, rCompleted, encrypted, final, now, playlist, stop,
                 ffmpeg, faults, removals>>

(* The last mkdirs, and the manifest's URL, without which the worker waits   *)
(* and starts over.                                                          *)
Start ==
  /\ pc = "hls"
  /\ \/ pc' = "check" /\ NoFault
     \/ pc' = "start" /\ Fault
  /\ dirs' = dirs \cup {"hls"}
  /\ UNCHANGED <<edge, map, rLoop, todo, rCompleted, encrypted, final, now, playlist, stop,
                 ffmpeg, removals>>

(* Not the code: continue instead of break. *)
ForceStoppedContinues ==
  /\ pc = "check" /\ "final" \notin dirs
  /\ UNCHANGED vars

(* 'Force stopped.': final/ is gone, back to the outer loop. The other        *)
(* directories are not looked at.                                             *)
ForceStopped ==
  /\ pc = "check" /\ "final" \notin dirs
  /\ pc' = "start"
  /\ UNCHANGED <<edge, map, rLoop, todo, rCompleted, files, stop, ffmpeg, faults, removals>>

(* A round begins with a manifest; a round without one, or without a key,    *)
(* only sleeps and changes nothing.                                          *)
Fetch ==
  /\ pc = "check" /\ "final" \in dirs
  /\ \E e \in edge .. edge + MaxJump :
       /\ e \in 1 .. MaxEdge
       /\ edge' = e
  /\ pc' = "audio"
  /\ UNCHANGED <<map, rLoop, todo, rCompleted, files, stop, ffmpeg, faults, removals>>

(* The parts of segs that aria2 leaves in aria/ and that reach encrypted/.   *)
Download(segs, type) ==
  \E lost \in SUBSET segs :
    /\ IF lost = {} THEN NoFault ELSE Fault
    /\ encrypted' = IF "parts" \in dirs THEN encrypted \cup ((segs \ lost) \X {type}) ELSE encrypted

DownloadAudio ==
  /\ pc = "audio"
  /\ rCompleted' = CompletedBase
  /\ map' = IF rLoop = 0 THEN NoFiles ELSE map
  /\ Download(Missing(map'), "audio")
  /\ pc' = "video"
  /\ UNCHANGED <<edge, rLoop, todo, dirs, final, now, playlist, stop, ffmpeg, removals>>

DownloadVideo ==
  /\ pc = "video"
  /\ map' = IF VideoThere THEN Assign(map, rLoop, Missing(map)) ELSE map
  /\ Download(Missing(map), "video")
  /\ todo' = Window(edge)
  /\ pc' = "process"
  /\ UNCHANGED <<edge, rLoop, rCompleted, dirs, final, now, playlist, stop, ffmpeg, removals>>

(* The mux loop visits the window in the manifest's order.                   *)
Visit(s) == pc = "process" /\ s \in todo /\ \A t \in todo : s <= t

Parts(s) == {s} \X Types

Skip(s) ==
  /\ Visit(s) /\ Held(map, s)
  /\ todo' = todo \ {s}
  /\ UNCHANGED <<pc, edge, map, rLoop, rCompleted, files, stop, ffmpeg, faults, removals>>

(* The parts are there to be decrypted, and final/ to take the result.       *)
CanMux(s) ==
  {"parts", "final"} \subseteq dirs /\ s \in DOMAIN map /\ Parts(s) \subseteq encrypted

(* Not the code: success is not counted into $rLoop. *)
CombineUncounted(s) ==
  /\ Visit(s) /\ ~Held(map, s)
  /\ CanMux(s)
  /\ final' = Put(final, map[s], [seg |-> s, mtime |-> now])
  /\ now' \in {now, now + 1}
  /\ encrypted' = encrypted \ Parts(s)
  /\ rCompleted' = rCompleted + 1
  /\ todo' = todo \ {s}
  /\ UNCHANGED <<pc, edge, map, rLoop, dirs, playlist, stop, ffmpeg, faults, removals>>

(* Decrypted and combined: final/<slot>.mp4 appears. The local $rLoop and    *)
(* the one it is returned into at dazn.php:125 are one here.                 *)
Combine(s) ==
  /\ Visit(s) /\ ~Held(map, s)
  /\ CanMux(s)
  /\ final' = Put(final, map[s], [seg |-> s, mtime |-> now])
  /\ now' \in {now, now + 1}
  /\ encrypted' = encrypted \ Parts(s)
  /\ rCompleted' = rCompleted + 1
  /\ rLoop' = rLoop + 1
  /\ todo' = todo \ {s}
  /\ UNCHANGED <<pc, edge, map, dirs, playlist, stop, ffmpeg, faults, removals>>

(* A part is missing, or decrypting or combining fails; either way the parts *)
(* are unlinked and the next round asks for the segment again.               *)
Drop(s) ==
  /\ Visit(s) /\ ~Held(map, s)
  /\ IF CanMux(s) THEN Fault ELSE NoFault
  /\ encrypted' = encrypted \ Parts(s)
  /\ todo' = todo \ {s}
  /\ UNCHANGED <<pc, edge, map, rLoop, rCompleted, dirs, final, now, playlist, stop, ffmpeg,
                 removals>>

(* After processSegmentsIterative: nothing completed restarts the outer loop, *)
(* anything completed goes on to updateSegments.                              *)
UpdateSegments ==
  /\ pc = "process" /\ todo = {}
  /\ pc' = IF 0 < rCompleted THEN "play" ELSE "start"
  /\ \E sample \in Newest(final, SampleSize) :
       playlist' = IF 0 < rCompleted /\ ListStart(final, sample) # 0
                     THEN Listing(final, sample) ELSE playlist
  /\ UNCHANGED <<edge, map, rLoop, todo, rCompleted, dirs, encrypted, final, now, stop,
                 ffmpeg, faults, removals>>

(* startPlaylist, unless the player is running. ffmpeg reads the list once.  *)
StartPlaylist ==
  /\ pc = "play"
  /\ ffmpeg' = IF ffmpeg = NoPlayer /\ playlist # {}
                 THEN [left |-> playlist, last |-> 0] ELSE ffmpeg
  /\ pc' = "clear"
  /\ UNCHANGED <<edge, map, rLoop, todo, rCompleted, files, stop, faults, removals>>

(* clearSegments, then the sleeps that end the round: a second goes by.      *)
ClearSegments ==
  /\ pc = "clear"
  /\ \E keep \in Newest(final, MaxSegments) : final' = Restrict(final, keep)
  /\ now' = IF \E n \in DOMAIN final : final[n].mtime = now THEN now + 1 ELSE now
  /\ pc' = "check"
  /\ UNCHANGED <<edge, map, rLoop, todo, rCompleted, dirs, encrypted, playlist, stop, ffmpeg,
                 faults, removals>>

-----------------------------------------------------------------------------
(* Its surroundings.                                                         *)

(* A STOP that runs late, after its kill missed this worker: rm -rf of        *)
(* video/<channel> reads what is there and removes that, in an order that is  *)
(* not known, and rm -rf of hls/<channel> follows. The worker's own steps can *)
(* come between any two of these.                                             *)
StopReads ==
  /\ stop = {} /\ removals < MaxRemovals
  /\ removals' = removals + 1
  /\ stop' = {"hls"} \cup (IF VideoThere THEN {"rest"} ELSE {})
                    \cup (IF "final" \in dirs THEN {"files", "final"} ELSE {})
  /\ UNCHANGED <<worker, files, ffmpeg, faults>>

StopUnlinks ==
  /\ "files" \in stop
  /\ stop' = stop \ {"files"}
  /\ final' = NoFiles
  /\ UNCHANGED <<worker, dirs, encrypted, now, playlist, ffmpeg, faults, removals>>

(* rmdir fails if the worker has put a new file there.                       *)
StopRemovesFinal ==
  /\ "final" \in stop /\ "files" \notin stop
  /\ stop' = stop \ {"final"}
  /\ dirs' = IF DOMAIN final = {} THEN dirs \ {"final"} ELSE dirs
  /\ UNCHANGED <<worker, encrypted, final, now, playlist, ffmpeg, faults, removals>>

StopRemovesRest ==
  /\ "rest" \in stop
  /\ stop' = stop \ {"rest"}
  /\ dirs' = dirs \ {"parts"}
  /\ map' = NoFiles /\ encrypted' = {} /\ playlist' = {}
  /\ UNCHANGED <<pc, edge, rLoop, todo, rCompleted, final, now, ffmpeg, faults, removals>>

StopRemovesHls ==
  /\ stop = {"hls"}
  /\ stop' = {}
  /\ dirs' = dirs \ {"hls"}
  /\ UNCHANGED <<worker, encrypted, final, now, playlist, ffmpeg, faults, removals>>

(* ffmpeg's concat demuxer opens the next listed file; it ends at a file it  *)
(* cannot open (logs/ffmpeg: "Impossible to open"), at the end of the list,   *)
(* or when its output directory is gone.                                      *)
Opens(n) == n \in ffmpeg.left /\ \A m \in ffmpeg.left : n <= m

Play(n) ==
  /\ Opens(n) /\ n \in DOMAIN final
  /\ ffmpeg' = [left |-> ffmpeg.left \ {n}, last |-> final[n].seg]
  /\ UNCHANGED <<worker, files, stop, faults, removals>>

PlayerEnds ==
  /\ ffmpeg # NoPlayer
  /\ "hls" \in dirs => \A n \in ffmpeg.left : Opens(n) => n \notin DOMAIN final
  /\ ffmpeg' = NoPlayer
  /\ UNCHANGED <<worker, files, stop, faults, removals>>

PlayerCrashes ==
  /\ ffmpeg # NoPlayer /\ Fault
  /\ ffmpeg' = NoPlayer
  /\ UNCHANGED <<worker, files, stop, removals>>

-----------------------------------------------------------------------------
Mux == \E s \in todo : Skip(s) \/ Combine(s) \/ Drop(s)

Player == PlayerEnds \/ \E n \in ffmpeg.left : Play(n)

Stop == StopUnlinks \/ StopRemovesFinal \/ StopRemovesRest \/ StopRemovesHls

(* The worker is one sequential process.                                     *)
Worker ==
  \/ Clean \/ MakeParts \/ MakeFinal \/ Start \/ ForceStopped
  \/ Fetch \/ DownloadAudio \/ DownloadVideo
  \/ Mux \/ UpdateSegments \/ StartPlaylist \/ ClearSegments

Next == Worker \/ StopReads \/ Stop \/ Player \/ PlayerCrashes

Spec == Init /\ [][Next]_vars

(* The code takes no step back from a failed file: what follows depends on   *)
(* which downloads and muxes fail. TailFailures is the benign case, a round  *)
(* that loses only the newest segments it asked for, which is what a CDN     *)
(* that lags behind its manifest causes, and no step of the worker inside a  *)
(* STOP's rm -rf of its video directory.                                     *)
TailFailures ==
  /\ \A type \in Types :
       pc' # pc /\ pc = (IF type = "audio" THEN "audio" ELSE "video") =>
         \A s, t \in Missing(map) :
           s < t /\ <<t, type>> \in encrypted' => <<s, type>> \in encrypted'
  /\ \A s \in todo \ todo' : Owned /\ ~Held(map, s) /\ rLoop' = rLoop =>
       \A t \in todo' : ~(Parts(t) \subseteq encrypted')
  /\ stop \cap VideoItems # {} => pc' = pc /\ todo' = todo

TailSpec == Init /\ [][Next /\ TailFailures]_vars

(* The commands and sleeps of a worker all end, and so do a STOP and ffmpeg.  *)
FairTailSpec ==
  TailSpec /\ WF_vars(Worker /\ TailFailures) /\ WF_vars(Stop) /\ WF_vars(Player)

(* Besides, the source is live: it goes on producing segments up to MaxEdge,  *)
(* and a manifest and a key are obtained in the end.                          *)
FairSpec == Spec /\ WF_vars(Worker) /\ WF_vars(Stop) /\ WF_vars(Player)
                 /\ SF_vars(Fetch /\ edge' # edge)

-----------------------------------------------------------------------------
(* The steps of the inner loop.                                              *)
Rounds == {"check", "audio", "video", "process", "play", "clear"}

TypeOK ==
  /\ pc \in {"start", "parts", "final", "hls"} \cup Rounds
  /\ dirs \subseteq Whole /\ stop \subseteq VideoItems \cup {"hls"}
  /\ edge \in Nat /\ rLoop \in Nat /\ now \in Nat
  /\ DOMAIN map \subseteq Nat /\ map \in [DOMAIN map -> Nat]
  /\ encrypted \subseteq Nat \X Types /\ todo \subseteq Nat
  /\ rCompleted \in Nat
  /\ DOMAIN final \subseteq Nat /\ final \in [DOMAIN final -> [seg : Nat, mtime : Nat]]
  /\ playlist \subseteq Nat
  /\ ffmpeg \in [left : SUBSET Nat, last : Nat \cup {-1}]
  /\ faults \in Nat /\ removals \in Nat

(* No segment is in two files of final/, however rounds fail, numbers collide *)
(* and files are cleared (downloadMap.json, functions.php:409-442): a player  *)
(* that reads the slots in order never meets a segment twice.                 *)
NoDuplicate ==
  \A m, n \in DOMAIN final : final[m].seg = final[n].seg => m = n

(* $rLoop falls behind the slots in use when a segment fails and a later one  *)
(* succeeds (functions.php:518-521 counts successes), but by less than a      *)
(* window, so the collisions it causes stay among the newest slots.           *)
NumberingLag == \A n \in DOMAIN final : n <= rLoop + WindowSize - 2

(* clearSegments (functions.php:238-257) removes files by age only; a segment *)
(* still in the manifest would be downloaded again under a new number. With   *)
(* enough files kept that does not happen, whatever failed before.            *)
ClearedIsOld ==
  [][pc = "clear" /\ pc' = "check" => \A n \in DOMAIN final \ DOMAIN final' :
                        final[n].seg \notin Window(edge)]_vars

(* Unless a STOP is at the directory, a player is started on a list whose     *)
(* first file is there (updateSegments and startPlaylist, dazn.php:135-153):  *)
(* it does not die at once on a file that was sampled and then lost.          *)
StartsOnAFile ==
  [][Owned /\ ffmpeg = NoPlayer /\ ffmpeg' # ffmpeg
        => Min(ffmpeg'.left) \in DOMAIN final']_vars

(* final/ never holds more than the kept files and one round's new ones.      *)
StoreBounded ==
  Cardinality(DOMAIN final) <= MaxSegments + (IF pc = "check" THEN 0 ELSE WindowSize)

(* A late STOP can leave a worker in its rounds with final/ and without hls   *)
(* or the parts (dazn.php:250-251 between or after 30-41). Nothing is played  *)
(* or muxed any more, and line 71 looks at final/ alone.                      *)
Crippled == pc \in Rounds /\ "final" \in dirs /\ dirs # Whole

(* A channel whose player died gets another one, with a place to write to     *)
(* (dazn.php:137-156), even after its directories were removed: the worker    *)
(* heals without outside help, unless it is crippled.                         *)
PlayerComesBack ==
  (ffmpeg = NoPlayer) ~> ((ffmpeg # NoPlayer /\ "hls" \in dirs) \/ Crippled)

(* With failures at the tail only, the worker implements the ordered stream.  *)
Stream ==
  INSTANCE OrderedStream WITH
    slots <- [n \in DOMAIN final |-> final[n].seg],
    next  <- rLoop,
    last  <- IF final = NoFiles THEN 0 ELSE Max({final[n].seg : n \in DOMAIN final}),
    edge  <- edge,
    Reach <- WindowSize,
    Safe  <- MaxSegments - WindowSize + 1

StreamSpec == Stream!StreamSpec

(* With failures at the tail only, one player reads the segments in order and *)
(* none twice, as long as nobody removes the directory under it.              *)
PlayInOrder ==
  [][removals = 0 /\ 0 < ffmpeg.last /\ ffmpeg'.left # ffmpeg.left
        /\ ffmpeg' # NoPlayer => ffmpeg.last < ffmpeg'.last]_vars

(* With failures at the tail only, every segment of a fetched manifest is in  *)
(* final/ before the source stops offering it, or is given up only then.      *)
Delivered ==
  \A s \in 1 .. MaxEdge :
    (pc = "audio" /\ s \in Window(edge)) ~>
      ((\E n \in DOMAIN final : final[n].seg = s) \/ s \notin Window(edge))

(* What the log claims. '[FATAL] No segments! Restart.' (dazn.php:174): a     *)
(* round that completed nothing restarts the channel and does not go on.      *)
RestartsWhenEmpty == pc \in {"play", "clear"} => CompletedBase < rCompleted

=============================================================================
