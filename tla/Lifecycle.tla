------------------------------ MODULE Lifecycle ------------------------------
(* The processes of the panel. Every request to wwwdir/api.php writes the   *)
(* channel's wish into persistence.db and launches a PHP process in the     *)
(* background, includes/dazn.php START or STOP. The processes know of each  *)
(* other only through ps, the channel's directories and its cache file.     *)
(* What a running worker does in a round is module SegmentPipeline; here a  *)
(* round looks for the directory, gets a manifest and a key, and saves the  *)
(* cache.                                                                   *)
EXTENDS Integers, FiniteSets

CONSTANTS Channel,      \* the channels requests are made for
          Within,       \* <<c, d>>: 'DRM_' and the name of c is found by grep
                        \* in 'DRM_' and the name of d
          MaxCommands,  \* bound: START and STOP processes ever launched
          MaxReboots,   \* bound: runs of scripts/start.sh or start_clean.sh
          KeystoreFails \* the keystore may refuse a key

ASSUME LifecycleAssumption ==
  /\ Within \subseteq Channel \X Channel
  /\ \A c \in Channel : <<c, c>> \in Within
  /\ MaxCommands \in Nat /\ MaxReboots \in Nat /\ KeystoreFails \in BOOLEAN

(* Processes are numbered in the order they are launched. *)
Command == 1 .. MaxCommands
NoOne == 0

VARIABLES
  pc,         \* the next step of each process; "idle" before it is launched
  job,        \* its command line: the action and the channel
  persisted,  \* config/persistence.db: the channels somebody wants on
  dirs,       \* dirs[c]: which of the channel's directories exist, see Whole
  left,       \* left[k]: what the rm -rf of process k have still to remove
  cache,      \* cache[c]: the php_pid in cache/<c>.db, NoOne without the file
  restoring,  \* channels restore.php has still to start
  reboots

vars == <<pc, job, persisted, dirs, left, cache, restoring, reboots>>

(* "parts" stands for aria, encrypted and decrypted under video/<channel>,   *)
(* "final" for the directory of muxed files next to them, and "hls" for      *)
(* hls/<channel>/hls.                                                         *)
VideoDirs == {"parts", "final"}
Whole == VideoDirs \cup {"hls"}

Jobs == [action : {"START", "STOP"}, channel : Channel]
NoJob == [action |-> "none", channel |-> "none"]

(* Steps of a worker after cli_set_process_title: ps shows 'DRM_<channel>'.  *)
Looping == {"run", "round"}
Making == {"clean", "parts", "final", "hls"}
Titled == {"cache"} \cup Making \cup Looping
(* A process that is alive and, unless it runs its loop, on its way.         *)
InProgress == {"kill", "title", "cache", "rm"} \cup Making
Alive == InProgress \cup Looping

Workers(c) == {k \in Command : job[k] = [action |-> "START", channel |-> c]
                               /\ pc[k] \in Titled}
Running(c) == {k \in Workers(c) : pc[k] \in Looping}

(* index.php: video/<c> exists, and the channel's php_pid is in /proc.        *)
Online(c) == dirs[c] \cap VideoDirs # {} /\ cache[c] \in Workers(c)

(* A process that comes to its rm -rf has everything still to remove.        *)
RmBegins ==
  left' = [k \in Command |-> IF pc'[k] \notin {"clean", "rm"} THEN {}
                             ELSE IF pc[k] = pc'[k] THEN left[k] ELSE Whole]

Init ==
  /\ pc = [k \in Command |-> "idle"] /\ job = [k \in Command |-> NoJob]
  /\ persisted = {} /\ dirs = [c \in Channel |-> {}]
  /\ left = [k \in Command |-> {}] /\ cache = [c \in Channel |-> NoOne]
  /\ restoring = {} /\ reboots = 0

-----------------------------------------------------------------------------
(* Requests.                                                                 *)

Launch(k, action, c) ==
  /\ pc[k] = "idle" /\ \A j \in Command : j < k => pc[j] # "idle"
  /\ pc' = [pc EXCEPT ![k] = "kill"]
  /\ job' = [job EXCEPT ![k] = [action |-> action, channel |-> c]]

(* Not the code: STOP without removePersistence. *)
RequestKeeps(k, action, c) ==
  /\ Launch(k, action, c)
  /\ persisted' = persisted \cup {c}
  /\ UNCHANGED <<dirs, left, cache, restoring, reboots>>

(* Not the code: api.php passing on an action dazn.php does not know.         *)
RequestAnything(k, action, c) ==
  /\ Launch(k, "RESTART", c)
  /\ persisted' = persisted \cup {c}
  /\ UNCHANGED <<dirs, left, cache, restoring, reboots>>

(* api.php: addPersistence or removePersistence, then exec in the background. *)
Request(k, action, c) ==
  /\ Launch(k, action, c)
  /\ persisted' = IF action = "START" THEN persisted \cup {c} ELSE persisted \ {c}
  /\ UNCHANGED <<dirs, left, cache, restoring, reboots>>

(* Both scripts kill every process and remove video, hls and the cache.       *)
KillAll ==
  /\ reboots < MaxReboots
  /\ reboots' = reboots + 1
  /\ pc' = [k \in Command |-> IF pc[k] \in Alive THEN "dead" ELSE pc[k]]
  /\ left' = [k \in Command |-> {}]
  /\ dirs' = [c \in Channel |-> {}]
  /\ cache' = [c \in Channel |-> NoOne]
  /\ UNCHANGED job

(* scripts/start.sh: persistence.db stays, and restore.php starts its         *)
(* channels one after the other.                                              *)
Reboot == KillAll /\ restoring' = persisted /\ UNCHANGED persisted

(* scripts/start_clean.sh: persistence.db is deleted.                         *)
StartClean == KillAll /\ restoring' = {} /\ persisted' = {}

Restore(k, c) ==
  /\ c \in restoring
  /\ Launch(k, "START", c)
  /\ restoring' = restoring \ {c}
  /\ UNCHANGED <<persisted, dirs, left, cache, reboots>>

-----------------------------------------------------------------------------
(* Steps of the launched processes.                                          *)

At(k, step, action) == pc[k] = step /\ job[k].action = action

(* kill -9 of every process ps shows under the title, the process itself     *)
(* having none yet. kill -9 reaches the worker only, never its ffmpeg.       *)
Victims(c) == {k \in Command : pc[k] \in Titled /\ <<c, job[k].channel>> \in Within}

(* Not the code: START leaves the kill out. *)
KillOnStop(k) ==
  /\ pc[k] = "kill"
  /\ pc' = [j \in Command |->
              IF j = k THEN IF job[k].action = "START" THEN "title" ELSE "rm"
              ELSE IF job[k].action = "STOP" /\ j \in Victims(job[k].channel)
                THEN "dead" ELSE pc[j]]
  /\ RmBegins
  /\ UNCHANGED <<job, persisted, dirs, cache, restoring, reboots>>

Kill(k) ==
  /\ pc[k] = "kill"
  /\ pc' = [j \in Command |->
              IF j = k THEN IF job[k].action = "START" THEN "title" ELSE "rm"
              ELSE IF j \in Victims(job[k].channel) THEN "dead" ELSE pc[j]]
  /\ RmBegins
  /\ UNCHANGED <<job, persisted, dirs, cache, restoring, reboots>>

SetTitle(k) ==
  /\ At(k, "title", "START")
  /\ pc' = [pc EXCEPT ![k] = "cache"]
  /\ UNCHANGED <<job, persisted, dirs, left, cache, restoring, reboots>>

SaveCache(k) ==
  /\ At(k, "cache", "START")
  /\ cache' = [cache EXCEPT ![job[k].channel] = k]
  /\ pc' = [pc EXCEPT ![k] = "clean"]
  /\ RmBegins
  /\ UNCHANGED <<job, persisted, dirs, restoring, reboots>>

(* The rm -rf of video/<c>, in an order that is not known, then of hls/<c>.   *)
(* A worker that has put a new file into final/ since keeps the directory.   *)
Muxing(c) == \E k \in Workers(c) : pc[k] = "round"

Remove(k) ==
  /\ pc[k] \in {"clean", "rm"}
  /\ \E item \in left[k] :
       /\ item = "hls" => left[k] = {"hls"}
       /\ left' = [left EXCEPT ![k] = @ \ {item}]
       /\ \/ dirs' = [dirs EXCEPT ![job[k].channel] = @ \ {item}]
          \/ item = "final" /\ Muxing(job[k].channel) /\ UNCHANGED dirs
  /\ UNCHANGED <<pc, job, persisted, cache, restoring, reboots>>

Cleaned(k) ==
  /\ At(k, "clean", "START") /\ left[k] = {}
  /\ cache' = [cache EXCEPT ![job[k].channel] = k]
  /\ pc' = [pc EXCEPT ![k] = "parts"]
  /\ UNCHANGED <<job, persisted, dirs, left, restoring, reboots>>

MakeParts(k) ==
  /\ At(k, "parts", "START")
  /\ dirs' = [dirs EXCEPT ![job[k].channel] = @ \cup {"parts"}]
  /\ pc' = [pc EXCEPT ![k] = "final"]
  /\ UNCHANGED <<job, persisted, left, cache, restoring, reboots>>

(* mkdir of final fails without video/<c>; the worker does not look.         *)
MakeFinal(k) ==
  /\ At(k, "final", "START")
  /\ dirs' = [dirs EXCEPT ![job[k].channel] =
                 IF @ \cap VideoDirs # {} THEN @ \cup {"final"} ELSE @]
  /\ pc' = [pc EXCEPT ![k] = "hls"]
  /\ UNCHANGED <<job, persisted, left, cache, restoring, reboots>>

(* The last directories, and the manifest's URL, without which the worker    *)
(* waits and starts over.                                                    *)
MakeHls(k) ==
  /\ At(k, "hls", "START")
  /\ dirs' = [dirs EXCEPT ![job[k].channel] = @ \cup {"hls"}]
  /\ \E step \in {"run", "clean"} : pc' = [pc EXCEPT ![k] = step]
  /\ RmBegins
  /\ UNCHANGED <<job, persisted, cache, restoring, reboots>>

(* A round with a manifest and a key. One without them only sleeps.          *)
Check(k) ==
  /\ At(k, "run", "START") /\ "final" \in dirs[job[k].channel]
  /\ pc' = [pc EXCEPT ![k] = "round"]
  /\ UNCHANGED <<job, persisted, dirs, left, cache, restoring, reboots>>

(* Not the code: a round that leaves saveCache out. *)
RoundUnsaved(k) ==
  /\ At(k, "round", "START")
  /\ pc' = [pc EXCEPT ![k] = "run"]
  /\ UNCHANGED <<job, persisted, dirs, left, cache, restoring, reboots>>

(* What the round does with its key is module SegmentPipeline's; its end is  *)
(* reached whatever failed, and saves the cache from memory.                 *)
Round(k) ==
  /\ At(k, "round", "START")
  /\ cache' = [cache EXCEPT ![job[k].channel] = k]
  /\ pc' = [pc EXCEPT ![k] = "run"]
  /\ UNCHANGED <<job, persisted, dirs, left, restoring, reboots>>

(* '[FATAL] Cannot write to keystore!': the worker exits.                    *)
ExitWithoutKey(k) ==
  /\ KeystoreFails
  /\ At(k, "run", "START") /\ "final" \in dirs[job[k].channel]
  /\ pc' = [pc EXCEPT ![k] = "done"]
  /\ UNCHANGED <<job, persisted, dirs, left, cache, restoring, reboots>>

(* Not the code: continue instead of break. *)
ForceStoppedContinues(k) ==
  /\ At(k, "run", "START") /\ "final" \notin dirs[job[k].channel]
  /\ UNCHANGED vars

(* 'Force stopped.': back to the outer loop. Only final/ is looked for.       *)
ForceStopped(k) ==
  /\ At(k, "run", "START") /\ "final" \notin dirs[job[k].channel]
  /\ pc' = [pc EXCEPT ![k] = "clean"]
  /\ RmBegins
  /\ UNCHANGED <<job, persisted, dirs, cache, restoring, reboots>>

(* The end of STOP. It has looked for ffmpeg pids under names nobody writes   *)
(* (dazn.php:237-246), so no player was killed.                              *)
DeleteCache(k) ==
  /\ At(k, "rm", "STOP") /\ left[k] = {}
  /\ cache' = [cache EXCEPT ![job[k].channel] = NoOne]
  /\ pc' = [pc EXCEPT ![k] = "done"]
  /\ UNCHANGED <<job, persisted, dirs, left, restoring, reboots>>

Step(k) ==
  \/ Kill(k) \/ SetTitle(k) \/ SaveCache(k)
  \/ Remove(k) \/ Cleaned(k) \/ MakeParts(k) \/ MakeFinal(k) \/ MakeHls(k)
  \/ Check(k) \/ Round(k) \/ ForceStopped(k) \/ DeleteCache(k)

Requests == \E k \in Command, c \in Channel, action \in {"START", "STOP"} : Request(k, action, c)

Other ==
  \/ Reboot \/ StartClean \/ \E k \in Command, c \in Channel : Restore(k, c)
  \/ \E k \in Command : Step(k) \/ ExitWithoutKey(k)

Next == Requests \/ Other

Spec == Init /\ [][Next]_vars

(* Processes are scheduled, and the source does not refuse the manifest's     *)
(* URL, the manifest or the key for ever.                                     *)
Fairness ==
  /\ \A k \in Command :
       WF_vars(Step(k)) /\ SF_vars(MakeHls(k) /\ pc'[k] = "run") /\ SF_vars(Check(k))
  /\ WF_vars(\E k \in Command, c \in Channel : Restore(k, c))

FairSpec == Spec /\ Fairness

(* A patient user makes a request only when the panel has come to rest.      *)
AtRest == restoring = {} /\ \A k \in Command : pc[k] \notin InProgress

PatientNext == (AtRest /\ Requests) \/ Other

PatientSpec == Init /\ [][PatientNext]_vars

-----------------------------------------------------------------------------
TypeOK ==
  /\ pc \in [Command -> Alive \cup {"idle", "done", "dead"}]
  /\ job \in [Command -> Jobs \cup {NoJob}]
  /\ persisted \subseteq Channel /\ restoring \subseteq Channel
  /\ dirs \in [Channel -> SUBSET Whole] /\ left \in [Command -> SUBSET Whole]
  /\ cache \in [Channel -> Command \cup {NoOne}]
  /\ reboots \in Nat

(* A patient user's channel has one worker at most (dazn.php:19-21): the     *)
(* kill before the title and the title before the next kill are enough.      *)
OneWorker == \A c \in Channel : Cardinality(Workers(c)) <= 1

(* A patient user gets what persistence.db says (api.php:25-33, restore.php): *)
(* at rest no channel has a worker that is not persisted, and one that is     *)
(* persisted has a worker, reboots in the middle of a command included,      *)
(* unless the grep for another channel's name finds it. The worker has its    *)
(* directories: no rm -rf of another process came between (dazn.php:30-41,    *)
(* 250-251).                                                                  *)
AsRequested ==
  AtRest =>
    \A c \in Channel :
      /\ Running(c) # {} => c \in persisted
      /\ c \in persisted /\ (\A d \in Channel : <<d, c>> \in Within => d = c)
           => Running(c) # {} /\ dirs[c] = Whole

(* Another process is at its rm -rf of the channel's directories.             *)
Removing(c, k) == \E j \in Command \ {k} : job[j].channel = c /\ left[j] # {}

(* A worker whose final/ a late STOP removed makes all of its directories    *)
(* again (dazn.php:71-74 and 27-41), whatever the order of requests, unless  *)
(* an rm -rf comes into it: one between or after 30-41 may leave final/      *)
(* without the others, which line 71 does not notice.                        *)
SelfHeals ==
  \A k \in Command, c \in Channel :
    (k \in Running(c) /\ "final" \notin dirs[c])
      ~> (pc[k] \in {"dead", "done"} \/ dirs[c] = Whole \/ Removing(c, k))

(* A running worker is shown as online (index.php:25-29), even after a late  *)
(* STOP deleted its cache file: a round saves it again (dazn.php:170).       *)
RunningIsShown ==
  \A c \in Channel : (Running(c) # {}) ~> (Online(c) \/ Running(c) = {})

(* What the log claims, for a user in a hurry.                               *)
(* 'Shutting down previous instances.' (dazn.php:19): a START that has gone  *)
(* past its kill and has its title is the only one; none launched before it  *)
(* for the channel goes on under the same title.                             *)
PreviousShutDown ==
  \A j, k \in Command :
    j < k /\ job[j] = job[k] /\ job[k].action = "START" /\ pc[k] \in Titled
      => pc[j] \notin Titled

=============================================================================
