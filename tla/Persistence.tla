----------------------------- MODULE Persistence -----------------------------
(* config/persistence.db under concurrent requests. Each request to         *)
(* wwwdir/api.php is a php-fpm process that reads the file, changes what it *)
(* read, writes it back without a lock and launches a command;              *)
(* file_put_contents truncates the file when it opens it and writes later.  *)
(* start.sh may kill them all between any two steps; wwwdir/restore.php     *)
(* then starts what the file says. start_clean.sh deletes the file instead. *)
(* A command is launched in the background and the request is answered at   *)
(* once: what the launched processes do to each other is module Lifecycle,  *)
(* here counts in which order they are launched.                            *)
EXTENDS Integers, FiniteSets

CONSTANTS Script,      \* values of the parameter type
          Dazn,        \* the one of them that is a script in includes/
          Channel,
          MaxRequests, \* bound: requests ever made
          MaxReboots,  \* bound: runs of scripts/start.sh or start_clean.sh
          CleanStarts  \* start_clean.sh may be run

ASSUME PersistenceAssumption ==
  /\ Dazn \in Script
  /\ MaxRequests \in Nat /\ MaxReboots \in Nat /\ CleanStarts \in BOOLEAN

Request == 1 .. MaxRequests
Wish == Script \X Channel
Job == [action : {"START", "STOP"}, wish : Wish]
NoJob == [action |-> "none"]

VARIABLES
  pc,        \* the next step of each request; "idle" before it arrives
  job,       \* what it asks for
  seen,      \* $rPersistence in its process, changed already
  disk,      \* persistence.db: its text, and its wishes if that is json
  launched,  \* each channel's last command since the panel was started;
             \* "RESTORE" is a START by restore.php
  due,       \* start.sh has yet to run restore.php
  restoring, \* wishes restore.php has still to launch
  blind,     \* history: restore.php read the file while it was truncated
  reboots

vars == <<pc, job, seen, disk, launched, due, restoring, blind, reboots>>

InFlight == {"truncate", "write", "exec"}

(* getPersistence: json_decode gives NULL for an empty or a broken text,     *)
(* which the callers treat like an empty array (functions.php 113-145).      *)
Json(wishes) == [text |-> "json", wishes |-> wishes]
Empty == [text |-> "empty", wishes |-> {}]

Torn == [text |-> "torn", wishes |-> {}]

(* Not the code: the channel is filed under no script. *)
ChangeUnfiled(j, wishes) ==
  IF j.action = "START" THEN wishes \cup {j.wish[2]} ELSE wishes \ {j.wish}

(* Not the code: the channel is looked for under every script but its own. *)
ChangeOthers(j, wishes) ==
  IF j.action = "START" THEN wishes \cup {j.wish}
  ELSE {w \in wishes : w = j.wish \/ w[2] # j.wish[2]}

Change(j, wishes) ==
  IF j.action = "START" THEN wishes \cup {j.wish} ELSE wishes \ {j.wish}

(* Not the code: a command of any type is launched for the channel. *)
LaunchedForAny(command, wish) == [launched EXCEPT ![wish[2]] = command]

(* For a type without a script PHP finds no file to run.                     *)
Launched(command, wish) ==
  IF wish[1] = Dazn THEN [launched EXCEPT ![wish[2]] = command] ELSE launched

(* The panel is started with the file of an earlier day, or with the empty    *)
(* one that entrypoint.sh creates.                                            *)
Init ==
  /\ pc = [r \in Request |-> "idle"] /\ job = [r \in Request |-> NoJob]
  /\ seen = [r \in Request |-> {}]
  /\ disk \in {Empty} \cup {Json(wishes) : wishes \in SUBSET Wish}
  /\ launched = [c \in Channel |-> "none"]
  /\ due = TRUE /\ restoring = {} /\ blind = FALSE /\ reboots = 0

-----------------------------------------------------------------------------
(* Not the code: the wish is added to an empty list instead of the one read. *)
ReadNothing(r, j) ==
  /\ pc[r] = "idle" /\ \A q \in Request : q < r => pc[q] # "idle"
  /\ job' = [job EXCEPT ![r] = j]
  /\ seen' = [seen EXCEPT ![r] = Change(j, {})]
  /\ pc' = [pc EXCEPT ![r] = "truncate"]
  /\ UNCHANGED <<disk, launched, due, restoring, blind, reboots>>

(* A request. It is numbered when it reads the file.                         *)
Read(r, j) ==
  /\ pc[r] = "idle" /\ \A q \in Request : q < r => pc[q] # "idle"
  /\ job' = [job EXCEPT ![r] = j]
  /\ seen' = [seen EXCEPT ![r] = Change(j, disk.wishes)]
  /\ pc' = [pc EXCEPT ![r] = "truncate"]
  /\ UNCHANGED <<disk, launched, due, restoring, blind, reboots>>

Truncate(r) ==
  /\ pc[r] = "truncate"
  /\ disk' = Empty
  /\ pc' = [pc EXCEPT ![r] = "write"]
  /\ UNCHANGED <<job, seen, launched, due, restoring, blind, reboots>>

(* The text goes to the start of the file. If another request has written a  *)
(* longer one since the truncation, its end remains: no valid JSON. A text   *)
(* is not longer than one that has all of its wishes.                        *)
Write(r) ==
  /\ pc[r] = "write"
  /\ \/ disk' = Json(seen[r])
     \/ /\ disk.text = "torn" \/ ~(disk.wishes \subseteq seen[r])
        /\ disk' = Torn
  /\ pc' = [pc EXCEPT ![r] = "exec"]
  /\ UNCHANGED <<job, seen, launched, due, restoring, blind, reboots>>

(* The command is launched and the answer is {"status":true}.                *)
Exec(r) ==
  /\ pc[r] = "exec"
  /\ launched' = Launched(job[r].action, job[r].wish)
  /\ pc' = [pc EXCEPT ![r] = "answered"]
  /\ UNCHANGED <<job, seen, disk, due, restoring, blind, reboots>>

-----------------------------------------------------------------------------
(* Both scripts kill php-fpm, the workers and a restore.php still running    *)
(* where they are.                                                           *)
KillAll ==
  /\ reboots < MaxReboots
  /\ reboots' = reboots + 1
  /\ pc' = [r \in Request |-> IF pc[r] \in InFlight THEN "killed" ELSE pc[r]]
  /\ launched' = [c \in Channel |-> "none"]
  /\ restoring' = {} /\ blind' = FALSE
  /\ UNCHANGED <<job, seen>>

(* start.sh. *)
Reboot == KillAll /\ due' = TRUE /\ UNCHANGED disk

(* start_clean.sh, which entrypoint.sh runs: the file is deleted while no PHP *)
(* runs. getPersistence takes a missing file for an empty list.              *)
StartClean == CleanStarts /\ KillAll /\ due' = FALSE /\ disk' = Empty

Truncated == \E r \in Request : pc[r] = "write"

(* restore.php runs when php-fpm already takes requests.                     *)
RestoreReads ==
  /\ due
  /\ due' = FALSE /\ restoring' = disk.wishes /\ blind' = Truncated
  /\ UNCHANGED <<pc, job, seen, disk, launched, reboots>>

(* Not the code: restore.php stopping at a script that is missing. *)
RestoreStartsScripts(w) ==
  /\ w \in restoring /\ w[1] = Dazn
  /\ restoring' = restoring \ {w}
  /\ launched' = Launched("RESTORE", w)
  /\ UNCHANGED <<pc, job, seen, disk, due, blind, reboots>>

RestoreStarts(w) ==
  /\ w \in restoring
  /\ restoring' = restoring \ {w}
  /\ launched' = Launched("RESTORE", w)
  /\ UNCHANGED <<pc, job, seen, disk, due, blind, reboots>>

Requests == \E r \in Request, j \in Job : Read(r, j)

Restore == RestoreReads \/ \E w \in Wish : RestoreStarts(w)

Work == Restore \/ \E r \in Request : Truncate(r) \/ Write(r) \/ Exec(r)

Next == Requests \/ Work \/ Reboot \/ StartClean

Spec == Init /\ [][Next]_vars

NoneInFlight == \A r \in Request : pc[r] \notin InFlight
Quiet == NoneInFlight /\ ~due /\ restoring = {}

(* Users who wait for each other's answers; of restore.php nobody knows.     *)
InTurnNext == (NoneInFlight /\ Requests) \/ Work \/ Reboot \/ StartClean

InTurnSpec == Init /\ [][InTurnNext]_vars

FairInTurnSpec == InTurnSpec /\ WF_vars(Restore)

-----------------------------------------------------------------------------
TypeOK ==
  /\ pc \in [Request -> InFlight \cup {"idle", "answered", "killed"}]
  /\ job \in [Request -> Job \cup {NoJob}]
  /\ \A r \in Request : pc[r] # "idle" => job[r] \in Job
  /\ seen \in [Request -> SUBSET Wish]
  /\ disk \in [text : {"json", "empty", "torn"}, wishes : SUBSET Wish]
  /\ disk.text # "json" => disk.wishes = {}
  /\ launched \in [Channel -> {"none", "START", "STOP", "RESTORE"}]
  /\ due \in BOOLEAN /\ blind \in BOOLEAN
  /\ restoring \subseteq Wish /\ reboots \in Nat

(* In turn, the file and the commands agree (api.php:20-33, restore.php),    *)
(* even if start.sh cut requests and restores off at any step: when nothing  *)
(* is under way, a channel that is wished for was started, unless restore.php *)
(* found the file truncated, and one that is not wished for was not started  *)
(* by a request last. A restore may have started it: from a list it had read *)
(* before the STOP.                                                           *)
AsWished ==
  Quiet =>
    \A c \in Channel :
      IF <<Dazn, c>> \in disk.wishes THEN launched[c] \in {"START", "RESTORE"} \/ blind
      ELSE launched[c] # "START"

(* restore.php gets through its list (restore.php:20-24), also past wishes    *)
(* for a type that is no script.                                              *)
RestoreEnds == due ~> (~due /\ restoring = {})

(* The list the file stands for: while it is truncated, what the request will *)
(* write.                                                                     *)
Settled ==
  IF Truncated THEN seen[CHOOSE r \in Request : pc[r] = "write"] ELSE disk.wishes

W == INSTANCE WishList WITH list <- Settled

(* In turn, addPersistence and removePersistence (functions.php 125-145)      *)
(* change the list by one wish at a time, and nothing else changes it but a   *)
(* start script: that leaves it as it was, or, when it cuts off a request     *)
(* that has truncated the file, leaves none, but never a part.                *)
ListSpec == W!Spec

(* What the answer claims, {"status":true} (api.php:24): when no request is   *)
(* in flight, the wish of an answered START that no STOP followed is in the   *)
(* file.                                                                      *)
AnsweredIsKept ==
  NoneInFlight =>
    \A r \in Request :
      pc[r] = "answered" /\ job[r].action = "START"
        /\ (\A q \in Request : q > r => job[q] # [job[r] EXCEPT !.action = "STOP"])
        => job[r].wish \in disk.wishes

=============================================================================
