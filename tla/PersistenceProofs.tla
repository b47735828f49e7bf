-------------------------- MODULE PersistenceProofs --------------------------
(* Theorems about persistence.db for any number of requests, restarts,      *)
(* scripts and channels.                                                    *)
EXTENDS Persistence, TLAPS

(* One request is in flight at most.                                        *)
Solo == \A q, r \in Request : pc[q] \in InFlight /\ pc[r] \in InFlight => q = r

(* It carries the list with its change, or finds the file that it truncated. *)
Pending ==
  \A r \in Request :
    /\ pc[r] = "truncate" => seen[r] = Change(job[r], disk.wishes)
    /\ pc[r] = "write" => disk = Empty

(* Its change has been made, its command is still to be launched.           *)
Outcome ==
  \A r \in Request :
    pc[r] \in {"write", "exec"} => (job[r].action = "START" <=> job[r].wish \in Settled)

(* A channel's commands follow the list, or restore.php has still to catch   *)
(* up, or could not; a request for the channel may come between.            *)
Followed(c) ==
  /\ <<Dazn, c>> \in Settled =>
       launched[c] \in {"START", "RESTORE"} \/ <<Dazn, c>> \in restoring \/ due \/ blind
  /\ <<Dazn, c>> \notin Settled => launched[c] # "START"

Served ==
  \A c \in Channel :
    Followed(c) \/ \E r \in Request : pc[r] \in {"write", "exec"} /\ job[r].wish = <<Dazn, c>>

TurnInv == TypeOK /\ Solo /\ Pending

IInv == TurnInv /\ Outcome /\ Served

-----------------------------------------------------------------------------
LEMMA ChangeType ==
  ASSUME NEW j \in Job, NEW wishes \in SUBSET Wish
  PROVE  Change(j, wishes) \in SUBSET Wish
BY DEF Change, Job

(* A command is launched for the channel of its wish, if that has a script.  *)
LEMMA LaunchedFor ==
  ASSUME TypeOK, NEW command \in {"START", "STOP", "RESTORE"}, NEW wish \in Wish
  PROVE  /\ Launched(command, wish) \in [Channel -> {"none", "START", "STOP", "RESTORE"}]
         /\ \A c \in Channel : Launched(command, wish)[c] =
                                 IF wish = <<Dazn, c>> THEN command ELSE launched[c]
<1>1. PICK s \in Script, d \in Channel : wish = <<s, d>>
  BY DEF Wish
<1>2. CASE s # Dazn
  BY <1>1, <1>2 DEF Launched, TypeOK
<1>3. CASE s = Dazn
  BY <1>1, <1>3 DEF Launched, TypeOK
<1> QED
  BY <1>2, <1>3

(* Types survive every step, overlapping or not.                            *)
LEMMA TypeStep ==
  ASSUME TypeOK, [Next]_vars
  PROVE  TypeOK'
<1> USE DEF TypeOK
<1>1. ASSUME NEW r \in Request, NEW j \in Job, Read(r, j)
      PROVE  TypeOK'
  <2>1. Change(j, disk.wishes) \in SUBSET Wish
    BY ChangeType
  <2>2. pc' \in [Request -> InFlight \cup {"idle", "answered", "killed"}]
    BY <1>1 DEF Read, InFlight
  <2>3. job' \in [Request -> Job \cup {NoJob}]
    BY <1>1 DEF Read
  <2>4. \A q \in Request : pc'[q] # "idle" => job'[q] \in Job
    BY <1>1 DEF Read
  <2>5. seen' \in [Request -> SUBSET Wish]
    BY <1>1, <2>1 DEF Read
  <2> QED
    BY <1>1, <2>2, <2>3, <2>4, <2>5 DEF Read
<1>2. ASSUME NEW r \in Request, Truncate(r)
      PROVE  TypeOK'
  BY <1>2 DEF Truncate, InFlight, Empty
<1>3. ASSUME NEW r \in Request, Write(r)
      PROVE  TypeOK'
  <2>1. disk' \in [text : {"json", "empty", "torn"}, wishes : SUBSET Wish]
        /\ (disk'.text # "json" => disk'.wishes = {})
    BY <1>3 DEF Write, Json, Torn
  <2> QED
    BY <1>3, <2>1 DEF Write, InFlight
<1>4. ASSUME NEW r \in Request, Exec(r)
      PROVE  TypeOK'
  <2>1. job[r].action \in {"START", "STOP", "RESTORE"} /\ job[r].wish \in Wish
    BY <1>4 DEF Exec, Job
  <2>2. launched' \in [Channel -> {"none", "START", "STOP", "RESTORE"}]
    BY <1>4, <2>1, LaunchedFor DEF Exec
  <2> QED
    BY <1>4, <2>2 DEF Exec, InFlight
<1>5. CASE Reboot \/ StartClean
  <2>1. pc' \in [Request -> InFlight \cup {"idle", "answered", "killed"}]
        /\ \A r \in Request : pc'[r] # "idle" => pc[r] # "idle"
    BY <1>5 DEF Reboot, StartClean, KillAll, InFlight
  <2>2. disk' \in [text : {"json", "empty", "torn"}, wishes : SUBSET Wish]
        /\ (disk'.text # "json" => disk'.wishes = {})
    BY <1>5 DEF Reboot, StartClean, Empty
  <2>3. /\ UNCHANGED <<job, seen>> /\ restoring' = {} /\ blind' = FALSE /\ reboots' \in Nat
        /\ launched' \in [Channel -> {"none", "START", "STOP", "RESTORE"}]
    BY <1>5 DEF Reboot, StartClean, KillAll
  <2>4. due' \in BOOLEAN
    BY <1>5 DEF Reboot, StartClean
  <2> QED
    BY <2>1, <2>2, <2>3, <2>4
<1>6. CASE RestoreReads
  BY <1>6 DEF RestoreReads, Truncated
<1>7. ASSUME NEW w \in Wish, RestoreStarts(w)
      PROVE  TypeOK'
  BY <1>7, LaunchedFor DEF RestoreStarts
<1>8. CASE UNCHANGED vars
  BY <1>8 DEF vars
<1> QED
  BY <1>1, <1>2, <1>3, <1>4, <1>5, <1>6, <1>7, <1>8 DEF Next, Requests, Work, Restore

LEMMA InitType == Init => TypeOK
<1> SUFFICES ASSUME Init PROVE TypeOK
  OBVIOUS
<1>1. disk \in [text : {"json", "empty", "torn"}, wishes : SUBSET Wish]
      /\ (disk.text # "json" => disk.wishes = {})
  BY DEF Init, Json, Empty
<1> QED
  BY <1>1 DEF Init, TypeOK

(* Types (functions.php 113-145) hold however requests overlap and wherever *)
(* they are killed.                                                         *)
THEOREM SpecTypeOK == Spec => []TypeOK
<1>1. TypeOK /\ [Next]_vars => TypeOK'
  BY TypeStep
<1> QED
  BY InitType, <1>1, PTL DEF Spec

-----------------------------------------------------------------------------
(* While the file is truncated, the list is what its one writer will write.  *)
LEMMA SettledByWriter ==
  ASSUME NEW r \in Request, pc[r] = "write", \A q \in Request : pc[q] = "write" => q = r
  PROVE  Settled = seen[r]
BY DEF Settled, Truncated

LEMMA InitList == Init => W!Init
<1> SUFFICES ASSUME Init PROVE W!Init
  OBVIOUS
<1>1. ~Truncated /\ disk.wishes \in SUBSET Wish
  BY InitType DEF Init, TypeOK, Truncated
<1> QED
  BY <1>1 DEF W!Init, Settled, Init

(* The list changes when a request truncates the file, by the wish it carries. *)
LEMMA TruncateChanges ==
  ASSUME TurnInv, NEW r \in Request, Truncate(r)
  PROVE  Settled' = Change(job[r], Settled) /\ job[r] \in Job
<1> USE DEF TurnInv
<1>1. pc[r] = "truncate" /\ \A q \in Request : pc[q] \in InFlight => q = r
  BY DEF Truncate, Solo, InFlight
<1>2. pc'[r] = "write" /\ (\A q \in Request : pc'[q] = "write" => q = r) /\ seen' = seen
  BY <1>1 DEF Truncate, TypeOK, InFlight
<1>3. Settled = disk.wishes
  BY <1>1 DEF Settled, Truncated, InFlight
<1>4. Settled' = seen'[r]
  BY <1>2 DEF Settled, Truncated
<1>5. job[r] \in Job
  BY <1>1 DEF TypeOK
<1> QED
  BY <1>1, <1>2, <1>3, <1>4, <1>5 DEF Pending

(* It does not change before or after.                                       *)
LEMMA OthersKeepList ==
  ASSUME TurnInv,
         \/ NoneInFlight /\ Requests
         \/ \E r \in Request : Write(r) \/ Exec(r)
         \/ Restore
         \/ UNCHANGED vars
  PROVE  UNCHANGED Settled
<1> USE DEF TurnInv
<1>1. ASSUME NEW r \in Request, NEW j \in Job, NoneInFlight, Read(r, j)
      PROVE  UNCHANGED Settled
  <2>1. ~Truncated
    BY <1>1 DEF NoneInFlight, Truncated, InFlight
  <2>2. ~Truncated'
    BY <1>1, <2>1 DEF Read, TypeOK, Truncated
  <2> QED
    BY <1>1, <2>1, <2>2 DEF Settled, Read
<1>2. ASSUME NEW r \in Request, Write(r)
      PROVE  UNCHANGED Settled
  <2>1. pc[r] = "write" /\ \A q \in Request : pc[q] \in InFlight => q = r
    BY <1>2 DEF Write, Solo, InFlight
  <2>2. Settled = seen[r]
    BY <2>1, SettledByWriter DEF InFlight
  <2>3. \A q \in Request : pc'[q] # "write"
    BY <1>2, <2>1 DEF Write, TypeOK, InFlight
  <2>4. disk'.wishes = seen[r]
    <3>1. disk.text = "empty" /\ disk.wishes = {}
      BY <2>1 DEF Pending, Empty
    <3> QED
      BY <1>2, <3>1 DEF Write, Json
  <2> QED
    BY <2>2, <2>3, <2>4 DEF Settled, Truncated
<1>3. ASSUME NEW r \in Request, Exec(r)
      PROVE  UNCHANGED Settled
  <2>1. ~Truncated
    BY <1>3 DEF Exec, Solo, InFlight, Truncated
  <2>2. ~Truncated'
    BY <1>3, <2>1 DEF Exec, TypeOK, Truncated
  <2> QED
    BY <1>3, <2>1, <2>2 DEF Settled, Exec
<1>4. CASE Restore
  BY <1>4 DEF Restore, RestoreReads, RestoreStarts, Settled, Truncated
<1>5. CASE UNCHANGED vars
  BY <1>5 DEF vars, Settled, Truncated
<1> QED
  BY <1>1, <1>2, <1>3, <1>4, <1>5 DEF Requests

(* A start script leaves it as it was, or none.                              *)
LEMMA RestartKeepsOrForgets ==
  ASSUME TurnInv, Reboot \/ StartClean
  PROVE  /\ \A r \in Request : pc'[r] \notin InFlight
         /\ Settled' \in {Settled, {}} /\ reboots' = reboots + 1
         /\ due' \/ Settled' = {}
<1> USE DEF TurnInv
<1>1. \A r \in Request : pc'[r] \notin InFlight
  BY DEF Reboot, StartClean, KillAll, TypeOK, InFlight
<1>2. Settled' = disk'.wishes
  BY <1>1 DEF Settled, Truncated, InFlight
<1>3. CASE Reboot
  <2>1. disk' = disk /\ due' = TRUE
    BY <1>3 DEF Reboot
  <2>2. CASE ~Truncated
    BY <1>1, <1>2, <1>3, <2>1, <2>2 DEF Settled, Reboot, KillAll
  <2>3. CASE Truncated
    <3>1. disk.wishes = {}
      BY <2>3 DEF Truncated, Pending, Empty
    <3> QED
      BY <1>1, <1>2, <1>3, <2>1, <3>1 DEF Reboot, KillAll
  <2> QED
    BY <2>2, <2>3
<1>4. CASE StartClean
  BY <1>1, <1>2, <1>4 DEF StartClean, KillAll, Empty
<1> QED
  BY <1>3, <1>4

(* So it changes by one wish at a time, or when a start script runs.         *)
LEMMA ListStep ==
  ASSUME TurnInv, [InTurnNext]_vars
  PROVE  [W!Next]_(W!listVars)
<1> USE DEF W!listVars
<1>1. ASSUME NEW r \in Request, Truncate(r)
      PROVE  W!Next
  <2>1. Settled' = Change(job[r], Settled) /\ job[r] \in Job /\ UNCHANGED reboots
    BY <1>1, TruncateChanges DEF Truncate
  <2>2. CASE job[r].action = "START"
    BY <2>1, <2>2 DEF Change, Job, W!Next, W!Add
  <2>3. CASE job[r].action # "START"
    BY <2>1, <2>3 DEF Change, Job, W!Next, W!Withdraw
  <2> QED
    BY <2>2, <2>3
<1>2. CASE Reboot \/ StartClean
  BY <1>2, RestartKeepsOrForgets DEF W!Next, W!Restart
<1>3. CASE NoneInFlight /\ Requests
  BY <1>3, OthersKeepList DEF Requests, Read
<1>4. CASE Restore \/ UNCHANGED vars
  BY <1>4, OthersKeepList DEF Restore, RestoreReads, RestoreStarts, vars
<1>5. CASE \E r \in Request : Write(r) \/ Exec(r)
  BY <1>5, OthersKeepList DEF Write, Exec
<1> QED
  BY <1>1, <1>2, <1>3, <1>4, <1>5 DEF InTurnNext, Work

(* One request is in flight at most, and what it carries stays right.        *)
LEMMA TurnStep ==
  ASSUME TurnInv, [InTurnNext]_vars
  PROVE  TurnInv'
<1> USE DEF TurnInv
<1>0. TypeOK'
  <2>1. [Next]_vars
    BY DEF InTurnNext, Next
  <2> QED
    BY <2>1, TypeStep
<1> SUFFICES Solo' /\ Pending'
  BY <1>0
<1>1. ASSUME NEW r \in Request, NEW j \in Job, NoneInFlight, Read(r, j)
      PROVE  Solo' /\ Pending'
  <2>1. /\ pc'[r] = "truncate" /\ job'[r] = j /\ seen'[r] = Change(j, disk.wishes)
        /\ disk' = disk
        /\ \A q \in Request : q # r => pc'[q] = pc[q] /\ pc[q] \notin InFlight
    BY <1>1 DEF Read, NoneInFlight, TypeOK
  <2> QED
    BY <2>1 DEF Solo, Pending, InFlight
<1>2. ASSUME NEW r \in Request, Truncate(r) \/ Write(r) \/ Exec(r)
      PROVE  Solo' /\ Pending'
  <2>1. /\ pc[r] \in InFlight /\ pc'[r] # "truncate" /\ (pc'[r] = "write" => disk' = Empty)
        /\ \A q \in Request : q # r => pc'[q] = pc[q]
    BY <1>2 DEF Truncate, Write, Exec, TypeOK, InFlight
  <2>2. \A q \in Request : q # r => pc'[q] \notin InFlight
    BY <2>1 DEF Solo
  <2> QED
    BY <2>1, <2>2 DEF Solo, Pending, InFlight
<1>3. CASE Reboot \/ StartClean
  BY <1>3, RestartKeepsOrForgets DEF Solo, Pending, InFlight
<1>4. CASE Restore \/ UNCHANGED vars
  BY <1>4 DEF Restore, RestoreReads, RestoreStarts, vars, Solo, Pending
<1> QED
  BY <1>0, <1>1, <1>2, <1>3, <1>4 DEF InTurnNext, Requests, Work

LEMMA InitTurn == Init => TurnInv
<1> SUFFICES ASSUME Init PROVE TurnInv
  OBVIOUS
<1> QED
  BY InitType DEF Init, TurnInv, Solo, Pending, InFlight

(* With one request at a time, cut off anywhere, the file implements a set   *)
(* changed by one wish at a time, and emptied by a start script only         *)
(* (functions.php 125-145).                                                  *)
THEOREM InTurnKeepsList == InTurnSpec => ListSpec
<1>1. TurnInv /\ [InTurnNext]_vars => TurnInv'
  BY TurnStep
<1>2. TurnInv /\ [InTurnNext]_vars => [W!Next]_(W!listVars)
  BY ListStep
<1> QED
  BY InitTurn, InitList, <1>1, <1>2, PTL DEF InTurnSpec, ListSpec, W!Spec

-----------------------------------------------------------------------------
(* The commands that are launched.                                          *)

(* A request and its channel while nobody else makes one.                    *)
LEMMA RequestStep ==
  ASSUME IInv, NEW r \in Request, Truncate(r) \/ Write(r) \/ Exec(r)
  PROVE  Outcome' /\ Served'
<1> USE DEF IInv, TurnInv
<1>1. /\ job' = job /\ UNCHANGED <<due, restoring, blind>> /\ job[r] \in Job
      /\ \A q \in Request : q # r => pc'[q] = pc[q] /\ pc[q] \notin InFlight
  BY DEF Truncate, Write, Exec, TypeOK, Solo, InFlight
<1>2. \A q \in Request : pc[q] \in {"write", "exec"} => q = r
  BY <1>1 DEF InFlight
<1>3. CASE Truncate(r)
  <2>1. Settled' = Change(job[r], Settled)
    BY <1>3, TruncateChanges
  <2>2. pc[r] = "truncate" /\ pc'[r] = "write" /\ launched' = launched
    BY <1>3 DEF Truncate, TypeOK
  <2>3. Outcome'
    BY <1>1, <2>1 DEF Outcome, Change, Job, InFlight
  <2>4. ASSUME NEW c \in Channel, job[r].wish # <<Dazn, c>>
        PROVE  Followed(c)'
    <3>1. Followed(c)
      BY <1>2, <2>2 DEF Served
    <3>2. <<Dazn, c>> \in Settled' <=> <<Dazn, c>> \in Settled
      BY <2>1, <2>4 DEF Change
    <3> QED
      BY <1>1, <2>2, <3>1, <3>2 DEF Followed
  <2> QED
    BY <1>1, <2>2, <2>3, <2>4 DEF Served
<1>4. CASE Write(r)
  <2>1. Settled' = Settled
    BY <1>4, OthersKeepList
  <2>2. pc[r] = "write" /\ pc'[r] = "exec" /\ launched' = launched
    BY <1>4 DEF Write, TypeOK
  <2>3. Outcome'
    BY <1>1, <2>1, <2>2 DEF Outcome, InFlight
  <2>4. \A c \in Channel : Followed(c) => Followed(c)'
    BY <1>1, <2>1, <2>2 DEF Followed
  <2> QED
    BY <1>1, <1>2, <2>2, <2>3, <2>4 DEF Served
<1>5. CASE Exec(r)
  <2>1. Settled' = Settled
    BY <1>5, OthersKeepList
  <2>2. pc[r] = "exec" /\ pc'[r] = "answered"
        /\ launched' = Launched(job[r].action, job[r].wish)
    BY <1>5 DEF Exec, TypeOK
  <2>3. job[r].action \in {"START", "STOP"} /\ job[r].wish \in Wish
    BY <1>1 DEF Job
  <2>4. \A c \in Channel : launched'[c] = IF job[r].wish = <<Dazn, c>> THEN job[r].action
                                           ELSE launched[c]
    <3>1. job[r].action \in {"START", "STOP", "RESTORE"}
      BY <2>3
    <3> HIDE DEF IInv, TurnInv
    <3>2. TypeOK
      BY DEF IInv, TurnInv
    <3> QED
      BY <2>2, <2>3, <3>1, <3>2, LaunchedFor
  <2>5. Outcome'
    BY <1>1, <2>2 DEF Outcome, InFlight
  <2>6. ASSUME NEW c \in Channel, job[r].wish # <<Dazn, c>>
        PROVE  Followed(c)'
    <3>1. Followed(c)
      BY <1>2, <2>6 DEF Served
    <3> QED
      BY <1>1, <2>1, <2>4, <2>6, <3>1 DEF Followed
  <2>7. ASSUME NEW c \in Channel, job[r].wish = <<Dazn, c>>
        PROVE  Followed(c)'
    <3>1. job[r].action = "START" <=> <<Dazn, c>> \in Settled
      BY <2>2, <2>7 DEF Outcome
    <3> QED
      BY <2>1, <2>3, <2>4, <2>7, <3>1 DEF Followed
  <2> QED
    BY <2>5, <2>6, <2>7 DEF Served
<1> QED
  BY <1>3, <1>4, <1>5

(* restore.php starts what the file says; a truncated file says nothing.     *)
LEMMA RestoreStep ==
  ASSUME IInv, Restore
  PROVE  Outcome' /\ Served'
<1> USE DEF IInv, TurnInv
<1>1. Settled' = Settled /\ UNCHANGED <<pc, job>>
  BY OthersKeepList DEF Restore, RestoreReads, RestoreStarts
<1>2. Outcome'
  BY <1>1 DEF Outcome
<1>3. CASE RestoreReads
  <2>1. restoring' = disk.wishes /\ blind' = Truncated /\ launched' = launched
    BY <1>3 DEF RestoreReads
  <2>2. ~Truncated => Settled = disk.wishes
    BY DEF Settled
  <2>3. \A c \in Channel : Followed(c) => Followed(c)'
    BY <1>1, <2>1, <2>2 DEF Followed
  <2> QED
    BY <1>1, <1>2, <2>3 DEF Served
<1>4. ASSUME NEW w \in Wish, RestoreStarts(w)
      PROVE  Served'
  <2>1. /\ restoring' = restoring \ {w} /\ UNCHANGED <<due, blind>>
        /\ launched' = Launched("RESTORE", w)
    BY <1>4 DEF RestoreStarts
  <2>2. \A c \in Channel : launched'[c] = IF w = <<Dazn, c>> THEN "RESTORE" ELSE launched[c]
    BY <2>1, LaunchedFor
  <2>3. \A c \in Channel : Followed(c) => Followed(c)'
    BY <1>1, <2>1, <2>2 DEF Followed
  <2> QED
    BY <1>1, <2>3 DEF Served
<1> QED
  BY <1>2, <1>3, <1>4 DEF Restore

LEMMA IInvStep ==
  ASSUME IInv, [InTurnNext]_vars
  PROVE  IInv'
<1> USE DEF IInv
<1>0. TurnInv'
  BY TurnStep
<1> SUFFICES Outcome' /\ Served'
  BY <1>0
<1> USE DEF TurnInv
<1>1. ASSUME NEW r \in Request, NEW j \in Job, NoneInFlight, Read(r, j)
      PROVE  Outcome' /\ Served'
  <2>1. Settled' = Settled
    BY <1>1, OthersKeepList DEF Requests
  <2>2. /\ UNCHANGED <<launched, due, restoring, blind>> /\ pc'[r] = "truncate"
        /\ \A q \in Request : q # r => pc'[q] = pc[q]
        /\ \A q \in Request : pc[q] \notin {"write", "exec"}
    BY <1>1 DEF Read, NoneInFlight, TypeOK, InFlight
  <2>3. Outcome'
    BY <2>2 DEF Outcome
  <2>4. \A c \in Channel : Followed(c)'
    BY <2>1, <2>2 DEF Served, Followed
  <2> QED
    BY <2>3, <2>4 DEF Served
<1>2. CASE Reboot \/ StartClean
  <2>1. (\A r \in Request : pc'[r] \notin InFlight) /\ (due' \/ Settled' = {})
    BY <1>2, RestartKeepsOrForgets
  <2>2. \A c \in Channel : launched'[c] = "none"
    BY <1>2 DEF Reboot, StartClean, KillAll
  <2> QED
    BY <2>1, <2>2 DEF Outcome, Served, Followed, InFlight
<1>3. CASE UNCHANGED vars
  <2>1. Settled' = Settled
    BY <1>3, OthersKeepList
  <2>2. UNCHANGED <<pc, job, launched, due, restoring, blind>>
    BY <1>3 DEF vars
  <2>3. \A c \in Channel : Followed(c) => Followed(c)'
    BY <2>1, <2>2 DEF Followed
  <2> QED
    BY <2>1, <2>2, <2>3 DEF Outcome, Served
<1> QED
  BY <1>0, <1>1, <1>2, <1>3, RequestStep, RestoreStep DEF InTurnNext, Requests, Work

(* In turn, when nothing is under way, the commands launched last are those  *)
(* of the file (api.php 20-33, restore.php), for any number of requests,     *)
(* restores that they overlap, and restarts.                                 *)
THEOREM InTurnAsWished == InTurnSpec => []AsWished
<1>1. Init => IInv
  <2> SUFFICES ASSUME Init PROVE Outcome /\ Served
    BY InitTurn DEF IInv
  <2>1. due /\ \A c \in Channel : launched[c] = "none"
    BY DEF Init
  <2>2. \A r \in Request : pc[r] = "idle"
    BY DEF Init
  <2> QED
    BY <2>1, <2>2 DEF Outcome, Served, Followed
<1>2. IInv /\ [InTurnNext]_vars => IInv'
  BY IInvStep
<1>3. IInv => AsWished
  <2> SUFFICES ASSUME IInv, Quiet, NEW c \in Channel
               PROVE  IF <<Dazn, c>> \in disk.wishes
                        THEN launched[c] \in {"START", "RESTORE"} \/ blind
                        ELSE launched[c] # "START"
    BY DEF AsWished
  <2>1. Settled = disk.wishes
    BY DEF Settled, Truncated, Quiet, NoneInFlight, InFlight
  <2>2. Followed(c)
    BY DEF IInv, Served, Quiet, NoneInFlight, InFlight
  <2> QED
    BY <2>1, <2>2 DEF Followed, Quiet
<1> QED
  BY <1>1, <1>2, <1>3, PTL DEF InTurnSpec

-----------------------------------------------------------------------------
(* Requests are numbered as they arrive, the one in flight is the last.      *)
Numbered ==
  \A q \in Request : pc[q] = "idle" =>
    job[q] = NoJob /\ \A p \in Request : q < p => pc[p] = "idle"

FlightIsLast ==
  \A q, p \in Request : pc[q] \in InFlight /\ q < p => pc[p] = "idle"

(* The wish of a START stays on the list until a STOP for it.                *)
Unstopped(r) ==
  /\ job[r].action = "START"
  /\ \A q \in Request : q > r => job[q] # [job[r] EXCEPT !.action = "STOP"]

Remembered ==
  \A r \in Request :
    Unstopped(r) /\ pc[r] \in {"write", "exec", "answered"} => job[r].wish \in Settled

MemoryInv == Numbered /\ FlightIsLast /\ (reboots = 0 => Remembered)

LEMMA ReadRemembers ==
  ASSUME TurnInv, MemoryInv,
         NoneInFlight, NEW p \in Request, NEW j \in Job, Read(p, j)
  PROVE  MemoryInv'
<1> USE DEF TurnInv
<1>1. Request \subseteq Nat
  BY DEF Request
<1>2. /\ pc[p] = "idle" /\ pc'[p] = "truncate" /\ job'[p] = j /\ reboots' = reboots
      /\ \A q \in Request : q < p => pc[q] # "idle"
      /\ \A q \in Request : q # p => pc'[q] = pc[q] /\ job'[q] = job[q]
      /\ \A q \in Request : pc[q] \notin InFlight
  BY DEF Read, NoneInFlight, TypeOK
<1>3. Numbered'
  BY <1>1, <1>2 DEF MemoryInv, Numbered
<1>4. FlightIsLast'
  <2>1. \A q \in Request : pc'[q] \in InFlight => q = p
    BY <1>2
  <2>2. \A q \in Request : p < q => pc[q] = "idle" /\ q # p
    BY <1>1, <1>2 DEF MemoryInv, Numbered
  <2> QED
    BY <1>2, <2>1, <2>2 DEF FlightIsLast
<1>5. ASSUME reboots = 0
      PROVE  Remembered'
  <2>1. Settled' = Settled
    BY OthersKeepList DEF Requests
  <2> SUFFICES ASSUME NEW r \in Request, Unstopped(r)',
                      pc'[r] \in {"write", "exec", "answered"}
               PROVE  job'[r].wish \in Settled'
    BY DEF Remembered
  <2>2. r # p /\ pc'[r] = pc[r] /\ job'[r] = job[r]
    BY <1>2
  <2>3. job[p] # [job[r] EXCEPT !.action = "STOP"]
    <3>1. job[p] = NoJob /\ job[r] \in Job
      BY <1>2, <2>2 DEF MemoryInv, Numbered, TypeOK
    <3> QED
      BY <3>1 DEF NoJob, Job
  <2>4. Unstopped(r)
    <3>1. \A q \in Request : q > r /\ q # p => job[q] # [job[r] EXCEPT !.action = "STOP"]
      BY <1>2, <2>2 DEF Unstopped
    <3> QED
      BY <2>2, <2>3, <3>1 DEF Unstopped
  <2> QED
    BY <1>5, <2>1, <2>2, <2>4 DEF MemoryInv, Remembered
<1> QED
  BY <1>2, <1>3, <1>4, <1>5 DEF MemoryInv

(* The step of a request in flight: the wishes of those before it remain,     *)
(* unless it is their STOP, and its own is added.                            *)
LEMMA WorkRemembers ==
  ASSUME TurnInv, MemoryInv,
         NEW p \in Request, Truncate(p) \/ Write(p) \/ Exec(p)
  PROVE  MemoryInv'
<1> USE DEF TurnInv
<1>1. Request \subseteq Nat
  BY DEF Request
<1>2. /\ pc[p] \in InFlight /\ pc'[p] # "idle" /\ job' = job /\ reboots' = reboots
      /\ \A q \in Request : q # p => pc'[q] = pc[q]
  BY DEF Truncate, Write, Exec, TypeOK, InFlight
<1>3. \A q \in Request : q # p => pc[q] \notin InFlight
  BY <1>2 DEF Solo
<1>4. Numbered'
  BY <1>2 DEF MemoryInv, Numbered, InFlight
<1>5. FlightIsLast'
  <2>1. \A q \in Request : p < q => pc'[q] = "idle"
    BY <1>1, <1>2 DEF MemoryInv, FlightIsLast
  <2> QED
    BY <1>2, <1>3, <2>1 DEF FlightIsLast
<1>6. \A r \in Request : Unstopped(r)' <=> Unstopped(r)
  BY <1>2 DEF Unstopped
<1>7. ASSUME reboots = 0
      PROVE  Remembered'
  <2> SUFFICES ASSUME NEW r \in Request, Unstopped(r),
                      pc'[r] \in {"write", "exec", "answered"}
               PROVE  job[r].wish \in Settled'
    BY <1>2, <1>6 DEF Remembered
  <2>1. CASE Truncate(p)
    <3>1. Settled' = Change(job[p], Settled) /\ job[p] \in Job
      BY <2>1, TruncateChanges
    <3>2. CASE r = p
      BY <3>1, <3>2 DEF Change, Unstopped
    <3>3. CASE r # p
      <4>1. pc[r] = "answered" /\ pc[r] # "idle" /\ job[r] \in Job
        BY <1>2, <1>3, <3>3 DEF InFlight, TypeOK
      <4>2. job[r].wish \in Settled
        BY <1>7, <4>1 DEF MemoryInv, Remembered
      <4>3. r < p
        BY <1>1, <1>2, <3>3, <4>1 DEF MemoryInv, FlightIsLast
      <4>4. job[p] # [job[r] EXCEPT !.action = "STOP"]
        BY <1>1, <4>3 DEF Unstopped
      <4>5. ~(job[p].action = "STOP" /\ job[p].wish = job[r].wish)
        BY <3>1, <4>1, <4>4 DEF Job
      <4>6. job[p].action \in {"START", "STOP"}
        BY <3>1 DEF Job
      <4> QED
        BY <3>1, <4>2, <4>5, <4>6 DEF Change
    <3> QED
      BY <3>2, <3>3
  <2>2. CASE Write(p) \/ Exec(p)
    <3>1. Settled' = Settled
      BY <2>2, OthersKeepList
    <3>2. pc[r] \in {"write", "exec", "answered"}
      BY <1>2, <2>2 DEF Write, Exec, TypeOK
    <3> QED
      BY <1>7, <3>1, <3>2 DEF MemoryInv, Remembered
  <2> QED
    BY <2>1, <2>2
<1> QED
  BY <1>2, <1>4, <1>5, <1>7 DEF MemoryInv

LEMMA MemoryStep ==
  ASSUME TurnInv, MemoryInv, [InTurnNext]_vars
  PROVE  MemoryInv'
<1> USE DEF TurnInv
<1>1. CASE NoneInFlight /\ Requests
  BY <1>1, ReadRemembers DEF Requests
<1>2. CASE \E p \in Request : Truncate(p) \/ Write(p) \/ Exec(p)
  BY <1>2, WorkRemembers
<1>3. CASE Reboot \/ StartClean
  <2>1. reboots' # 0 /\ job' = job
    BY <1>3 DEF Reboot, StartClean, KillAll, TypeOK
  <2>2. \A q \in Request : pc'[q] \notin InFlight /\ (pc'[q] = "idle" <=> pc[q] = "idle")
    BY <1>3 DEF Reboot, StartClean, KillAll, TypeOK, InFlight
  <2> QED
    BY <2>1, <2>2 DEF MemoryInv, Numbered, FlightIsLast
<1>4. CASE Restore \/ UNCHANGED vars
  <2>1. UNCHANGED <<pc, job, reboots>>
    BY <1>4 DEF Restore, RestoreReads, RestoreStarts, vars
  <2>2. Settled' = Settled
    BY <1>4, OthersKeepList
  <2> QED
    BY <2>1, <2>2 DEF MemoryInv, Numbered, FlightIsLast, Remembered, Unstopped
<1> QED
  BY <1>1, <1>2, <1>3, <1>4 DEF InTurnNext, Work

LEMMA InitMemory == Init => MemoryInv
<1> SUFFICES ASSUME Init PROVE MemoryInv
  OBVIOUS
<1>1. \A r \in Request : pc[r] = "idle" /\ job[r] = NoJob
  BY DEF Init
<1> QED
  BY <1>1 DEF MemoryInv, Numbered, FlightIsLast, Remembered, InFlight

(* Remembered wishes are in the file when no request is in flight.           *)
LEMMA MemoryKeeps ==
  ASSUME MemoryInv, reboots = 0
  PROVE  AnsweredIsKept
<1> SUFFICES ASSUME NoneInFlight, NEW r \in Request, pc[r] = "answered", Unstopped(r)
             PROVE  job[r].wish \in disk.wishes
  BY DEF AnsweredIsKept, Unstopped
<1>1. Settled = disk.wishes
  BY DEF Settled, Truncated, NoneInFlight, InFlight
<1> QED
  BY <1>1 DEF MemoryInv, Remembered

(* With one request at a time and no restart, an answer keeps its word: the   *)
(* wish of an answered START is in the file until its STOP (api.php:24). So   *)
(* it takes an overlap to lose one.                                          *)
THEOREM InTurnAnsweredIsKept == InTurnSpec => [](reboots = 0 => AnsweredIsKept)
<1>1. TurnInv /\ [InTurnNext]_vars => TurnInv'
  BY TurnStep
<1>2. TurnInv /\ MemoryInv /\ [InTurnNext]_vars => MemoryInv'
  BY MemoryStep
<1>3. MemoryInv => (reboots = 0 => AnsweredIsKept)
  BY MemoryKeeps
<1> QED
  BY InitTurn, InitMemory, <1>1, <1>2, <1>3, PTL DEF InTurnSpec

=============================================================================
