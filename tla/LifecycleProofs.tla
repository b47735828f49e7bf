--------------------------- MODULE LifecycleProofs ---------------------------
(* Theorems about the processes of the panel for any set of channels and    *)
(* any number of commands and restarts.                                     *)
EXTENDS Lifecycle, FiniteSetTheorems, TLAPS

IsStart(k, c) == job[k] = [action |-> "START", channel |-> c]
IsStop(k, c) == job[k] = [action |-> "STOP", channel |-> c]

(* Two processes that START one channel: the older one is in its rounds, or *)
(* has gone back to clean, and the younger is about to kill it.             *)
Sole ==
  \A j, k \in Command, c \in Channel :
    /\ j # k /\ IsStart(j, c) /\ IsStart(k, c)
    /\ pc[j] \in Alive /\ pc[k] \in Alive
    => \/ pc[j] = "kill" /\ pc[k] \in Titled
       \/ pc[k] = "kill" /\ pc[j] \in Titled

(* A channel restore.php has still to start has no process.                 *)
Unstarted ==
  \A c \in restoring, k \in Command :
    (IsStart(k, c) \/ IsStop(k, c)) => pc[k] \notin Alive

WorkerInv == TypeOK /\ Sole /\ Unstarted

-----------------------------------------------------------------------------
LEMMA InitType == Init => TypeOK
BY DEF Init, TypeOK

LEMMA TypeStep ==
  ASSUME TypeOK, [Next]_vars
  PROVE  TypeOK'
<1> USE DEF TypeOK, Alive, InProgress, Making, Looping
<1>1. ASSUME NEW k \in Command, NEW c \in Channel, NEW action \in {"START", "STOP"},
             Request(k, action, c)
      PROVE  TypeOK'
  <2>1. pc' \in [Command -> Alive \cup {"idle", "done", "dead"}]
    BY <1>1 DEF Request, Launch
  <2>2. job' \in [Command -> Jobs \cup {NoJob}]
    BY <1>1 DEF Request, Launch, Jobs
  <2>3. persisted' \subseteq Channel
    BY <1>1 DEF Request
  <2> QED
    BY <1>1, <2>1, <2>2, <2>3 DEF Request
<1>2. CASE Reboot \/ StartClean
  <2>1. pc' \in [Command -> Alive \cup {"idle", "done", "dead"}]
    BY <1>2 DEF Reboot, StartClean, KillAll
  <2>2. dirs' \in [Channel -> SUBSET Whole] /\ left' \in [Command -> SUBSET Whole]
    BY <1>2 DEF Reboot, StartClean, KillAll
  <2>3. cache' \in [Channel -> Command \cup {NoOne}]
    BY <1>2 DEF Reboot, StartClean, KillAll
  <2>4. job' = job /\ reboots' \in Nat
    BY <1>2 DEF Reboot, StartClean, KillAll
  <2>5. persisted' \subseteq Channel /\ restoring' \subseteq Channel
    BY <1>2 DEF Reboot, StartClean
  <2> QED
    BY <2>1, <2>2, <2>3, <2>4, <2>5
<1>3. ASSUME NEW k \in Command, NEW c \in Channel, Restore(k, c)
      PROVE  TypeOK'
  <2>1. pc' \in [Command -> Alive \cup {"idle", "done", "dead"}]
    BY <1>3 DEF Restore, Launch
  <2>2. job' \in [Command -> Jobs \cup {NoJob}]
    BY <1>3 DEF Restore, Launch, Jobs
  <2> QED
    BY <1>3, <2>1, <2>2 DEF Restore
<1>4. RmBegins => left' \in [Command -> SUBSET Whole]
  BY DEF RmBegins
<1>5. ASSUME NEW k \in Command, Kill(k)
      PROVE  TypeOK'
  <2>1. pc' \in [Command -> Alive \cup {"idle", "done", "dead"}]
    BY <1>5 DEF Kill
  <2> QED
    BY <1>4, <1>5, <2>1 DEF Kill
<1>6. ASSUME NEW k \in Command, SetTitle(k) \/ MakeParts(k) \/ MakeFinal(k)
      PROVE  TypeOK'
  BY <1>6 DEF SetTitle, MakeParts, MakeFinal, Whole, VideoDirs
<1>7. ASSUME NEW k \in Command, SaveCache(k) \/ ForceStopped(k)
      PROVE  TypeOK'
  BY <1>4, <1>7 DEF SaveCache, ForceStopped
<1>8. ASSUME NEW k \in Command, MakeHls(k)
      PROVE  TypeOK'
  BY <1>4, <1>8 DEF MakeHls, Whole
<1>9. ASSUME NEW k \in Command, Remove(k)
      PROVE  TypeOK'
  <2>1. dirs' \in [Channel -> SUBSET Whole]
    BY <1>9 DEF Remove
  <2>2. left' \in [Command -> SUBSET Whole]
    BY <1>9 DEF Remove
  <2> QED
    BY <1>9, <2>1, <2>2 DEF Remove
<1>10. ASSUME NEW k \in Command, Cleaned(k) \/ Round(k) \/ DeleteCache(k)
       PROVE  TypeOK'
  BY <1>10 DEF Cleaned, Round, DeleteCache
<1>11. ASSUME NEW k \in Command, Check(k) \/ ExitWithoutKey(k)
       PROVE  TypeOK'
  BY <1>11 DEF Check, ExitWithoutKey
<1>12. CASE UNCHANGED vars
  BY <1>12 DEF vars
<1> QED
  BY <1>1, <1>2, <1>3, <1>5, <1>6, <1>7, <1>8, <1>9, <1>10, <1>11, <1>12
     DEF Next, Requests, Other, Step

(* Types of processes, directories and cache files hold in any order of requests.     *)
THEOREM SpecTypeOK == Spec => []TypeOK
<1>1. TypeOK /\ [Next]_vars => TypeOK'
  BY TypeStep
<1> QED
  BY InitType, <1>1, PTL DEF Spec

-----------------------------------------------------------------------------
(* Steps that launch nothing and kill nothing: a worker gets its title, goes *)
(* round, or exits; a STOP goes on; or no process moves.                     *)
Moves(k) ==
  /\ UNCHANGED <<job, persisted, restoring>>
  /\ \A j \in Command : j # k => pc'[j] = pc[j]
  /\ \/ pc[k] = "title" /\ pc'[k] = "cache"
     \/ pc[k] \in Titled /\ pc'[k] \in Titled
     \/ pc[k] \in Titled /\ pc'[k] = "done" /\ KeystoreFails
     \/ pc[k] = "rm" /\ pc'[k] = "done"
     \/ pc'[k] = pc[k]

LEMMA StepMoves ==
  ASSUME TypeOK, NEW k \in Command, Step(k) \/ ExitWithoutKey(k)
  PROVE  Kill(k) \/ Moves(k)
<1> USE DEF TypeOK, Titled, Moves, Making, Looping
<1>1. CASE SetTitle(k) \/ SaveCache(k) \/ Remove(k) \/ Cleaned(k)
  BY <1>1 DEF SetTitle, SaveCache, Remove, Cleaned, At
<1>2. CASE MakeParts(k) \/ MakeFinal(k) \/ MakeHls(k)
  BY <1>2 DEF MakeParts, MakeFinal, MakeHls, At
<1>3. CASE Check(k) \/ Round(k) \/ ForceStopped(k) \/ ExitWithoutKey(k)
  BY <1>3 DEF Check, Round, ForceStopped, ExitWithoutKey, At
<1>4. CASE DeleteCache(k)
  BY <1>4 DEF DeleteCache, At
<1> QED
  BY <1>1, <1>2, <1>3, <1>4 DEF Step

(* The steps of a patient user's panel.                                      *)
LEMMA PatientSteps ==
  ASSUME TypeOK, [PatientNext]_vars
  PROVE  \/ \E k \in Command, c \in Channel, action \in {"START", "STOP"} :
              AtRest /\ Request(k, action, c)
         \/ \E k \in Command, c \in Channel : Restore(k, c)
         \/ Reboot \/ StartClean
         \/ \E k \in Command : Kill(k)
         \/ \E k \in Command : Moves(k)
         \/ UNCHANGED <<pc, job, persisted, restoring>>
<1>1. CASE UNCHANGED vars
  BY <1>1 DEF vars
<1>2. CASE AtRest /\ Requests
  BY <1>2 DEF Requests
<1>3. CASE Other
  BY <1>3, StepMoves DEF Other
<1> QED
  BY <1>1, <1>2, <1>3 DEF PatientNext

LEMMA InitWorkers == Init => WorkerInv
<1> SUFFICES ASSUME Init PROVE WorkerInv
  OBVIOUS
<1>1. TypeOK
  BY InitType
<1> QED
  BY <1>1 DEF Init, WorkerInv, Sole, Unstarted, Alive, InProgress, Making, Looping

(* The kill before the title and the title before the next kill keep workers *)
(* of one channel apart, whatever names contain each other.                  *)
LEMMA WorkerStep ==
  ASSUME WorkerInv, [PatientNext]_vars
  PROVE  WorkerInv'
<1>0. TypeOK'
  <2>1. [Next]_vars
    BY DEF PatientNext, Next
  <2> QED
    BY <2>1, TypeStep DEF WorkerInv
<1> USE DEF WorkerInv
<1> SUFFICES Sole' /\ Unstarted'
  BY <1>0
<1>1. ASSUME NEW k \in Command, NEW c \in Channel, NEW action \in {"START", "STOP"},
             AtRest, Request(k, action, c)
      PROVE  Sole' /\ Unstarted'
  <2>1. pc'[k] = "kill" /\ job'[k] = [action |-> action, channel |-> c] /\ restoring' = {}
    BY <1>1 DEF Request, Launch, TypeOK, AtRest
  <2>2. \A j \in Command : j # k => pc'[j] = pc[j] /\ job'[j] = job[j]
    BY <1>1 DEF Request, Launch, TypeOK
  <2>3. \A j \in Command : pc[j] \in Alive => pc[j] \in Titled
    BY <1>1 DEF AtRest, Alive, InProgress, Titled, Making, Looping
  <2>4. Sole'
    BY <2>1, <2>2, <2>3 DEF Sole, IsStart
  <2> QED
    BY <2>1, <2>4 DEF Unstarted
<1>2. ASSUME NEW k \in Command, NEW c \in Channel, Restore(k, c)
      PROVE  Sole' /\ Unstarted'
  <2>1. pc'[k] = "kill" /\ job'[k] = [action |-> "START", channel |-> c]
        /\ c \in restoring /\ restoring' = restoring \ {c}
    BY <1>2 DEF Restore, Launch, TypeOK
  <2>2. \A j \in Command : j # k => pc'[j] = pc[j] /\ job'[j] = job[j]
    BY <1>2 DEF Restore, Launch, TypeOK
  <2>3. \A j \in Command : IsStart(j, c) => pc[j] \notin Alive
    BY <2>1 DEF Unstarted
  <2>4. Sole'
    BY <2>1, <2>2, <2>3 DEF Sole, IsStart
  <2>5. Unstarted'
    BY <2>1, <2>2 DEF Unstarted, IsStart, IsStop
  <2> QED
    BY <2>4, <2>5
<1>3. CASE Reboot \/ StartClean
  <2>1. \A k \in Command : pc'[k] \notin Alive
    BY <1>3 DEF Reboot, StartClean, KillAll, TypeOK, Alive, InProgress, Making, Looping
  <2> QED
    BY <2>1 DEF Sole, Unstarted
<1>4. ASSUME NEW k \in Command, Kill(k)
      PROVE  Sole' /\ Unstarted'
  <2>1. pc[k] = "kill" /\ pc'[k] \notin Titled /\ UNCHANGED <<job, restoring>>
    BY <1>4 DEF Kill, TypeOK, Titled, Making, Looping
  <2>2. \A j \in Command : j # k => pc'[j] \in {pc[j], "dead"}
    BY <1>4 DEF Kill, TypeOK
  <2>3. \A j \in Command, c \in Channel :
          j # k /\ pc[j] \in Titled /\ IsStart(j, c) /\ IsStart(k, c) => pc'[j] = "dead"
    BY <1>4, LifecycleAssumption DEF Kill, TypeOK, Victims, IsStart
  <2>4. "dead" \notin Alive /\ "kill" \in Alive /\ "kill" \notin Titled
    BY DEF Alive, InProgress, Titled, Making, Looping
  <2>5. \A j \in Command, c \in Channel :
          j # k /\ IsStart(j, c) /\ IsStart(k, c) => pc'[j] \notin Alive
    BY <2>1, <2>2, <2>3, <2>4 DEF Sole
  <2>6. Sole'
    <3> SUFFICES ASSUME NEW i \in Command, NEW j \in Command, NEW c \in Channel,
                        i # j, IsStart(i, c), IsStart(j, c), pc'[i] \in Alive, pc'[j] \in Alive
                 PROVE  \/ pc'[i] = "kill" /\ pc'[j] \in Titled
                        \/ pc'[j] = "kill" /\ pc'[i] \in Titled
      BY <2>1 DEF Sole, IsStart
    <3>1. i # k /\ j # k
      BY <2>5
    <3>2. pc'[i] = pc[i] /\ pc'[j] = pc[j]
      BY <2>2, <2>4, <3>1
    <3> QED
      BY <3>2 DEF Sole
  <2>7. Unstarted'
    BY <2>1, <2>2, <2>4 DEF Unstarted, IsStart, IsStop
  <2> QED
    BY <2>6, <2>7
<1>5. ASSUME NEW k \in Command, Moves(k)
      PROVE  Sole' /\ Unstarted'
  <2>1. UNCHANGED <<job, restoring>> /\ \A j \in Command : j # k => pc'[j] = pc[j]
    BY <1>5 DEF Moves
  <2>2. pc'[k] \in Alive => pc[k] \in Alive
    BY <1>5 DEF Moves, Titled, Alive, InProgress, Making, Looping
  <2>3. pc[k] \in Titled \/ pc'[k] = pc[k] \/ (pc[k] \notin Titled /\ pc[k] # "kill")
    BY <1>5 DEF Moves, Titled, Making, Looping
  <2>4. pc'[k] \in Alive /\ pc[k] \in Titled => pc'[k] \in Titled
    BY <1>5 DEF Moves, Titled, Alive, InProgress, Making, Looping
  <2>5. \A j \in Command : pc'[j] \in Alive => pc[j] \in Alive
    BY <2>1, <2>2
  <2>6. Sole'
    <3> SUFFICES ASSUME NEW i \in Command, NEW j \in Command, NEW c \in Channel,
                        i # j, IsStart(i, c), IsStart(j, c), pc'[i] \in Alive, pc'[j] \in Alive
                 PROVE  \/ pc'[i] = "kill" /\ pc'[j] \in Titled
                        \/ pc'[j] = "kill" /\ pc'[i] \in Titled
      BY <2>1 DEF Sole, IsStart
    <3>1. \/ pc[i] = "kill" /\ pc[j] \in Titled
          \/ pc[j] = "kill" /\ pc[i] \in Titled
      BY <2>5 DEF Sole
    <3>2. "kill" \notin Titled
      BY DEF Titled, Making, Looping
    <3> QED
      BY <2>1, <2>3, <2>4, <3>1, <3>2
  <2>7. Unstarted'
    BY <2>1, <2>5 DEF Unstarted, IsStart, IsStop
  <2> QED
    BY <2>6, <2>7
<1>6. CASE UNCHANGED <<pc, job, persisted, restoring>>
  BY <1>6 DEF Sole, Unstarted, IsStart, IsStop
<1> QED
  BY <1>1, <1>2, <1>3, <1>4, <1>5, <1>6, PatientSteps

(* For a patient user a channel has one worker at most (dazn.php 19-21), with *)
(* any number of channels, names, commands and restarts, and workers that     *)
(* exit.                                                                      *)
THEOREM PatientOneWorker == PatientSpec => []OneWorker
<1>1. WorkerInv /\ [PatientNext]_vars => WorkerInv'
  BY WorkerStep
<1>2. WorkerInv => OneWorker
  <2> SUFFICES ASSUME WorkerInv, NEW c \in Channel PROVE Cardinality(Workers(c)) <= 1
    BY DEF OneWorker
  <2>1. \A j, k \in Workers(c) : j = k
    <3> SUFFICES ASSUME NEW j \in Workers(c), NEW k \in Workers(c), j # k PROVE FALSE
      OBVIOUS
    <3>1. /\ j \in Command /\ IsStart(j, c) /\ pc[j] \in Titled
          /\ k \in Command /\ IsStart(k, c) /\ pc[k] \in Titled
      BY DEF Workers, IsStart
    <3>2. Titled \subseteq Alive /\ "kill" \notin Titled
      BY DEF Titled, Alive, InProgress, Making, Looping
    <3> QED
      BY <3>1, <3>2 DEF WorkerInv, Sole
  <2>2. CASE Workers(c) = {}
    BY <2>2, FS_EmptySet
  <2>3. CASE Workers(c) # {}
    <3>1. PICK k : Workers(c) = {k}
      BY <2>1, <2>3
    <3> QED
      BY <3>1, FS_Singleton
  <2> QED
    BY <2>2, <2>3
<1> QED
  BY InitWorkers, <1>1, <1>2, PTL DEF PatientSpec

-----------------------------------------------------------------------------
(* The channels requests and restarts leave with a worker.                  *)

Known == \A k \in Command : pc[k] \in Alive => \E c \in Channel : IsStart(k, c) \/ IsStop(k, c)

(* START and STOP take the steps of their own script.                       *)
OwnSteps ==
  \A k \in Command, c \in Channel :
    /\ IsStart(k, c) => pc[k] \notin {"rm"}
    /\ IsStop(k, c) /\ pc[k] \in Alive => pc[k] \in {"kill", "rm"}

(* While a STOP is under way nothing else is.                               *)
Lone ==
  \A j \in Command, c \in Channel :
    IsStop(j, c) /\ pc[j] \in Alive =>
      restoring = {} /\ \A k \in Command : k # j /\ pc[k] \in Alive => pc[k] \in Titled

StopAtKill(c) == \E j \in Command : IsStop(j, c) /\ pc[j] = "kill"

Held(c) == (\E k \in Command : IsStart(k, c) /\ pc[k] \in Alive) /\ ~StopAtKill(c)

(* A channel is persisted as long as it has a process that no STOP is about  *)
(* to kill, or restore.php has still to start it.                            *)
Carried == \A c \in Channel : c \in persisted <=> c \in restoring \/ Held(c)

RequestInv == TypeOK /\ Known /\ OwnSteps /\ Lone /\ Carried

OwnNamesOnly == ~KeystoreFails /\ \A c, d \in Channel : <<c, d>> \in Within => c = d

LEMMA InitRequests == Init => RequestInv
<1> SUFFICES ASSUME Init PROVE RequestInv
  OBVIOUS
<1>1. TypeOK
  BY InitType
<1>2. \A k \in Command : pc[k] \notin Alive /\ pc[k] \notin {"rm"}
  BY DEF Init, Alive, InProgress, Making, Looping
<1>3. Carried
  BY <1>2 DEF Init, Carried, Held
<1> QED
  BY <1>1, <1>2, <1>3 DEF RequestInv, Known, OwnSteps, Lone

(* What a launch leaves alone.                                               *)
LEMMA LaunchedOne ==
  ASSUME TypeOK, NEW k \in Command, NEW action \in {"START", "STOP"}, NEW c \in Channel,
         Launch(k, action, c)
  PROVE  /\ pc[k] = "idle" /\ pc'[k] = "kill"
         /\ job'[k] = [action |-> action, channel |-> c]
         /\ \A j \in Command : j # k => pc'[j] = pc[j] /\ job'[j] = job[j]
BY DEF Launch, TypeOK

LEMMA RequestStep ==
  ASSUME RequestInv, NEW k \in Command, NEW c \in Channel, NEW action \in {"START", "STOP"},
         AtRest, Request(k, action, c)
  PROVE  Known' /\ OwnSteps' /\ Lone' /\ Carried'
<1> USE DEF RequestInv
<1>1. /\ pc[k] = "idle" /\ pc'[k] = "kill"
      /\ job'[k] = [action |-> action, channel |-> c]
      /\ \A j \in Command : j # k => pc'[j] = pc[j] /\ job'[j] = job[j]
  BY LaunchedOne DEF Request
<1>2. restoring = {} /\ restoring' = {}
  BY DEF AtRest, Request
<1>3. persisted' = IF action = "START" THEN persisted \cup {c} ELSE persisted \ {c}
  BY DEF Request
<1>4. \A j \in Command : pc[j] \in Alive => pc[j] \in Titled /\ pc[j] \in Looping
  BY DEF AtRest, Alive, InProgress, Titled, Making, Looping
<1>5. "kill" \in Alive /\ "idle" \notin Alive /\ "kill" \notin Looping
  BY DEF Alive, InProgress, Making, Looping
<1>6. \A j \in Command, d \in Channel : IsStop(j, d) => pc[j] \notin Alive
  BY <1>4 DEF OwnSteps, Looping
<1>7. Known'
  BY <1>1 DEF Known, IsStart, IsStop
<1>8. OwnSteps'
  BY <1>1 DEF OwnSteps, IsStart, IsStop
<1>9. Lone'
  BY <1>1, <1>2, <1>4, <1>6 DEF Lone, IsStop
<1>10. \A d \in Channel \ {c} : Held(d)' <=> Held(d)
  BY <1>1, <1>5 DEF Held, StopAtKill, IsStart, IsStop
<1>11. Held(c)' <=> action = "START"
  BY <1>1, <1>5, <1>6 DEF Held, StopAtKill, IsStart, IsStop
<1>12. Carried'
  BY <1>2, <1>3, <1>10, <1>11 DEF Carried
<1> QED
  BY <1>7, <1>8, <1>9, <1>12

LEMMA RestoreStep ==
  ASSUME RequestInv, NEW k \in Command, NEW c \in Channel, Restore(k, c)
  PROVE  Known' /\ OwnSteps' /\ Lone' /\ Carried'
<1> USE DEF RequestInv
<1>1. /\ pc[k] = "idle" /\ pc'[k] = "kill"
      /\ job'[k] = [action |-> "START", channel |-> c]
      /\ \A j \in Command : j # k => pc'[j] = pc[j] /\ job'[j] = job[j]
  BY LaunchedOne DEF Restore
<1>2. c \in restoring /\ restoring' = restoring \ {c} /\ persisted' = persisted
  BY DEF Restore
<1>3. \A j \in Command, d \in Channel : IsStop(j, d) => pc[j] \notin Alive
  BY <1>2 DEF Lone
<1>4. "kill" \in Alive /\ "idle" \notin Alive
  BY DEF Alive, InProgress, Making, Looping
<1>5. Known'
  BY <1>1 DEF Known, IsStart, IsStop
<1>6. OwnSteps'
  BY <1>1 DEF OwnSteps, IsStart, IsStop
<1>7. Lone'
  BY <1>1, <1>3 DEF Lone, IsStop
<1>8. \A d \in Channel \ {c} : Held(d)' <=> Held(d)
  BY <1>1, <1>4 DEF Held, StopAtKill, IsStart, IsStop
<1>9. Held(c)'
  BY <1>1, <1>3, <1>4 DEF Held, StopAtKill, IsStart, IsStop
<1>10. Carried'
  BY <1>2, <1>8, <1>9 DEF Carried
<1> QED
  BY <1>5, <1>6, <1>7, <1>10

(* A kill reaches no other channel's worker, and a STOP's kill finds every   *)
(* worker of its channel with its title.                                     *)
LEMMA KillStep ==
  ASSUME RequestInv, OwnNamesOnly, NEW k \in Command, Kill(k)
  PROVE  Known' /\ OwnSteps' /\ Lone' /\ Carried'
<1> USE DEF RequestInv
<1>1. pc[k] = "kill" /\ UNCHANGED <<job, persisted, restoring>>
  BY DEF Kill
<1>2. \A j \in Command : j # k => pc'[j] \in {pc[j], "dead"}
  BY DEF Kill, TypeOK
<1>3. /\ "dead" \notin Alive /\ "kill" \in Alive /\ "kill" \notin Titled
      /\ "title" \in Alive /\ "rm" \in Alive /\ Titled \subseteq Alive
  BY DEF Alive, InProgress, Titled, Making, Looping
<1>4. PICK c \in Channel : IsStart(k, c) \/ IsStop(k, c)
  BY <1>1, <1>3 DEF Known
<1>5. (IsStart(k, c) => pc'[k] = "title") /\ (IsStop(k, c) => pc'[k] = "rm")
  BY <1>1 DEF Kill, TypeOK, IsStart, IsStop
<1>6. \A j \in Command : pc'[j] \in Alive => pc[j] \in Alive /\ (j = k \/ pc'[j] = pc[j])
  BY <1>1, <1>2, <1>3
<1>7. \A j \in Command, d \in Channel : IsStart(j, d) \/ IsStop(j, d) => d = job[j].channel
  BY DEF IsStart, IsStop
<1>8. \A j \in Command, d \in Channel :
        j # k /\ d # c /\ (IsStart(j, d) \/ IsStop(j, d)) => pc'[j] = pc[j]
  BY <1>4, <1>7 DEF Kill, TypeOK, Victims, OwnNamesOnly
<1>9. Known'
  BY <1>1, <1>6 DEF Known, IsStart, IsStop
<1>10. OwnSteps'
  <2>1. ASSUME NEW j \in Command, NEW d \in Channel, IsStart(j, d)
        PROVE  pc'[j] \notin {"rm"}
    <3>1. CASE j = k
      BY <1>4, <1>5, <2>1, <3>1 DEF IsStart, IsStop
    <3>2. CASE j # k
      BY <1>2, <2>1, <3>2 DEF OwnSteps
    <3> QED
      BY <3>1, <3>2
  <2>2. ASSUME NEW j \in Command, NEW d \in Channel, IsStop(j, d), pc'[j] \in Alive
        PROVE  pc'[j] \in {"kill", "rm"}
    <3>1. CASE j = k
      BY <1>4, <1>5, <2>2, <3>1 DEF IsStart, IsStop
    <3>2. CASE j # k
      BY <1>6, <2>2, <3>2 DEF OwnSteps
    <3> QED
      BY <3>1, <3>2
  <2> QED
    BY <1>1, <2>1, <2>2 DEF OwnSteps, IsStart, IsStop
<1>11. Lone'
  <2> SUFFICES ASSUME NEW j \in Command, NEW d \in Channel, IsStop(j, d), pc'[j] \in Alive
               PROVE  /\ restoring = {}
                      /\ \A i \in Command : i # j /\ pc'[i] \in Alive => pc'[i] \in Titled
    BY <1>1 DEF Lone, IsStop
  <2>1. pc[j] \in Alive
    BY <1>6
  <2>2. restoring = {} /\ \A i \in Command : i # j /\ pc[i] \in Alive => pc[i] \in Titled
    BY <2>1 DEF Lone
  <2>3. j = k
    BY <1>1, <1>3, <2>2
  <2> QED
    BY <1>6, <2>2, <2>3
<1>12. \A d \in Channel \ {c} : Held(d)' <=> Held(d)
  <2>1. \A d \in Channel \ {c} : ~IsStart(k, d) /\ ~IsStop(k, d)
    BY <1>4, <1>7
  <2> QED
    BY <1>1, <1>8, <2>1 DEF Held, StopAtKill, IsStart, IsStop
<1>13. CASE IsStart(k, c)
  <2>1. \A j \in Command : IsStop(j, c) => pc[j] \notin Alive
    BY <1>1, <1>3, <1>13 DEF Lone, IsStart, IsStop
  <2>2. Held(c)
    BY <1>1, <1>3, <1>13, <2>1 DEF Held, StopAtKill
  <2>3. Held(c)'
    BY <1>1, <1>3, <1>5, <1>6, <1>13, <2>1 DEF Held, StopAtKill, IsStart, IsStop
  <2>4. Carried'
    BY <1>1, <1>12, <2>2, <2>3 DEF Carried
  <2> QED
    BY <1>9, <1>10, <1>11, <2>4
<1>14. CASE IsStop(k, c)
  <2>1. \A j \in Command : IsStart(j, c) /\ pc[j] \in Alive => j # k /\ pc[j] \in Titled
    BY <1>1, <1>3, <1>14 DEF Lone, IsStart, IsStop
  <2>2. \A j \in Command : IsStart(j, c) => pc'[j] \notin Alive
    <3> SUFFICES ASSUME NEW j \in Command, IsStart(j, c), pc[j] \in Alive
                 PROVE  pc'[j] = "dead"
      BY <1>3, <1>6
    <3>1. j \in Victims(job[k].channel) /\ j # k
      BY <1>14, <2>1, LifecycleAssumption DEF Victims, IsStart, IsStop
    <3> QED
      BY <3>1 DEF Kill
  <2>3. ~Held(c) /\ ~Held(c)'
    BY <1>1, <1>14, <2>2 DEF Held, StopAtKill, IsStart
  <2>4. Carried'
    BY <1>1, <1>12, <2>3 DEF Carried
  <2> QED
    BY <1>9, <1>10, <1>11, <2>4
<1> QED
  BY <1>4, <1>13, <1>14

LEMMA MoveStep ==
  ASSUME RequestInv, OwnNamesOnly, NEW k \in Command, Moves(k)
  PROVE  Known' /\ OwnSteps' /\ Lone' /\ Carried'
<1> USE DEF RequestInv
<1>1. UNCHANGED <<job, persisted, restoring>> /\ \A j \in Command : j # k => pc'[j] = pc[j]
  BY DEF Moves
<1>2. \/ pc[k] = "title" /\ pc'[k] = "cache"
      \/ pc[k] \in Titled /\ pc'[k] \in Titled
      \/ pc[k] \in {"rm"} /\ pc'[k] = "done"
      \/ pc'[k] = pc[k]
  BY DEF Moves, OwnNamesOnly
<1>3. pc'[k] \in Alive => pc[k] \in Alive
  BY <1>2 DEF Titled, Alive, InProgress, Making, Looping
<1>4. pc[k] = "kill" <=> pc'[k] = "kill"
  BY <1>2 DEF Titled, Making, Looping
<1>5. \A j \in Command : (pc'[j] \in Alive => pc[j] \in Alive) /\ (pc[j] = "kill" <=> pc'[j] = "kill")
  BY <1>1, <1>3, <1>4
<1>6. Known'
  BY <1>1, <1>5 DEF Known, IsStart, IsStop
<1>7. \A c \in Channel : IsStart(k, c) =>
        pc'[k] \notin {"rm"} /\ (pc[k] \in Alive => pc'[k] \in Alive)
  BY <1>2 DEF OwnSteps, Titled, Alive, InProgress, Making, Looping
<1>8. \A c \in Channel : IsStop(k, c) /\ pc'[k] \in Alive => pc'[k] \in {"kill", "rm"}
  BY <1>2 DEF OwnSteps, Titled, Alive, InProgress, Making, Looping
<1>9. OwnSteps'
  BY <1>1, <1>7, <1>8 DEF OwnSteps, IsStart, IsStop
<1>10. pc[k] \in Titled /\ pc'[k] \in Alive => pc'[k] \in Titled
  BY <1>2 DEF Titled, Alive, InProgress, Making, Looping
<1>11. Lone'
  BY <1>1, <1>5, <1>10 DEF Lone, IsStop
<1>12. \A c \in Channel : Held(c)' <=> Held(c)
  BY <1>1, <1>5, <1>7 DEF Held, StopAtKill, IsStart, IsStop
<1>13. Carried'
  BY <1>1, <1>12 DEF Carried
<1> QED
  BY <1>6, <1>9, <1>11, <1>13

-----------------------------------------------------------------------------
(* The directories of a worker.                                             *)

(* A STOP that has killed has left no process of its channel.               *)
StoppedAll ==
  \A j, k \in Command, c \in Channel :
    IsStop(j, c) /\ pc[j] = "rm" /\ IsStart(k, c) => pc[k] \notin Alive

(* A worker has the directories it has made since its rm -rf.               *)
Made ==
  \A k \in Command, c \in Channel :
    IsStart(k, c) =>
      /\ pc[k] = "final" => "parts" \in dirs[c]
      /\ pc[k] = "hls" => VideoDirs \subseteq dirs[c]
      /\ pc[k] \in Looping => dirs[c] = Whole

LEMMA RequestInvStep ==
  ASSUME RequestInv, OwnNamesOnly, [PatientNext]_vars
  PROVE  RequestInv'
<1>1. TypeOK /\ TypeOK'
  BY TypeStep DEF RequestInv, PatientNext, Next
<1> SUFFICES Known' /\ OwnSteps' /\ Lone' /\ Carried'
  BY <1>1 DEF RequestInv
<1>2. CASE Reboot \/ StartClean
  <2>1. \A k \in Command : pc'[k] \notin Alive
    BY <1>1, <1>2 DEF Reboot, StartClean, KillAll, TypeOK, Alive, InProgress, Making, Looping
  <2>2. \A k \in Command : pc'[k] = "dead" \/ pc'[k] = pc[k]
    BY <1>1, <1>2 DEF Reboot, StartClean, KillAll, TypeOK
  <2>3. OwnSteps'
    BY <1>2, <2>1, <2>2
       DEF RequestInv, OwnSteps, Reboot, StartClean, KillAll, IsStart, IsStop
  <2>4. Carried'
    BY <1>2, <2>1 DEF Carried, Held, Reboot, StartClean
  <2> QED
    BY <2>1, <2>3, <2>4 DEF Known, Lone
<1>3. CASE UNCHANGED <<pc, job, persisted, restoring>>
  <2>1. Known' /\ OwnSteps'
    BY <1>3 DEF RequestInv, Known, OwnSteps, IsStart, IsStop
  <2>2. Lone'
    BY <1>3 DEF RequestInv, Lone, IsStop
  <2>3. Carried'
    BY <1>3 DEF RequestInv, Carried, Held, StopAtKill, IsStart, IsStop
  <2> QED
    BY <2>1, <2>2, <2>3
<1> QED
  BY <1>1, <1>2, <1>3, PatientSteps, RequestStep, RestoreStep, KillStep, MoveStep

LEMMA StoppedAllStep ==
  ASSUME RequestInv, StoppedAll, [PatientNext]_vars
  PROVE  StoppedAll'
<1> USE DEF RequestInv
<1>1. ASSUME NEW k \in Command, NEW c \in Channel, NEW action \in {"START", "STOP"},
             AtRest, Request(k, action, c)
      PROVE  StoppedAll'
  <2>1. \A j \in Command : pc'[j] # "rm"
    BY <1>1, LaunchedOne DEF Request, AtRest, InProgress
  <2> QED
    BY <2>1 DEF StoppedAll
<1>2. ASSUME NEW k \in Command, NEW c \in Channel, Restore(k, c)
      PROVE  StoppedAll'
  <2>1. /\ pc'[k] = "kill"
        /\ \A j \in Command : j # k => pc'[j] = pc[j] /\ job'[j] = job[j]
    BY <1>2, LaunchedOne DEF Restore
  <2>2. restoring # {}
    BY <1>2 DEF Restore
  <2>3. \A j \in Command, d \in Channel : IsStop(j, d) => pc[j] # "rm"
    BY <2>2 DEF Lone, Alive, InProgress
  <2> QED
    BY <2>1, <2>3 DEF StoppedAll, IsStop
<1>3. CASE Reboot \/ StartClean
  <2>1. \A k \in Command : pc'[k] # "rm"
    BY <1>3 DEF Reboot, StartClean, KillAll, TypeOK, Alive, InProgress
  <2> QED
    BY <2>1 DEF StoppedAll
<1>4. ASSUME NEW k \in Command, Kill(k)
      PROVE  StoppedAll'
  <2>1. pc[k] = "kill" /\ UNCHANGED job
    BY <1>4 DEF Kill
  <2>2. \A j \in Command : j # k => pc'[j] \in {pc[j], "dead"}
    BY <1>4 DEF Kill, TypeOK
  <2>3. "kill" \in Alive /\ "kill" \notin Titled /\ "rm" \in Alive /\ "dead" \notin Alive
    BY DEF Alive, InProgress, Titled, Making, Looping
  <2> SUFFICES ASSUME NEW j \in Command, NEW i \in Command, NEW c \in Channel,
                      IsStop(j, c), pc'[j] = "rm", IsStart(i, c)
               PROVE  pc'[i] \notin Alive
    BY <2>1 DEF StoppedAll, IsStop, IsStart
  <2>4. i # j
    BY DEF IsStop, IsStart
  <2>5. CASE j # k
    <3>1. pc[j] \in Alive
      BY <2>2, <2>3, <2>5
    <3> QED
      BY <2>1, <2>3, <2>5, <3>1 DEF Lone
  <2>6. CASE j = k
    <3>1. pc[i] \in Alive => pc[i] \in Titled
      BY <2>1, <2>3, <2>4, <2>6 DEF Lone
    <3>2. pc[i] \in Titled => pc'[i] = "dead"
      <4>1. pc[i] \in Titled => i \in Victims(job[k].channel)
        BY <2>6, LifecycleAssumption DEF Victims, IsStop, IsStart
      <4> QED
        BY <1>4, <2>4, <2>6, <4>1 DEF Kill
    <3> QED
      BY <2>2, <2>3, <2>4, <2>6, <3>1, <3>2
  <2> QED
    BY <2>5, <2>6
<1>5. ASSUME NEW k \in Command, Moves(k)
      PROVE  StoppedAll'
  <2>1. pc'[k] = "rm" => pc[k] = "rm"
    BY <1>5 DEF Moves, Titled, Making, Looping
  <2>2. pc'[k] \in Alive => pc[k] \in Alive
    BY <1>5 DEF Moves, Titled, Alive, InProgress, Making, Looping
  <2> QED
    BY <1>5, <2>1, <2>2 DEF StoppedAll, Moves, IsStop, IsStart
<1>6. CASE UNCHANGED <<pc, job, persisted, restoring>>
  BY <1>6 DEF StoppedAll, IsStop, IsStart
<1> QED
  BY <1>1, <1>2, <1>3, <1>4, <1>5, <1>6, PatientSteps

(* Steps that leave the directories alone and bring no process to a step     *)
(* that counts on one of them.                                               *)
Spares ==
  /\ UNCHANGED dirs
  /\ \A k \in Command :
       pc'[k] \in {"final", "hls"} \cup Looping =>
         job'[k] = job[k] /\ (pc'[k] = pc[k] \/ {pc[k], pc'[k]} \subseteq Looping)

LEMMA DirectorySteps ==
  ASSUME TypeOK, [PatientNext]_vars
  PROVE  \/ \E k \in Command :
              Remove(k) \/ Cleaned(k) \/ MakeParts(k) \/ MakeFinal(k) \/ MakeHls(k)
         \/ Reboot \/ StartClean
         \/ Spares
<1> USE DEF TypeOK, Spares, Looping
<1>1. ASSUME NEW k \in Command, NEW c \in Channel, NEW action \in {"START", "STOP"},
             Request(k, action, c)
      PROVE  Spares
  BY <1>1, LaunchedOne DEF Request
<1>2. ASSUME NEW k \in Command, NEW c \in Channel, Restore(k, c)
      PROVE  Spares
  BY <1>2, LaunchedOne DEF Restore
<1>3. ASSUME NEW k \in Command, Kill(k)
      PROVE  Spares
  BY <1>3 DEF Kill
<1>4. ASSUME NEW k \in Command, SetTitle(k) \/ SaveCache(k) \/ ForceStopped(k)
      PROVE  Spares
  BY <1>4 DEF SetTitle, SaveCache, ForceStopped
<1>5. ASSUME NEW k \in Command, Check(k) \/ Round(k) \/ ExitWithoutKey(k) \/ DeleteCache(k)
      PROVE  Spares
  BY <1>5 DEF Check, Round, ExitWithoutKey, DeleteCache, At
<1>6. CASE UNCHANGED vars
  BY <1>6 DEF vars
<1> QED
  BY <1>1, <1>2, <1>3, <1>4, <1>5, <1>6 DEF PatientNext, Requests, Other, Step

(* Only a worker of the channel at its own rm -rf, or a STOP that has left no *)
(* worker, removes a directory.                                              *)
LEMMA MadeStep ==
  ASSUME WorkerInv, RequestInv, StoppedAll, Made, [PatientNext]_vars
  PROVE  Made'
<1> USE DEF WorkerInv
<1>1. ASSUME NEW j \in Command, Remove(j)
      PROVE  Made'
  <2>1. UNCHANGED <<pc, job>> /\ pc[j] \in {"clean", "rm"}
    BY <1>1 DEF Remove
  <2>2. \A d \in Channel : d # job[j].channel => dirs'[d] = dirs[d]
    BY <1>1 DEF Remove, TypeOK
  <2>3. /\ {"final", "hls"} \cup Looping \subseteq Titled /\ Titled \subseteq Alive
        /\ {"clean", "rm"} \subseteq Alive /\ "clean" \in Titled /\ "kill" \notin Titled
        /\ {"clean", "rm"} \cap ({"final", "hls"} \cup Looping) = {}
    BY DEF Titled, Alive, InProgress, Making, Looping
  <2>4. ASSUME NEW k \in Command, NEW c \in Channel, IsStart(k, c),
               pc[k] \in {"final", "hls"} \cup Looping, c = job[j].channel
        PROVE  FALSE
    <3>1. IsStart(j, c) \/ IsStop(j, c)
      <4>1. PICK d \in Channel : IsStart(j, d) \/ IsStop(j, d)
        BY <2>1, <2>3 DEF RequestInv, Known
      <4> QED
        BY <2>4, <4>1 DEF IsStart, IsStop
    <3>2. pc[k] \in Titled /\ pc[k] \in Alive /\ k # j
      BY <2>1, <2>3, <2>4
    <3>3. CASE IsStart(j, c)
      <4>1. pc[j] = "clean"
        BY <2>1, <3>3 DEF RequestInv, OwnSteps
      <4> QED
        BY <2>3, <2>4, <3>2, <3>3, <4>1 DEF Sole
    <3>4. CASE IsStop(j, c)
      <4>1. pc[j] = "rm"
        BY <2>1, <2>3, <3>4 DEF RequestInv, OwnSteps
      <4> QED
        BY <2>4, <3>2, <3>4, <4>1 DEF StoppedAll
    <3> QED
      BY <3>1, <3>3, <3>4
  <2> QED
    BY <2>1, <2>2, <2>4 DEF Made, IsStart
<1>2. ASSUME NEW j \in Command, Cleaned(j) \/ MakeParts(j) \/ MakeFinal(j) \/ MakeHls(j)
      PROVE  Made'
  <2>1. job' = job /\ \A k \in Command : k # j => pc'[k] = pc[k]
    BY <1>2 DEF Cleaned, MakeParts, MakeFinal, MakeHls, TypeOK
  <2>2. \A d \in Channel : dirs[d] \subseteq dirs'[d] /\ dirs'[d] \subseteq Whole
    BY <1>2 DEF Cleaned, MakeParts, MakeFinal, MakeHls, TypeOK, Whole, VideoDirs
  <2>3. ASSUME NEW c \in Channel, IsStart(j, c)
        PROVE  /\ pc'[j] = "final" => "parts" \in dirs'[c]
               /\ pc'[j] = "hls" => VideoDirs \subseteq dirs'[c]
               /\ pc'[j] \in Looping => dirs'[c] = Whole
    <3>1. job[j].channel = c
      BY <2>3 DEF IsStart
    <3>2. CASE Cleaned(j)
      BY <3>2 DEF Cleaned, TypeOK, Looping
    <3>3. CASE MakeParts(j)
      <4>1. pc'[j] = "final" /\ dirs'[c] = dirs[c] \cup {"parts"}
        BY <3>1, <3>3 DEF MakeParts, TypeOK
      <4> QED
        BY <4>1 DEF Looping
    <3>4. CASE MakeFinal(j)
      <4>1. pc[j] = "final" /\ pc'[j] = "hls"
        BY <3>4 DEF MakeFinal, At, TypeOK
      <4>2. "parts" \in dirs[c]
        BY <2>3, <4>1 DEF Made
      <4>3. dirs'[c] = dirs[c] \cup {"final"}
        BY <3>1, <3>4, <4>2 DEF MakeFinal, TypeOK, VideoDirs
      <4> QED
        BY <4>1, <4>2, <4>3 DEF Looping, VideoDirs
    <3>5. CASE MakeHls(j)
      <4>1. pc[j] = "hls" /\ pc'[j] \in {"run", "clean"}
        BY <3>5 DEF MakeHls, At, TypeOK
      <4>2. VideoDirs \subseteq dirs[c]
        BY <2>3, <4>1 DEF Made
      <4>3. dirs'[c] = dirs[c] \cup {"hls"}
        BY <3>1, <3>5 DEF MakeHls, TypeOK
      <4> QED
        BY <2>2, <4>1, <4>2, <4>3 DEF Whole
    <3> QED
      BY <1>2, <3>2, <3>3, <3>4, <3>5
  <2>4. ASSUME NEW k \in Command, NEW c \in Channel, IsStart(k, c), k # j
        PROVE  /\ pc'[k] = "final" => "parts" \in dirs'[c]
               /\ pc'[k] = "hls" => VideoDirs \subseteq dirs'[c]
               /\ pc'[k] \in Looping => dirs'[c] = Whole
    BY <2>1, <2>2, <2>4 DEF Made
  <2> QED
    BY <2>1, <2>3, <2>4 DEF Made, IsStart
<1>3. CASE Reboot \/ StartClean
  <2>1. \A k \in Command : pc'[k] \notin {"final", "hls"} \cup Looping
    BY <1>3 DEF Reboot, StartClean, KillAll, TypeOK, Alive, InProgress, Making, Looping
  <2> QED
    BY <2>1 DEF Made
<1>4. CASE Spares
  <2> SUFFICES ASSUME NEW k \in Command, NEW c \in Channel, job'[k] = [action |-> "START", channel |-> c],
                      pc'[k] \in {"final", "hls"} \cup Looping
               PROVE  /\ pc'[k] = "final" => "parts" \in dirs[c]
                      /\ pc'[k] = "hls" => VideoDirs \subseteq dirs[c]
                      /\ pc'[k] \in Looping => dirs[c] = Whole
    BY <1>4 DEF Spares, Made, IsStart
  <2>1. IsStart(k, c) /\ (pc'[k] = pc[k] \/ {pc[k], pc'[k]} \subseteq Looping)
    BY <1>4 DEF Spares, IsStart
  <2> QED
    BY <2>1 DEF Made, Looping
<1> QED
  BY <1>1, <1>2, <1>3, <1>4, DirectorySteps

(* A patient user gets what persistence.db says (api.php 25-33, restore.php): *)
(* with keys that can be stored and names that do not contain each other, at  *)
(* rest exactly the persisted channels have a worker, each with all of its    *)
(* directories, for any number of channels, commands and restarts in the      *)
(* middle of them.                                                            *)
THEOREM PatientAsRequested ==
  ASSUME OwnNamesOnly
  PROVE  PatientSpec => []AsRequested
<1> DEFINE Inv == WorkerInv /\ RequestInv /\ StoppedAll /\ Made
<1>1. Init => Inv
  <2> SUFFICES ASSUME Init PROVE StoppedAll /\ Made
    BY InitWorkers, InitRequests
  <2>1. \A k \in Command : pc[k] = "idle"
    BY DEF Init
  <2> QED
    BY <2>1 DEF StoppedAll, Made, Looping
<1>2. Inv /\ [PatientNext]_vars => Inv'
  BY WorkerStep, RequestInvStep, StoppedAllStep, MadeStep
<1>3. Inv => AsRequested
  <2> SUFFICES ASSUME Inv, AtRest
               PROVE  /\ persisted = {c \in Channel : Running(c) # {}}
                      /\ \A c \in persisted : dirs[c] = Whole
    BY DEF AsRequested
  <2>1. \A k \in Command : pc[k] \in Alive <=> pc[k] \in Looping
    BY DEF AtRest, Alive
  <2>2. ASSUME NEW c \in Channel
        PROVE  /\ c \in persisted <=> Running(c) # {}
               /\ Running(c) # {} => dirs[c] = Whole
    <3>1. Held(c) <=> \E k \in Command : IsStart(k, c) /\ pc[k] \in Looping
      BY <2>1 DEF Held, StopAtKill, AtRest, InProgress
    <3>2. Running(c) # {} <=> \E k \in Command : IsStart(k, c) /\ pc[k] \in Looping
      BY DEF Running, Workers, Titled, IsStart
    <3>3. restoring = {}
      BY DEF AtRest
    <3> QED
      BY <3>1, <3>2, <3>3 DEF RequestInv, Carried, Made
  <2> QED
    BY <2>2 DEF RequestInv, TypeOK
<1> QED
  BY <1>1, <1>2, <1>3, PTL DEF PatientSpec

=============================================================================
