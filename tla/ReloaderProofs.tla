---------------------------- MODULE ReloaderProofs ---------------------------
(* The page that restarts channels brings none back that its user shut down, *)
(* for any number of requests, pages, restarts, scripts and channels, in any *)
(* order.                                                                    *)
EXTENDS Reloader, PersistenceProofs

Asks(r, action, c) == job[r] = [action |-> action, wish |-> <<Dazn, c>>]

(* What a request that came alone knows: those in flight came later, and as   *)
(* long as it is in flight itself nothing else is under way.                 *)
Solitude ==
  \A r \in alone :
    /\ r \in Request /\ pc[r] # "idle"
    /\ \A q \in Request : pc[q] \in InFlight => q >= r
    /\ pc[r] \in InFlight =>
         ~due /\ restoring = {} /\ \A q \in Request : q # r => pc[q] \notin InFlight

(* No command, restore or request under way is for the channel.              *)
Withdrawn(c) ==
  /\ launched[c] \notin {"START", "RESTORE"}
  /\ <<Dazn, c>> \notin restoring /\ <<Dazn, c>> \notin disk.wishes
  /\ \A q \in Request :
       /\ pc[q] \in {"truncate", "write"} => <<Dazn, c>> \notin seen[q]
       /\ pc[q] \in InFlight => ~Asks(q, "START", c)

Stops(r, c) ==
  r \in alone /\ Asks(r, "STOP", c) /\ \A q \in Request : q > r => ~Asks(q, "START", c)

(* A STOP that came alone has withdrawn its wish when it is answered.        *)
Stopped(r, c) ==
  /\ pc[r] \in {"truncate", "write"} => <<Dazn, c>> \notin seen[r]
  /\ pc[r] = "exec" => <<Dazn, c>> \notin disk.wishes
  /\ pc[r] = "answered" => Withdrawn(c)

ShutDown == \A r \in Request, c \in Channel : Stops(r, c) => Stopped(r, c)

(* A START since which every request came alone and was not cut off.         *)
Starts(r, c) ==
  /\ Asks(r, "START", c)
  /\ \A q \in Request :
       /\ q >= r /\ pc[q] # "idle" => q \in alone /\ pc[q] # "killed"
       /\ q > r => ~Asks(q, "STOP", c)

Carries(q, c) ==
  /\ pc[q] \in {"truncate", "write"} => <<Dazn, c>> \in seen[q]
  /\ pc[q] = "write" => disk = Empty

(* Its wish is in the file, or with the request that has truncated it.       *)
KeptOn ==
  \A r \in Request, c \in Channel : Starts(r, c) =>
    /\ \A q \in Request : pc[q] \in InFlight => Carries(q, c)
    /\ pc[r] \in {"exec", "answered"} /\ ~Truncated => <<Dazn, c>> \in disk.wishes

PanelInv == TypeOK /\ Numbered /\ Solitude

(* What the page adds: it works on a channel, and asks for another script.    *)
PageInv ==
  /\ ReloaderTypeOK
  /\ \A q \in asked : pc[q] # "idle" /\ job[q].wish[1] = Sling

-----------------------------------------------------------------------------
LEMMA RequestsAreNaturals == Request \subseteq Nat
BY DEF Request

(* A request that arrives, of a user or a page.                              *)
LEMMA Arrived ==
  ASSUME PanelInv, NEW r \in Request, NEW j \in Job, Read(r, j), Arrives(r)
  PROVE  /\ pc[r] = "idle" /\ job[r] = NoJob /\ r \notin alone
         /\ pc'[r] = "truncate" /\ job'[r] = j /\ seen'[r] = Change(j, disk.wishes)
         /\ \A q \in Request : q # r => pc'[q] = pc[q] /\ job'[q] = job[q] /\ seen'[q] = seen[q]
         /\ UNCHANGED <<disk, launched, due, restoring>>
         /\ \A q \in Request : q < r <=> pc[q] # "idle"
         /\ r \in alone' => Quiet
         /\ alone' \subseteq alone \cup {r} /\ \A q \in alone' : q # r => pc[q] \notin InFlight
<1> USE DEF PanelInv
<1>1. /\ pc[r] = "idle" /\ \A q \in Request : q < r => pc[q] # "idle"
      /\ pc' = [pc EXCEPT ![r] = "truncate"] /\ job' = [job EXCEPT ![r] = j]
      /\ seen' = [seen EXCEPT ![r] = Change(j, disk.wishes)]
      /\ UNCHANGED <<disk, launched, due, restoring>>
  BY DEF Read
<1>2. /\ pc'[r] = "truncate" /\ job'[r] = j /\ seen'[r] = Change(j, disk.wishes)
      /\ \A q \in Request : q # r => pc'[q] = pc[q] /\ job'[q] = job[q] /\ seen'[q] = seen[q]
  BY <1>1 DEF TypeOK
<1>3. job[r] = NoJob /\ r \notin alone
  BY <1>1 DEF Numbered, Solitude
<1>4. \A q \in Request : q < r <=> pc[q] # "idle"
  <2> SUFFICES ASSUME NEW q \in Request, ~(q < r) PROVE pc[q] = "idle"
    BY <1>1
  <2>1. q = r \/ r < q
    BY RequestsAreNaturals
  <2> QED
    BY <1>1, <2>1 DEF Numbered
<1>5. /\ r \in alone' => Quiet
      /\ alone' \subseteq alone \cup {r} /\ \A q \in alone' : q # r => pc[q] \notin InFlight
  BY <1>3 DEF Arrives
<1> QED
  BY <1>1, <1>2, <1>3, <1>4, <1>5

LEMMA ArrivalKeepsPanel ==
  ASSUME PanelInv, NEW r \in Request, NEW j \in Job, Read(r, j), Arrives(r)
  PROVE  PanelInv'
<1>1. TypeOK'
  <2>1. Next
    BY DEF Next, Requests
  <2> QED
    BY <2>1, TypeStep DEF PanelInv
<1>2. Numbered'
  BY Arrived, RequestsAreNaturals DEF Numbered, PanelInv
<1>3. Solitude'
  <2> SUFFICES ASSUME NEW p \in alone'
               PROVE  /\ p \in Request /\ pc'[p] # "idle"
                      /\ \A q \in Request : pc'[q] \in InFlight => q >= p
                      /\ pc'[p] \in InFlight =>
                           ~due' /\ restoring' = {}
                           /\ \A q \in Request : q # p => pc'[q] \notin InFlight
    BY DEF Solitude
  <2>1. CASE p = r
    <3>1. Quiet
      BY <2>1, Arrived
    <3>2. \A q \in Request : q # r => pc'[q] \notin InFlight
      BY <3>1, Arrived DEF Quiet, NoneInFlight
    <3>3. r >= r
      BY RequestsAreNaturals
    <3> QED
      BY <2>1, <3>1, <3>2, <3>3, Arrived DEF Quiet
  <2>2. CASE p # r
    <3>1. p \in alone /\ pc[p] \notin InFlight
      BY <2>2, Arrived
    <3>2. p \in Request /\ pc[p] # "idle" /\ \A q \in Request : pc[q] \in InFlight => q >= p
      BY <3>1 DEF PanelInv, Solitude
    <3>3. pc'[p] = pc[p] /\ r >= p
      BY <2>2, <3>2, Arrived, RequestsAreNaturals
    <3>4. \A q \in Request : pc'[q] \in InFlight => q >= p
      BY <3>2, <3>3, Arrived
    <3> QED
      BY <3>1, <3>2, <3>3, <3>4
  <2> QED
    BY <2>1, <2>2
<1> QED
  BY <1>1, <1>2, <1>3 DEF PanelInv

(* An arrival does not undo an answered STOP unless it is the START for its  *)
(* channel.                                                                  *)
LEMMA ArrivalKeepsShutDown ==
  ASSUME PanelInv, ShutDown, NEW r \in Request, NEW j \in Job, Read(r, j), Arrives(r)
  PROVE  ShutDown'
<1> SUFFICES ASSUME NEW p \in Request, NEW c \in Channel, Stops(p, c)'
             PROVE  Stopped(p, c)'
  BY DEF ShutDown
<1>1. CASE p = r
  <2>1. j = [action |-> "STOP", wish |-> <<Dazn, c>>]
    BY <1>1, Arrived DEF Stops, Asks
  <2>2. <<Dazn, c>> \notin Change(j, disk.wishes)
    BY <2>1 DEF Change
  <2>3. seen'[r] = Change(j, disk.wishes) /\ pc'[r] = "truncate"
    BY Arrived
  <2> QED
    BY <1>1, <2>2, <2>3 DEF Stopped
<1>2. CASE p # r
  <2>1. pc'[p] = pc[p] /\ p \in alone /\ pc[p] \notin InFlight /\ Asks(p, "STOP", c)
    BY <1>2, Arrived DEF Stops, Asks
  <2>2. p < r
    BY <2>1, Arrived DEF PanelInv, Solitude
  <2>3. j # [action |-> "START", wish |-> <<Dazn, c>>]
    BY <2>2, Arrived, RequestsAreNaturals DEF Stops, Asks
  <2>4. Stops(p, c)
    <3>1. ~Asks(r, "START", c)
      BY Arrived DEF Asks, NoJob
    <3>2. \A q \in Request : q > p /\ q # r => ~Asks(q, "START", c)
      BY Arrived DEF Stops, Asks
    <3> QED
      BY <2>1, <3>1, <3>2 DEF Stops
  <2>5. ASSUME pc[p] = "answered"
        PROVE  Withdrawn(c)'
    <3>1. Withdrawn(c)
      BY <2>4, <2>5 DEF ShutDown, Stopped
    <3>2. <<Dazn, c>> \notin seen'[r]
      <4>1. ~(j.action = "START" /\ j.wish = <<Dazn, c>>) /\ j.action \in {"START", "STOP"}
        BY <2>3 DEF Job
      <4>2. <<Dazn, c>> \notin disk.wishes
        BY <3>1 DEF Withdrawn
      <4>3. <<Dazn, c>> \notin Change(j, disk.wishes)
        BY <4>1, <4>2 DEF Change
      <4>4. seen'[r] = Change(j, disk.wishes)
        BY Arrived
      <4> QED
        BY <4>3, <4>4
    <3>3. ~Asks(r, "START", c)'
      BY <2>3, Arrived DEF Asks
    <3> QED
      BY <3>1, <3>2, <3>3, Arrived DEF Withdrawn, Asks
  <2> QED
    BY <2>1, <2>5 DEF Stopped, InFlight
<1> QED
  BY <1>1, <1>2

(* Nor does it take the wish of a START along, if it came alone.             *)
LEMMA ArrivalKeepsOn ==
  ASSUME PanelInv, KeptOn, NEW r \in Request, NEW j \in Job, Read(r, j), Arrives(r)
  PROVE  KeptOn'
<1> SUFFICES ASSUME NEW p \in Request, NEW c \in Channel, Starts(p, c)'
             PROVE  /\ \A q \in Request : pc'[q] \in InFlight => Carries(q, c)'
                    /\ pc'[p] \in {"exec", "answered"} /\ ~Truncated' => <<Dazn, c>> \in disk'.wishes
  BY DEF KeptOn
<1>1. pc'[p] # "idle"
  <2>1. CASE p = r
    BY <2>1, Arrived
  <2>2. CASE p # r
    BY <2>2, Arrived DEF Starts, Asks, PanelInv, Numbered, NoJob
  <2> QED
    BY <2>1, <2>2
<1>2. r >= p
  <2>1. p = r \/ p < r
    BY <1>1, Arrived
  <2> QED
    BY <2>1, RequestsAreNaturals
<1>3. Quiet
  <2>1. r \in alone'
    BY <1>2, Arrived DEF Starts
  <2> QED
    BY <2>1, Arrived
<1>4. \A q \in Request : q # r => pc'[q] \notin InFlight
  BY <1>3, Arrived DEF Quiet, NoneInFlight
<1>5. CASE p = r
  <2>1. j = [action |-> "START", wish |-> <<Dazn, c>>]
    BY <1>5, Arrived DEF Starts, Asks
  <2>2. <<Dazn, c>> \in seen'[r] /\ pc'[r] = "truncate"
    <3>1. <<Dazn, c>> \in Change(j, disk.wishes)
      BY <2>1 DEF Change
    <3>2. seen'[r] = Change(j, disk.wishes) /\ pc'[r] = "truncate"
      BY Arrived
    <3> QED
      BY <3>1, <3>2
  <2>3. Carries(r, c)'
    BY <2>2 DEF Carries
  <2> QED
    BY <1>4, <1>5, <2>2, <2>3
<1>6. CASE p # r
  <2>1. pc'[p] = pc[p] /\ Asks(p, "START", c) /\ p < r
    BY <1>1, <1>6, Arrived DEF Starts, Asks
  <2>2. Starts(p, c)
    <3>1. \A q \in Request : q # r /\ q >= p /\ pc[q] # "idle" => q \in alone /\ pc[q] # "killed"
      BY Arrived DEF Starts
    <3>2. \A q \in Request : q # r /\ q > p => ~Asks(q, "STOP", c)
      BY Arrived DEF Starts, Asks
    <3>3. ~Asks(r, "STOP", c) /\ pc[r] = "idle"
      BY Arrived DEF Asks, NoJob
    <3> QED
      BY <2>1, <3>1, <3>2, <3>3 DEF Starts
  <2>3. pc[p] = "answered"
    <3>1. p >= p
      BY RequestsAreNaturals
    <3>2. pc[p] # "killed" /\ pc[p] # "idle" /\ pc[p] \notin InFlight
      BY <1>1, <1>4, <1>6, <2>1, <2>2, <3>1 DEF Starts
    <3> QED
      BY <3>2 DEF PanelInv, TypeOK
  <2>4. ~Truncated
    BY <1>3 DEF Quiet, NoneInFlight, Truncated, InFlight
  <2>5. <<Dazn, c>> \in disk.wishes
    BY <2>2, <2>3, <2>4 DEF KeptOn
  <2>6. j # [action |-> "STOP", wish |-> <<Dazn, c>>]
    BY <2>1, Arrived, RequestsAreNaturals DEF Starts, Asks
  <2>7. <<Dazn, c>> \in seen'[r] /\ pc'[r] = "truncate"
    <3>1. ~(j.action = "STOP" /\ j.wish = <<Dazn, c>>) /\ j.action \in {"START", "STOP"}
      BY <2>6 DEF Job
    <3>2. <<Dazn, c>> \in Change(j, disk.wishes)
      BY <2>5, <3>1 DEF Change
    <3>3. seen'[r] = Change(j, disk.wishes) /\ pc'[r] = "truncate"
      BY Arrived
    <3> QED
      BY <3>2, <3>3
  <2>8. Carries(r, c)'
    BY <2>7 DEF Carries
  <2> QED
    BY <1>4, <2>5, <2>8, Arrived
<1> QED
  BY <1>5, <1>6

-----------------------------------------------------------------------------
(* The panel's own steps.                                                    *)

PanelStep == (Work \/ Reboot \/ StartClean \/ UNCHANGED vars) /\ UNCHANGED alone

(* No request begins, and only one that is in flight goes on.                *)
LEMMA PanelMoves ==
  ASSUME PanelInv, PanelStep
  PROVE  /\ UNCHANGED <<job, seen, alone>>
         /\ \A q \in Request : /\ pc'[q] \in InFlight => pc[q] \in InFlight
                               /\ pc'[q] = "idle" <=> pc[q] = "idle"
                               /\ pc[q] = "killed" => pc'[q] = "killed"
<1> USE DEF PanelInv, TypeOK, InFlight
<1>1. ASSUME NEW r \in Request, Truncate(r) \/ Write(r) \/ Exec(r)
      PROVE  /\ UNCHANGED <<job, seen>>
             /\ \A q \in Request : /\ pc'[q] \in InFlight => pc[q] \in InFlight
                                   /\ pc'[q] = "idle" <=> pc[q] = "idle"
                                   /\ pc[q] = "killed" => pc'[q] = "killed"
  BY <1>1 DEF Truncate, Write, Exec
<1>2. CASE Reboot \/ StartClean
  BY <1>2 DEF Reboot, StartClean, KillAll, PanelStep
<1>3. CASE Restore \/ UNCHANGED vars
  BY <1>3 DEF Restore, RestoreReads, RestoreStarts, vars, PanelStep
<1> QED
  BY <1>1, <1>2, <1>3 DEF PanelStep, Work

LEMMA StepKeepsPanel ==
  ASSUME PanelInv, PanelStep
  PROVE  PanelInv'
<1>1. TypeOK'
  <2>1. [Next]_vars
    BY DEF Next, PanelStep
  <2> QED
    BY <2>1, TypeStep DEF PanelInv
<1>2. Numbered'
  BY PanelMoves DEF Numbered, PanelInv
<1>3. Solitude'
  <2> SUFFICES ASSUME NEW p \in alone, pc'[p] \in InFlight
               PROVE  ~due' /\ restoring' = {}
    BY PanelMoves DEF Solitude, PanelInv
  <2>1. ~due /\ restoring = {} /\ p \in Request
    BY PanelMoves DEF Solitude, PanelInv
  <2>2. ~(Reboot \/ StartClean)
    BY <2>1 DEF Reboot, StartClean, KillAll, InFlight
  <2> QED
    BY <2>1, <2>2 DEF PanelStep, Work, Restore, RestoreReads, RestoreStarts, Truncate, Write,
       Exec, vars
<1> QED
  BY <1>1, <1>2, <1>3 DEF PanelInv

(* A step of a request in flight.                                            *)
LEMMA RequestKeepsShutDown ==
  ASSUME PanelInv, ShutDown, UNCHANGED alone,
         NEW r \in Request, Truncate(r) \/ Write(r) \/ Exec(r)
  PROVE  ShutDown'
<1> USE DEF PanelInv
<1>1. /\ UNCHANGED <<job, seen, restoring>> /\ pc[r] \in InFlight
      /\ \A q \in Request : q # r => pc'[q] = pc[q]
      /\ job[r] \in Job
  BY DEF Truncate, Write, Exec, TypeOK, InFlight
<1>2. /\ Truncate(r) => pc[r] = "truncate" /\ pc'[r] = "write" /\ disk' = Empty
                        /\ launched' = launched
      /\ Write(r) => pc[r] = "write" /\ pc'[r] = "exec" /\ disk' \in {Json(seen[r]), Torn}
                     /\ launched' = launched
      /\ Exec(r) => pc[r] = "exec" /\ pc'[r] = "answered" /\ disk' = disk
                    /\ launched' = Launched(job[r].action, job[r].wish)
  BY DEF Truncate, Write, Exec, TypeOK
<1>3. ASSUME NEW c \in Channel, Exec(r)
      PROVE  launched'[c] = IF job[r].wish = <<Dazn, c>> THEN job[r].action ELSE launched[c]
  <2>1. job[r].action \in {"START", "STOP", "RESTORE"} /\ job[r].wish \in Wish
    BY <1>1 DEF Job
  <2>2. launched' = Launched(job[r].action, job[r].wish) /\ TypeOK
    BY <1>2, <1>3 DEF PanelInv
  <2> HIDE DEF PanelInv
  <2> DEFINE action == job[r].action
             wish == job[r].wish
  <2>3. /\ action \in {"START", "STOP", "RESTORE"} /\ wish \in Wish
        /\ launched' = Launched(action, wish)
    BY <2>1, <2>2
  <2> HIDE DEF action, wish
  <2>4. launched'[c] = IF wish = <<Dazn, c>> THEN action ELSE launched[c]
    BY <2>2, <2>3, LaunchedFor
  <2> QED
    BY <2>4 DEF action, wish
<1>4. ASSUME NEW c \in Channel, Withdrawn(c)
      PROVE  Withdrawn(c)'
  <2>1. pc'[r] \in {"truncate", "write"} => pc[r] \in {"truncate", "write"}
    BY <1>2
  <2>2. \A q \in Request :
          /\ pc'[q] \in {"truncate", "write"} => <<Dazn, c>> \notin seen'[q]
          /\ pc'[q] \in InFlight => ~Asks(q, "START", c)'
    BY <1>1, <1>4, <2>1 DEF Withdrawn, Asks
  <2>3. <<Dazn, c>> \notin disk'.wishes
    BY <1>2, <1>4 DEF Withdrawn, Json, Torn, Empty
  <2>4. launched'[c] \notin {"START", "RESTORE"}
    <3>1. CASE Exec(r)
      <4>1. job[r].wish = <<Dazn, c>> => job[r].action = "STOP"
        BY <1>1, <1>4 DEF Withdrawn, Asks, Job
      <4> QED
        BY <1>3, <1>4, <3>1, <4>1 DEF Withdrawn
    <3> QED
      BY <1>2, <1>4, <3>1 DEF Withdrawn
  <2> QED
    BY <1>1, <1>4, <2>2, <2>3, <2>4 DEF Withdrawn
<1> SUFFICES ASSUME NEW p \in Request, NEW c \in Channel, Stops(p, c)
             PROVE  Stopped(p, c)'
  BY <1>1 DEF ShutDown, Stops, Asks
<1>5. Stopped(p, c)
  BY DEF ShutDown
<1>6. CASE p = r
  <2>1. restoring = {} /\ \A q \in Request : q # r => pc[q] \notin InFlight
    BY <1>1, <1>6 DEF Stops, Solitude
  <2>2. CASE Truncate(r) \/ Write(r)
    BY <1>1, <1>2, <1>5, <1>6, <2>2 DEF Stopped, Json, Torn
  <2>3. CASE Exec(r)
    <3>1. launched'[c] = "STOP"
      BY <1>3, <1>6, <2>3 DEF Stops, Asks
    <3>2. <<Dazn, c>> \notin disk'.wishes
      BY <1>2, <1>5, <1>6, <2>3 DEF Stopped
    <3>3. \A q \in Request : pc'[q] \notin InFlight
      BY <1>1, <1>2, <2>1, <2>3 DEF InFlight
    <3>4. Withdrawn(c)'
      BY <1>1, <2>1, <3>1, <3>2, <3>3 DEF Withdrawn, InFlight
    <3> QED
      BY <1>2, <1>6, <2>3, <3>4 DEF Stopped
  <2> QED
    BY <2>2, <2>3
<1>7. CASE p # r
  <2>1. pc'[p] = pc[p] /\ pc[p] \notin InFlight
    BY <1>1, <1>7 DEF Stops, Solitude
  <2> QED
    BY <1>4, <1>5, <2>1 DEF Stopped, InFlight
<1> QED
  BY <1>6, <1>7

LEMMA StepKeepsShutDown ==
  ASSUME PanelInv, ShutDown, PanelStep
  PROVE  ShutDown'
<1>1. CASE \E r \in Request : Truncate(r) \/ Write(r) \/ Exec(r)
  BY <1>1, RequestKeepsShutDown DEF PanelStep
<1> SUFFICES ASSUME Restore \/ Reboot \/ StartClean \/ UNCHANGED vars,
                    NEW p \in Request, NEW c \in Channel, Stops(p, c)
             PROVE  Stopped(p, c)'
  BY <1>1, PanelMoves DEF ShutDown, Stops, Asks, PanelStep, Work
<1>2. Stopped(p, c)
  BY DEF ShutDown
<1>3. CASE Reboot \/ StartClean
  <2>1. /\ \A q \in Request : pc'[q] \notin InFlight /\ (pc'[q] = "answered" => pc[q] = "answered")
        /\ launched'[c] = "none" /\ restoring' = {} /\ disk' \in {disk, Empty}
    BY <1>3 DEF Reboot, StartClean, KillAll, InFlight, PanelInv, TypeOK
  <2> QED
    BY <1>2, <2>1 DEF Stopped, Withdrawn, InFlight, Empty
<1>4. ASSUME Restore, Withdrawn(c)
      PROVE  Withdrawn(c)'
  <2>1. UNCHANGED <<pc, job, seen, disk>>
    BY <1>4 DEF Restore, RestoreReads, RestoreStarts
  <2>2. CASE RestoreReads
    BY <1>4, <2>1, <2>2 DEF RestoreReads, Withdrawn, Asks
  <2>3. ASSUME NEW w \in Wish, RestoreStarts(w)
        PROVE  Withdrawn(c)'
    <3>1. w # <<Dazn, c>> /\ restoring' = restoring \ {w} /\ launched' = Launched("RESTORE", w)
      BY <1>4, <2>3 DEF RestoreStarts, Withdrawn
    <3>2. launched'[c] = launched[c]
      BY <3>1, LaunchedFor DEF PanelInv
    <3> QED
      BY <1>4, <2>1, <3>1, <3>2 DEF Withdrawn, Asks
  <2> QED
    BY <1>4, <2>2, <2>3 DEF Restore
<1>5. CASE Restore
  <2>1. UNCHANGED <<pc, job, seen, disk>>
    BY <1>5 DEF Restore, RestoreReads, RestoreStarts
  <2> QED
    BY <1>2, <1>4, <1>5, <2>1 DEF Stopped
<1>6. CASE UNCHANGED vars
  BY <1>2, <1>6 DEF vars, Stopped, Withdrawn, Asks
<1> QED
  BY <1>3, <1>5, <1>6

(* A START stays on the list while nothing overlaps and start_clean.sh is not *)
(* run.                                                                      *)
LEMMA StepKeepsOn ==
  ASSUME PanelInv, KeptOn, PanelStep, ~CleanStarts
  PROVE  KeptOn'
<1> USE DEF PanelInv
<1> SUFFICES ASSUME NEW p \in Request, NEW c \in Channel, Starts(p, c)'
             PROVE  /\ \A q \in Request : pc'[q] \in InFlight => Carries(q, c)'
                    /\ pc'[p] \in {"exec", "answered"} /\ ~Truncated' => <<Dazn, c>> \in disk'.wishes
  BY DEF KeptOn
<1>1. Starts(p, c) /\ UNCHANGED <<job, seen, alone>>
  BY PanelMoves DEF Starts, Asks
<1>2. pc[p] # "idle" /\ p \in alone
  <2>1. p >= p
    BY RequestsAreNaturals
  <2>2. pc[p] # "idle"
    BY <1>1 DEF Starts, Asks, Numbered, NoJob
  <2> QED
    BY <1>1, <2>1, <2>2 DEF Starts
<1>3. /\ \A q \in Request : pc[q] \in InFlight => Carries(q, c)
      /\ pc[p] \in {"exec", "answered"} /\ ~Truncated => <<Dazn, c>> \in disk.wishes
  BY <1>1 DEF KeptOn
<1>4. ASSUME NEW r \in Request, pc[r] \in InFlight
      PROVE  /\ r >= p /\ r \in alone
             /\ \A q \in Request : q # r => pc[q] \notin InFlight
  <2>1. r >= p
    BY <1>2, <1>4 DEF Solitude
  <2>2. r \in alone
    BY <1>1, <1>4, <2>1 DEF Starts, InFlight
  <2> QED
    BY <1>4, <2>1, <2>2 DEF Solitude
<1>5. ASSUME NEW r \in Request, Truncate(r)
      PROVE  /\ \A q \in Request : pc'[q] \in InFlight => Carries(q, c)'
             /\ Truncated'
  <2>1. /\ pc[r] = "truncate" /\ pc'[r] = "write" /\ disk' = Empty
        /\ \A q \in Request : q # r => pc'[q] = pc[q]
    BY <1>5 DEF Truncate, TypeOK
  <2>2. <<Dazn, c>> \in seen[r]
    BY <1>3, <2>1 DEF Carries, InFlight
  <2>3. \A q \in Request : q # r => pc'[q] \notin InFlight
    BY <1>4, <2>1 DEF InFlight
  <2>4. Carries(r, c)'
    BY <1>1, <2>1, <2>2 DEF Carries
  <2> QED
    BY <2>1, <2>3, <2>4 DEF Truncated
<1>6. ASSUME NEW r \in Request, Write(r)
      PROVE  /\ \A q \in Request : pc'[q] \in InFlight => Carries(q, c)'
             /\ <<Dazn, c>> \in disk'.wishes
  <2>1. /\ pc[r] = "write" /\ pc'[r] = "exec"
        /\ \A q \in Request : q # r => pc'[q] = pc[q]
    BY <1>6 DEF Write, TypeOK
  <2>2. <<Dazn, c>> \in seen[r] /\ disk = Empty
    BY <1>3, <2>1 DEF Carries, InFlight
  <2>3. disk' = Json(seen[r])
    BY <1>6, <2>2 DEF Write, Empty
  <2>4. \A q \in Request : q # r => pc'[q] \notin InFlight
    BY <1>4, <2>1 DEF InFlight
  <2>5. Carries(r, c)'
    BY <2>1 DEF Carries
  <2> QED
    BY <2>2, <2>3, <2>4, <2>5 DEF Json
<1>7. ASSUME NEW r \in Request, Exec(r)
      PROVE  /\ \A q \in Request : pc'[q] \notin InFlight
             /\ <<Dazn, c>> \in disk'.wishes
  <2>1. /\ pc[r] = "exec" /\ pc'[r] = "answered" /\ disk' = disk
        /\ \A q \in Request : q # r => pc'[q] = pc[q]
    BY <1>7 DEF Exec, TypeOK
  <2>2. \A q \in Request : q # r => pc[q] \notin InFlight
    BY <1>4, <2>1 DEF InFlight
  <2>3. ~Truncated
    BY <2>1, <2>2 DEF Truncated, InFlight
  <2>4. pc[p] \in {"exec", "answered"}
    <3>1. p >= p
      BY RequestsAreNaturals
    <3>2. pc[p] # "killed"
      BY <1>1, <1>2, <3>1 DEF Starts
    <3>3. p # r => pc[p] = "answered"
      BY <1>2, <2>2, <3>2 DEF TypeOK
    <3> QED
      BY <2>1, <3>3
  <2> QED
    BY <1>3, <2>1, <2>2, <2>3, <2>4 DEF InFlight
<1>8. CASE Reboot
  <2>1. /\ disk' = disk
        /\ \A q \in Request : pc'[q] = IF pc[q] \in InFlight THEN "killed" ELSE pc[q]
    BY <1>8 DEF Reboot, KillAll
  <2>2. \A q \in Request : pc[q] \notin InFlight
    <3> SUFFICES ASSUME NEW q \in Request, pc[q] \in InFlight PROVE FALSE
      OBVIOUS
    <3>1. pc'[q] = "killed" /\ q >= p
      BY <1>4, <2>1
    <3> QED
      BY <3>1 DEF Starts
  <2>3. ~Truncated
    BY <2>2 DEF Truncated, InFlight
  <2> QED
    BY <1>3, <2>1, <2>2, <2>3
<1>9. CASE Restore \/ UNCHANGED vars
  <2>1. UNCHANGED <<pc, disk>>
    BY <1>9 DEF Restore, RestoreReads, RestoreStarts, vars
  <2> QED
    BY <1>1, <1>3, <2>1 DEF Carries, Truncated
<1> QED
  BY <1>5, <1>6, <1>7, <1>8, <1>9 DEF PanelStep, Work, StartClean

-----------------------------------------------------------------------------
(* The page. *)

(* Every step is one of the panel or the arrival of a request.               *)
LEMMA ReloaderSteps ==
  ASSUME PageInv, [ReloaderNext]_allVars
  PROVE  PanelStep \/ \E r \in Request, j \in Job : Read(r, j) /\ Arrives(r)
<1>1. CASE UserAsks
  BY <1>1 DEF UserAsks
<1>2. ASSUME NEW r \in Request, NEW action \in {"STOP", "START"}, PageAsks(r, action)
      PROVE  \E j \in Job : Read(r, j) /\ Arrives(r)
  <2>1. Read(r, MendingJob(action)) /\ Arrives(r) /\ step \in {"stop", "start"}
    BY <1>2 DEF PageAsks
  <2>2. channel \in Channel
    BY <2>1 DEF PageInv, ReloaderTypeOK
  <2>3. MendingJob(action) \in Job
    BY <2>2, ReloaderAssumption DEF MendingJob, Job, Wish
  <2> QED
    BY <2>1, <2>3
<1>3. CASE PanelWorks \/ PanelReboots
  BY <1>3 DEF PanelWorks, PanelReboots, PanelStep
<1>4. CASE OpenPage \/ ClosePage \/ PageIsAnswered \/ (\E w \in Wish : Look(w)) \/ UNCHANGED allVars
  BY <1>4 DEF OpenPage, ClosePage, PageIsAnswered, Look, allVars, PanelStep
<1> QED
  BY <1>1, <1>2, <1>3, <1>4 DEF ReloaderNext, PageWorks

LEMMA PanelInvStep ==
  ASSUME PanelInv, PageInv, [ReloaderNext]_allVars
  PROVE  PanelInv'
BY ReloaderSteps, StepKeepsPanel, ArrivalKeepsPanel

(* The page's requests say type=sling.                                       *)
LEMMA PageInvStep ==
  ASSUME PanelInv, PanelInv', PageInv, [ReloaderNext]_allVars
  PROVE  PageInv'
<1> USE DEF PageInv
<1>a. /\ todo \subseteq Wish /\ asked \subseteq Request /\ alone \subseteq Request
      /\ step \in Asking \cup {"closed", "next", "stop", "start"}
      /\ channel \in Channel \cup {NoChannel} /\ pages \in Nat
      /\ step \notin {"closed", "next"} => channel \in Channel
  BY DEF ReloaderTypeOK
<1>b. TypeOK' /\ alone' \subseteq Request
  BY DEF PanelInv, Solitude
<1>1. ASSUME PanelStep
      PROVE  \A q \in Request : job'[q] = job[q] /\ (pc'[q] = "idle" <=> pc[q] = "idle")
  BY <1>1, PanelMoves
<1>2. CASE PanelWorks
  <2>1. UNCHANGED <<page, asked>> /\ PanelStep
    BY <1>2 DEF PanelWorks, PanelStep
  <2> QED
    BY <1>a, <1>b, <1>1, <2>1 DEF ReloaderTypeOK, page
<1>3. CASE PanelReboots
  <2>1. /\ step' = "closed" /\ todo' = {} /\ channel' = NoChannel /\ UNCHANGED <<asked, pages>>
        /\ PanelStep
    BY <1>3 DEF PanelReboots, PanelStep
  <2> QED
    BY <1>a, <1>b, <1>1, <2>1 DEF ReloaderTypeOK
<1>4. CASE UserAsks
  <2>1. PICK r \in Request, j \in Job : Read(r, j)
    BY <1>4 DEF UserAsks
  <2>2. /\ pc[r] = "idle" /\ UNCHANGED <<page, asked>>
        /\ \A q \in Request : q # r => job'[q] = job[q] /\ pc'[q] = pc[q]
    BY <1>4, <2>1 DEF Read, UserAsks, PanelInv, TypeOK
  <2> QED
    BY <1>a, <1>b, <2>2 DEF ReloaderTypeOK, page
<1>5. ASSUME NEW r \in Request, NEW action \in {"STOP", "START"}, PageAsks(r, action)
      PROVE  PageInv'
  <2>1. Read(r, MendingJob(action)) /\ asked' = asked \cup {r}
        /\ UNCHANGED <<todo, channel, pages>>
        /\ step' \in Asking /\ channel \in Channel
    BY <1>5, <1>a DEF PageAsks, Asking
  <2>2. /\ pc[r] = "idle" /\ pc'[r] = "truncate" /\ job'[r].wish[1] = Sling
        /\ \A q \in Request : q # r => job'[q] = job[q] /\ pc'[q] = pc[q]
    BY <2>1 DEF Read, MendingJob, PanelInv, TypeOK
  <2>3. \A q \in asked' : pc'[q] # "idle" /\ job'[q].wish[1] = Sling
    BY <1>a, <2>1, <2>2
  <2> QED
    BY <1>a, <1>b, <2>1, <2>3 DEF ReloaderTypeOK
<1>6. ASSUME NEW w \in Wish, Look(w)
      PROVE  PageInv'
  <2>1. /\ UNCHANGED <<vars, asked, pages>> /\ todo' = todo \ {w}
        /\ (step' = "next" /\ channel' = channel) \/ (step' = "stop" /\ channel' = w[2])
    BY <1>6 DEF Look
  <2>2. w[2] \in Channel
    BY DEF Wish
  <2> QED
    BY <1>a, <1>b, <2>1, <2>2 DEF ReloaderTypeOK, vars
<1>7. CASE OpenPage \/ ClosePage
  <2>1. /\ UNCHANGED <<vars, asked, channel>>
        /\ todo' \subseteq Wish /\ pages' \in Nat /\ step' \in {"next", "closed"}
    BY <1>7, <1>a DEF OpenPage, ClosePage, PanelInv, TypeOK
  <2> QED
    BY <1>a, <1>b, <2>1 DEF ReloaderTypeOK, vars
<1>8. CASE PageIsAnswered
  <2>1. /\ UNCHANGED <<vars, asked, todo, pages>>
        /\ \/ step = "stopping" /\ step' = "start" /\ UNCHANGED channel
           \/ step' = "next" /\ channel' = NoChannel
    BY <1>8 DEF PageIsAnswered
  <2> QED
    BY <1>a, <1>b, <2>1 DEF ReloaderTypeOK, vars
<1>9. CASE UNCHANGED allVars
  BY <1>a, <1>b, <1>9 DEF allVars, vars, page, ReloaderTypeOK
<1> QED
  BY <1>2, <1>3, <1>4, <1>5, <1>6, <1>7, <1>8, <1>9 DEF ReloaderNext, PageWorks

LEMMA InitPanelPage == ReloaderInit => PanelInv /\ PageInv /\ ShutDown /\ KeptOn
<1> SUFFICES ASSUME ReloaderInit PROVE PanelInv /\ PageInv /\ ShutDown /\ KeptOn
  OBVIOUS
<1>1. TypeOK
  BY InitType DEF ReloaderInit
<1>2. \A r \in Request : pc[r] = "idle" /\ job[r] = NoJob
  BY DEF ReloaderInit, Init
<1>3. alone = {}
  BY DEF ReloaderInit
<1>4. PanelInv
  BY <1>1, <1>2, <1>3 DEF PanelInv, Numbered, Solitude
<1>5. ShutDown /\ KeptOn
  BY <1>2, <1>3 DEF ShutDown, Stops, KeptOn, Starts, Asks, NoJob
<1>6. PageInv
  BY <1>1 DEF ReloaderInit, PageInv, ReloaderTypeOK
<1> QED
  BY <1>4, <1>5, <1>6

(* Types, for any number of pages, requests and restarts.                    *)
THEOREM ReloaderSpecTypeOK == ReloaderSpec => []ReloaderTypeOK
<1>1. PanelInv /\ PageInv /\ [ReloaderNext]_allVars => PanelInv' /\ PageInv'
  BY PanelInvStep, PageInvStep
<1>2. PageInv => ReloaderTypeOK
  BY DEF PageInv
<1> QED
  BY InitPanelPage, <1>1, <1>2, PTL DEF ReloaderSpec

(* A channel that a user shut down with nothing else under way stays so: no  *)
(* page, restore or start script brings it back, however requests overlap    *)
(* before and after, as long as the page asks for another script than the    *)
(* dashboard does (playlist.php:53-78, restore.php:20-24).                   *)
THEOREM SpecStaysShut ==
  ASSUME Sling # Dazn
  PROVE  ReloaderSpec => []StaysShut
<1> DEFINE Inv == PanelInv /\ PageInv /\ ShutDown
<1>1. Inv /\ [ReloaderNext]_allVars => Inv'
  BY PanelInvStep, PageInvStep, ReloaderSteps, ArrivalKeepsShutDown, StepKeepsShutDown
<1>2. Inv => StaysShut
  <2> SUFFICES ASSUME Inv, NEW c \in Channel, NEW r \in Request, Shut(r, c)
               PROVE  launched[c] \notin {"START", "RESTORE"}
    BY DEF StaysShut
  <2>1. \A q \in asked : ~Asks(q, "START", c)
    BY DEF PageInv, Asks
  <2>2. Stops(r, c) /\ pc[r] = "answered"
    BY <2>1 DEF Shut, ByUser, Stops, Asks
  <2> QED
    BY <2>2 DEF ShutDown, Stopped, Withdrawn
<1> QED
  BY InitPanelPage, <1>1, <1>2, PTL DEF ReloaderSpec

(* A channel that a user started stays wished for while requests of users and *)
(* pages do not overlap and start.sh cuts none off, restarts between them and *)
(* restores included (playlist.php:64-71, api.php:24).                        *)
THEOREM SpecStaysWished ==
  ASSUME Sling # Dazn
  PROVE  ReloaderSpec => []StaysWished
<1> DEFINE Inv == PanelInv /\ PageInv /\ (~CleanStarts => KeptOn)
<1>1. Inv /\ [ReloaderNext]_allVars => Inv'
  BY PanelInvStep, PageInvStep, ReloaderSteps, ArrivalKeepsOn, StepKeepsOn
<1>2. Inv => StaysWished
  <2> SUFFICES ASSUME Inv, NoneInFlight, ~CleanStarts,
                      NEW c \in Channel, NEW r \in Request, Started(r, c)
               PROVE  <<Dazn, c>> \in disk.wishes
    BY DEF StaysWished
  <2>1. \A q \in asked : ~Asks(q, "STOP", c)
    BY DEF PageInv, Asks
  <2>2. Starts(r, c) /\ pc[r] = "answered"
    BY <2>1 DEF Started, ByUser, Starts, Asks
  <2>3. ~Truncated
    BY DEF NoneInFlight, Truncated, InFlight
  <2> QED
    BY <2>2, <2>3 DEF KeptOn
<1> QED
  BY InitPanelPage, <1>1, <1>2, PTL DEF ReloaderSpec

=============================================================================
