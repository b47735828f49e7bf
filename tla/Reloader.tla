------------------------------ MODULE Reloader -------------------------------
(* The page wwwdir/playlist.php on top of Persistence. It reads the list of *)
(* wishes once and, for each channel whose HLS list nginx does not find,    *)
(* asks api.php for a STOP and then a START, waiting for each answer. Users *)
(* and restore.php know nothing of it and may come at any time.             *)
EXTENDS Persistence

CONSTANTS Sling,   \* the type it puts into its requests
          MaxPages \* bound: times the page is opened, one after the other

ASSUME ReloaderAssumption == Sling \in Script /\ MaxPages \in Nat

VARIABLES
  todo,     \* wishes the page has still to look at
  step,     \* what it does for one of them: "next" when it takes another
  channel,  \* the channel of that wish, $rel
  asked,    \* the requests made by pages
  alone,    \* history: the requests made when nothing else was under way,
            \* without another made before their answer
  pages

page == <<todo, step, channel, pages>>
allVars == <<vars, page, asked, alone>>

NoChannel == "none"
Asking == {"stopping", "starting"}

ReloaderInit ==
  /\ Init
  /\ todo = {} /\ step = "closed" /\ channel = NoChannel
  /\ asked = {} /\ alone = {} /\ pages = 0

-----------------------------------------------------------------------------
PanelWorks == Work /\ UNCHANGED <<page, asked, alone>>

(* Both scripts kill php-fpm, and the page with it.                           *)
PanelReboots ==
  /\ Reboot \/ StartClean
  /\ step' = "closed" /\ todo' = {} /\ channel' = NoChannel
  /\ UNCHANGED <<asked, alone, pages>>

(* A request that begins ends the solitude of those in flight.               *)
Arrives(r) ==
  alone' = {q \in alone : pc[q] \notin InFlight} \cup {q \in {r} : Quiet}

UserAsks ==
  /\ \E r \in Request, j \in Job : Read(r, j) /\ Arrives(r)
  /\ UNCHANGED <<page, asked>>

(* json_decode of the file, broken or not; error_reporting is off.            *)
OpenPage ==
  /\ step = "closed" /\ pages < MaxPages
  /\ pages' = pages + 1
  /\ todo' = disk.wishes /\ step' = "next"
  /\ UNCHANGED <<vars, channel, asked, alone>>

(* 404 or not: a worker may have stopped, have nothing to play yet, or never  *)
(* have been started.                                                        *)
Look(w) ==
  /\ step = "next" /\ w \in todo
  /\ todo' = todo \ {w}
  /\ \/ UNCHANGED <<step, channel>>
     \/ step' = "stop" /\ channel' = w[2]
  /\ UNCHANGED <<vars, asked, alone, pages>>

ClosePage ==
  /\ step = "next" /\ todo = {}
  /\ step' = "closed"
  /\ UNCHANGED <<vars, todo, channel, asked, alone, pages>>

(* Not the code: the type of the script that runs the channel.                *)
MendingJobDazn(action) == [action |-> action, wish |-> <<Dazn, channel>>]

(* Not the code: a request without a type, as monitor.php makes it.           *)
MendingJobUntyped(action) == [action |-> action, wish |-> <<"", channel>>]

(* type=sling, whichever script the wish is filed under.                      *)
MendingJob(action) == [action |-> action, wish |-> <<Sling, channel>>]

PageAsks(r, action) ==
  /\ \/ step = "stop" /\ action = "STOP" /\ step' = "stopping"
     \/ step = "start" /\ action = "START" /\ step' = "starting"
  /\ Read(r, MendingJob(action)) /\ Arrives(r)
  /\ asked' = asked \cup {r}
  /\ UNCHANGED <<todo, channel, pages>>

(* curl_exec returns.                                                         *)
PageIsAnswered ==
  /\ \A r \in asked : pc[r] \notin InFlight
  /\ \/ step = "stopping" /\ step' = "start" /\ UNCHANGED channel
     \/ step = "starting" /\ step' = "next" /\ channel' = NoChannel
  /\ UNCHANGED <<vars, todo, asked, alone, pages>>

PageWorks ==
  \/ \E w \in Wish : Look(w)
  \/ ClosePage
  \/ \E r \in Request, action \in {"STOP", "START"} : PageAsks(r, action)
  \/ PageIsAnswered

ReloaderNext == PanelWorks \/ PageWorks \/ UserAsks \/ OpenPage \/ PanelReboots

ReloaderSpec == ReloaderInit /\ [][ReloaderNext]_allVars

-----------------------------------------------------------------------------
ReloaderTypeOK ==
  /\ TypeOK
  /\ todo \subseteq Wish
  /\ step \in Asking \cup {"closed", "next", "stop", "start"}
  /\ channel \in Channel \cup {NoChannel}
  /\ step \notin {"closed", "next"} => channel \in Channel
  /\ asked \subseteq Request /\ alone \subseteq Request /\ pages \in Nat

(* A user's request for c, made on the dashboard, which always says type=dazn *)
(* (dashboard.php:90-93).                                                     *)
ByUser(r, action, c) ==
  r \in Request \ asked /\ job[r] = [action |-> action, wish |-> <<Dazn, c>>]

(* Request r shut c down and was answered with nothing else under way, and no *)
(* user has started the channel since.                                        *)
Shut(r, c) ==
  /\ ByUser(r, "STOP", c) /\ pc[r] = "answered" /\ r \in alone
  /\ \A q \in Request : q > r => ~ByUser(q, "START", c)

(* A channel that was shut down with nothing else under way stays so: a page   *)
(* that looked at it before or after, or that finds its remains in the file,   *)
(* does not bring it back, nor does a restore, however requests of users and   *)
(* pages overlap later (playlist.php:53-78, restore.php, functions.php:125-145). *)
StaysShut ==
  \A c \in Channel :
    (\E r \in Request : Shut(r, c)) => launched[c] \notin {"START", "RESTORE"}

(* Request r started c, and it and every request since had its turn and was    *)
(* not cut off; no user has shut the channel down since.                       *)
Started(r, c) ==
  /\ ByUser(r, "START", c) /\ pc[r] = "answered"
  /\ \A q \in Request :
       /\ q >= r /\ pc[q] # "idle" => q \in alone /\ pc[q] # "killed"
       /\ q > r => ~ByUser(q, "STOP", c)

(* A channel that a user started is wished for when no request is in flight,   *)
(* as long as nothing overlaps: the page's STOP and START under another type   *)
(* leave its wish alone, and start.sh keeps it (playlist.php:64-71).           *)
StaysWished ==
  NoneInFlight /\ ~CleanStarts =>
    \A c \in Channel : (\E r \in Request : Started(r, c)) => <<Dazn, c>> \in disk.wishes

=============================================================================
