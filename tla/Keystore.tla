------------------------------ MODULE Keystore -------------------------------
(* The key file of one channel, cache/keystore/<md5>.key. Workers read it   *)
(* in every round and fetch and store the key when they get none. Every PHP *)
(* process that includes functions.php first deletes key files older than a *)
(* day. Nothing is locked: a file may be gone or empty between any two steps.*)
EXTENDS Integers

CONSTANTS Worker,   \* processes that work on the channel
          Cleaner,  \* other PHP processes, one after the other
          MaxKeys,  \* bound: keys the source has had
          MaxKills, \* bound: kills of a worker by a START that replaces it
          Retries   \* range(1, 3): 3

ASSUME KeystoreAssumption ==
  MaxKeys \in Nat /\ MaxKills \in Nat /\ Retries \in Nat \ {0}

(* Keys in the order in which the source uses them; 0 is the blank key that   *)
(* dazn_api/api.php answers while it has no file for the channel. PHP takes   *)
(* it for false, like NULL.                                                   *)
Key == 0 .. MaxKeys
NoKey == 0

VARIABLES
  file,    \* the file: its text, the key sealed in it, and whether it is old
  current, \* the key dazn_api/api.php answers
  wpc,     \* the next step of each worker
  key,     \* its $rKeys
  tries,   \* its $rRetry
  cpc,     \* the next step of each cleaner
  kills

vars == <<file, current, wpc, key, tries, cpc, kills>>

NoFile == [text |-> "none", key |-> NoKey, old |-> FALSE]
EmptyFile == [text |-> "empty", key |-> NoKey, old |-> FALSE]
Sealed(k) == [text |-> "sealed", key |-> k, old |-> FALSE]
TornFile == [text |-> "torn", key |-> NoKey, old |-> FALSE]

(* Not the code: decryptKey without its hash_equals; a torn text ends with the *)
(* padding of the longer one and decrypts to something.                       *)
DecryptUnchecked(f) == IF f.text = "torn" THEN MaxKeys + 1 ELSE f.key

(* decryptKey: NULL unless the text carries the right hash.                   *)
Decrypt(f) == IF f.text = "sealed" THEN f.key ELSE NoKey

(* An earlier worker may have left a blank key or, killed, an empty file; two  *)
(* of them, a torn one.                                                       *)
Init ==
  /\ file \in {NoFile} \cup
             [text : {"empty", "torn", "sealed"}, key : {NoKey}, old : BOOLEAN]
  /\ current = NoKey
  /\ wpc = [w \in Worker |-> "check"] /\ key = [w \in Worker |-> NoKey]
  /\ tries = [w \in Worker |-> 1] /\ cpc = [c \in Cleaner |-> "stat"]
  /\ kills = 0

-----------------------------------------------------------------------------
(* A worker (dazn.php 84-131, getKeyCache and setKeyCache).                   *)

Goto(w, step) == wpc' = [wpc EXCEPT ![w] = step]

(* Not the code: without a file the worker waits for one.                     *)
CheckWaits(w) ==
  /\ wpc[w] = "check" /\ file.text # "none"
  /\ Goto(w, "read")
  /\ tries' = [tries EXCEPT ![w] = 1]
  /\ UNCHANGED <<file, current, key, cpc, kills>>

(* file_exists.                                                               *)
Check(w) ==
  /\ wpc[w] = "check"
  /\ Goto(w, IF file.text = "none" THEN "fetch" ELSE "read")
  /\ tries' = [tries EXCEPT ![w] = 1]
  /\ UNCHANGED <<file, current, key, cpc, kills>>

(* file_get_contents gives false if the file has gone meanwhile.              *)
ReadKey(w) ==
  /\ wpc[w] = "read"
  /\ key' = [key EXCEPT ![w] = Decrypt(file)]
  /\ Goto(w, IF key'[w] = NoKey THEN "fetch" ELSE "use")
  /\ UNCHANGED <<file, current, tries, cpc, kills>>

(* Not the code: one try too many.                                            *)
FetchFailsOnceMore(w) ==
  /\ wpc[w] = "fetch"
  /\ IF tries[w] <= Retries
       THEN tries' = [tries EXCEPT ![w] = @ + 1] /\ UNCHANGED wpc
       ELSE Goto(w, "check") /\ UNCHANGED tries
  /\ UNCHANGED <<file, current, key, cpc, kills>>

(* getKey without an answer: three times, then a pause of $rKeyWait.          *)
FetchFails(w) ==
  /\ wpc[w] = "fetch"
  /\ IF tries[w] < Retries
       THEN tries' = [tries EXCEPT ![w] = @ + 1] /\ UNCHANGED wpc
       ELSE Goto(w, "check") /\ UNCHANGED tries
  /\ UNCHANGED <<file, current, key, cpc, kills>>

(* status is always "true", with a blank key too.                             *)
Fetch(w) ==
  /\ wpc[w] = "fetch"
  /\ key' = [key EXCEPT ![w] = current]
  /\ Goto(w, "open")
  /\ UNCHANGED <<file, current, tries, cpc, kills>>

(* Not the code: setKeyCache that keeps a file it finds.                      *)
OpenIfNone(w) ==
  /\ wpc[w] = "open"
  /\ IF file.text = "none" THEN file' = EmptyFile /\ Goto(w, "write")
     ELSE UNCHANGED file /\ Goto(w, "verify")
  /\ UNCHANGED <<current, key, tries, cpc, kills>>

(* file_put_contents truncates or creates the file when it opens it.          *)
Open(w) ==
  /\ wpc[w] = "open"
  /\ file' = EmptyFile
  /\ Goto(w, "write")
  /\ UNCHANGED <<current, key, tries, cpc, kills>>

(* Over the text that another worker has written since the truncation: the    *)
(* texts of all keys are equally long, that of the blank one is shorter.      *)
Written(k) ==
  IF k = NoKey /\ (file.text = "torn" \/ file.key # NoKey) THEN TornFile ELSE Sealed(k)

(* A write to a file that was deleted since it was opened reaches nobody.     *)
Write(w) ==
  /\ wpc[w] \in {"write", "orphan"}
  /\ file' = IF wpc[w] = "write" THEN Written(key[w]) ELSE file
  /\ Goto(w, "verify")
  /\ UNCHANGED <<current, key, tries, cpc, kills>>

(* setKeyCache's file_exists; without the file the worker exits for good. A   *)
(* blank key is stored, but counts as none.                                   *)
Verify(w) ==
  /\ wpc[w] = "verify"
  /\ Goto(w, IF file.text = "none" THEN "exited"
             ELSE IF key[w] = NoKey THEN "check" ELSE "use")
  /\ UNCHANGED <<file, current, key, tries, cpc, kills>>

(* Not the code: the use of a key makes its file young again.                 *)
UseTouching(w) ==
  /\ wpc[w] = "use"
  /\ file' = [file EXCEPT !.old = FALSE]
  /\ Goto(w, "check") /\ key' = [key EXCEPT ![w] = NoKey]
  /\ UNCHANGED <<current, tries, cpc, kills>>

(* processSegmentsIterative, and unset($rKeys).                               *)
Use(w) ==
  /\ wpc[w] = "use"
  /\ Goto(w, "check") /\ key' = [key EXCEPT ![w] = NoKey]
  /\ UNCHANGED <<file, current, tries, cpc, kills>>

(* kill -9 by the START of the process that takes the worker's place.         *)
Replace(w) ==
  /\ kills < MaxKills /\ wpc[w] # "exited"
  /\ kills' = kills + 1
  /\ Goto(w, "check") /\ key' = [key EXCEPT ![w] = NoKey]
  /\ UNCHANGED <<file, current, tries, cpc>>

-----------------------------------------------------------------------------
(* The end of functions.php, in any PHP process.                              *)
Stat(c) ==
  /\ cpc[c] = "stat" /\ file.text # "none" /\ file.old
  /\ cpc' = [cpc EXCEPT ![c] = "unlink"]
  /\ UNCHANGED <<file, current, wpc, key, tries, kills>>

Unlink(c) ==
  /\ cpc[c] = "unlink"
  /\ file' = NoFile
  /\ wpc' = [w \in Worker |-> IF wpc[w] = "write" THEN "orphan" ELSE wpc[w]]
  /\ cpc' = [cpc EXCEPT ![c] = "stat"]
  /\ UNCHANGED <<current, key, tries, kills>>

(* A day after it was written the file is old; that is not while a worker is  *)
(* between writing it and looking for it.                                     *)
Day ==
  /\ file.text # "none" /\ ~file.old
  /\ \A w \in Worker : wpc[w] \notin {"write", "orphan", "verify"}
  /\ file' = [file EXCEPT !.old = TRUE]
  /\ UNCHANGED <<current, wpc, key, tries, cpc, kills>>

(* The source takes another key, and its file reaches dazn_api/keys.          *)
Rotate ==
  /\ current < MaxKeys
  /\ current' = current + 1
  /\ UNCHANGED <<file, wpc, key, tries, cpc, kills>>

Work(w) ==
  \/ Check(w) \/ ReadKey(w) \/ FetchFails(w) \/ Fetch(w) \/ Open(w) \/ Write(w)
  \/ Verify(w) \/ Use(w)

Clean(c) == Stat(c) \/ Unlink(c)

Next ==
  \/ \E w \in Worker : Work(w) \/ Replace(w)
  \/ \E c \in Cleaner : Clean(c)
  \/ Day \/ Rotate

Spec == Init /\ [][Next]_vars

(* Workers are scheduled and the key server answers in the end; days pass,    *)
(* somebody opens a page now and then, and a new key reaches the server.      *)
Fairness ==
  /\ \A w \in Worker : WF_vars(Work(w)) /\ SF_vars(Fetch(w))
  /\ \A c \in Cleaner : WF_vars(Clean(c))
  /\ WF_vars(Day) /\ WF_vars(Rotate)

FairSpec == Spec /\ Fairness

-----------------------------------------------------------------------------
TypeOK ==
  /\ file \in [text : {"none", "empty", "torn", "sealed"}, key : Key, old : BOOLEAN]
  /\ current \in Key /\ key \in [Worker -> Key]
  /\ wpc \in [Worker -> {"check", "read", "fetch", "open", "write", "orphan",
                         "verify", "use", "exited"}]
  /\ tries \in [Worker -> 1 .. Retries]
  /\ cpc \in [Cleaner -> {"stat", "unlink"}] /\ kills \in Nat

(* A worker decrypts with a key the source has had (dazn.php 84-116), never   *)
(* with what it found in a file cut off by a kill, by another writer or by a  *)
(* cleaner, nor with a blank key.                                             *)
UsesSourceKey == \A w \in Worker : wpc[w] = "use" => key[w] \in 1 .. current

(* A worker that is not killed gets a key in the end or exits, whatever the   *)
(* cleaners delete while it reads and writes (dazn.php 86-108).               *)
KeyComes ==
  \A w \in Worker : (wpc[w] \in {"check", "fetch"}) ~> (wpc[w] \in {"use", "exited"})

Broken == file.text \in {"empty", "torn"}

(* A file that a kill left empty, or two writers torn, is written again       *)
(* (functions.php 48-66) unless all workers have exited.                      *)
BrokenHeals == Broken ~> (~Broken \/ \A w \in Worker : wpc[w] = "exited")

(* The key a worker caches does not outlive the source's for ever: it is     *)
(* deleted after a day (functions.php 1393-1401) and the last key comes.      *)
LastKeyStays ==
  <>[](\A w \in Worker : wpc[w] = "use" => key[w] = MaxKeys)

=============================================================================
