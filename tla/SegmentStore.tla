---------------------------- MODULE SegmentStore ----------------------------
(* The directory video/<channel>/final of one channel as a finite function  *)
(* from slot numbers (the N of final/N.mp4) to the DASH segment muxed into  *)
(* the file and the file's modification time, and the two helpers that read *)
(* it by age: updateSegments and clearSegments (includes/functions.php).    *)
EXTENDS Integers, FiniteSetsExt

CONSTANTS MaxSegments,   \* $rMaxSegments, 64: the files clearSegments keeps
          SampleSize,    \* $rSampleSize, 10: the files updateSegments looks at
          ListSize       \* $rSize, 14400: the numbers playlist.txt reaches

ASSUME StoreAssumption == MaxSegments \in Nat \ {0} /\ SampleSize \in Nat \ {0}
                          /\ ListSize \in Nat

NoFiles == [n \in {} |-> n]

(* Writing a file, or an entry of a JSON map. *)
Put(f, k, v) == [x \in DOMAIN f \cup {k} |-> IF x = k THEN v ELSE f[x]]

(* Not the code: an off-by-one in the slice, and the comparison the other way. *)
NewestPlusOne(files, n) ==
  {keep \in kSubset(Min({n + 1, Cardinality(DOMAIN files)}), DOMAIN files) :
     \A k \in keep, d \in DOMAIN files \ keep : files[d].mtime <= files[k].mtime}

NewestReversed(files, n) ==
  {keep \in kSubset(Min({n, Cardinality(DOMAIN files)}), DOMAIN files) :
     \A k \in keep, d \in DOMAIN files \ keep : files[k].mtime <= files[d].mtime}

(* The possible results of sorting by filemtime and slicing off the last n. *)
(* filemtime counts whole seconds and usort is not stable, so which of the  *)
(* files of one second fall inside the slice is left open.                  *)
Newest(files, n) ==
  {keep \in kSubset(Min({n, Cardinality(DOMAIN files)}), DOMAIN files) :
     \A k \in keep, d \in DOMAIN files \ keep : files[d].mtime <= files[k].mtime}

(* Not the code: the list begins with the number after the smallest sampled. *)
ListStartLate(files, sample) ==
  IF sample \ {0} = {} THEN 0 ELSE Min(sample \ {0}) + 1

(* $rMin as the loop leaves it: !$rMin takes slot 0 for "not set yet", so   *)
(* the file sorted after slot 0 starts the search again. Zero is returned   *)
(* when slot 0 is the last file sorted (glob puts it first in its second).  *)
ListStart(files, sample) ==
  LET after == IF 0 \in sample
                 THEN {n \in sample \ {0} : files[n].mtime >= files[0].mtime}
                 ELSE sample
  IN  IF after = {} THEN 0 ELSE Min(after)

(* The slots named in playlist.txt: every file there is from the start on,  *)
(* and every number still to come.                                          *)
Listing(files, sample) ==
  LET start == ListStart(files, sample)
  IN  {n \in start .. start + ListSize : n \in DOMAIN files \/ Max(sample) < n}

=============================================================================
