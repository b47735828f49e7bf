---------------------------- MODULE OrderedStream ----------------------------
(* What a worker promises its player: numbered slots that hold the segments *)
(* of the source in order, one after the other, with none left out that the *)
(* source still offered, and with the latest slots kept.                    *)
EXTENDS Integers, FiniteSetsExt

CONSTANTS Reach,   \* how many segments the source offers at a time
          Safe     \* how many of the latest slots are never trimmed

VARIABLES slots,   \* slot number -> segment
          next,    \* the slot the next segment gets
          last,    \* the last segment appended, 0 if none
          edge     \* the latest segment the source offers

streamVars == <<slots, next, last, edge>>

StreamInit == slots = [n \in {} |-> n] /\ next = 0 /\ last = 0 /\ edge = 0

Offer ==
  /\ edge' \in Nat /\ edge < edge'
  /\ UNCHANGED <<slots, next, last>>

(* A segment may be left out only once the source has stopped offering it. *)
Append ==
  \E s \in last + 1 .. edge :
    /\ \A k \in last + 1 .. s - 1 : k <= edge - Reach
    /\ slots' = [n \in DOMAIN slots \cup {next} |-> IF n = next THEN s ELSE slots[n]]
    /\ next' = next + 1
    /\ last' = s
    /\ UNCHANGED edge

Trim ==
  /\ \E keep \in SUBSET DOMAIN slots :
       /\ {n \in DOMAIN slots : next - Safe <= n} \subseteq keep
       /\ slots' = Restrict(slots, keep)
  /\ UNCHANGED <<next, last, edge>>

(* The channel's directory goes away; the numbers carry on. *)
Reset ==
  /\ slots' = [n \in {} |-> n]
  /\ last' = 0
  /\ UNCHANGED <<next, edge>>

StreamNext == Offer \/ Append \/ Trim \/ Reset

StreamSpec == StreamInit /\ [][StreamNext]_streamVars

=============================================================================
