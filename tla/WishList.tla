------------------------------ MODULE WishList ------------------------------
(* What config/persistence.db is meant to be: the set of wishes <<script,   *)
(* channel>>, changed by one request at a time. Only a start script may     *)
(* empty it.                                                                *)
EXTENDS Naturals

CONSTANT Wish

VARIABLES list,
          reboots  \* runs of a start script

listVars == <<list, reboots>>

Init == list \in SUBSET Wish /\ reboots = 0

Add(w) == list' = list \cup {w} /\ UNCHANGED reboots

Withdraw(w) == list' = list \ {w} /\ UNCHANGED reboots

Restart == reboots' = reboots + 1 /\ list' \in {list, {}}

Next == Restart \/ \E w \in Wish : Add(w) \/ Withdraw(w)

Spec == Init /\ [][Next]_listVars

=============================================================================
