----------------------------- MODULE LifecycleMC -----------------------------
(* Instances of Lifecycle for TLC.                                          *)
EXTENDS Lifecycle

CONSTANTS a, b

(* Two channels whose names have nothing in common.                         *)
Apart == {<<a, a>>, <<b, b>>}

(* One channel.                                                              *)
Alone == {<<a, a>>}

(* DE_DAZN_CHANNEL and DE_DAZN_CHANNEL2 (wwwdir/id.txt:1-2): grep finds the *)
(* name of a in the name of b.                                              *)
Prefix == Apart \cup {<<a, b>>}

=============================================================================
