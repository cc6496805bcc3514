---------------------------- MODULE MCBuildPool ----------------------------
(* Small image trees and plans ImageFilter makes of them: every image matched *)
(* and the one without parent queued; with --skip-existing, and left in the  *)
(* docker cache, left skipped.                                              *)
EXTENDS BuildPool, TLC

Fork == [i \in {"base", "left", "right"} |-> IF i = "base" THEN "none" ELSE "base"]
Alone == [i \in {"base"} |-> "none"]

AllMatched == {[status |-> [i \in Images |-> "matched"], roots |-> <<"base">>]}
LeftCached == {[status |-> [i \in Images |-> IF i = "left" THEN "skipped" ELSE "matched"],
                roots |-> <<"base">>]}
MatchedOrCached == AllMatched \cup LeftCached

(* What the theorems of BuildPool_proofs suppose of the plans. *)
ASSUME \A plan \in Plans : HandsOnce(plan)

Threads == Permutations(Builders) \cup Permutations(Pushers)
=============================================================================
