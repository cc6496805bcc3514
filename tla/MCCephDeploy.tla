---------------------------- MODULE MCCephDeploy ----------------------------
(* One or two monitor hosts, the second added before or after the first; keys   *)
(* of an older cluster, longer than new ones, may lie on either.              *)
EXTENDS CephDeploy

MCInventories == {<<"m1">>, <<"m1", "m2">>, <<"m2", "m1">>}
MCText == [g \in {1, 2, 9} |-> IF g = 9 THEN <<9, 9, 9>> ELSE <<g, g>>]
MCLeftovers == {<<>>, <<9, 9, 9>>}
MCEntities == <<"mgr">>
MCOsds == <<"osd.0", "osd.1">>
MCFsPools == <<"data", "meta">>
MCOtherPools == <<"cached", "ruleless">>

Plain == [erasure |-> FALSE, rule |-> TRUE, cache |-> FALSE, cacheRule |-> FALSE]
MCPool ==
    [p \in {"data", "meta", "cached", "ruleless"} |->
        CASE p = "data" -> [Plain EXCEPT !.erasure = TRUE]
          [] p = "meta" -> Plain
          [] p = "cached" -> [Plain EXCEPT !.cache = TRUE, !.cacheRule = TRUE]
          [] p = "ruleless" -> [Plain EXCEPT !.rule = FALSE]]
=============================================================================
