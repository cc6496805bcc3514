--------------------------- MODULE MCKollaBuild ----------------------------
(* docker/base, docker/ceph/ceph-base and docker/ceph/ceph-mon.  os.walk     *)
(* lists the two directories under docker/ceph one after the other and        *)
(* docker/base before or after them; either order of two siblings occurs.    *)
EXTENDS KollaBuild, TLC

Chain == [i \in {"base", "ceph-base", "ceph-mon"} |->
            CASE i = "base" -> "none"
              [] i = "ceph-base" -> "base"
              [] i = "ceph-mon" -> "ceph-base"]

WalkOrders == {<<"base", "ceph-base", "ceph-mon">>, <<"base", "ceph-mon", "ceph-base">>,
               <<"ceph-base", "ceph-mon", "base">>, <<"ceph-mon", "ceph-base", "base">>}

Threads == Permutations(Builders)
=============================================================================
