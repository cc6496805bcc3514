--------------------------- MODULE MCCephRollout ---------------------------
(***************************************************************************)
(* A mon, two osds of one host, an osd in LVM mode and an mds of another.      *)
(***************************************************************************)
EXTENDS CephRollout

D(id, kind, host, lvm) == [id |-> id, kind |-> kind, host |-> host, lvm |-> lvm]
MCDaemons == <<D("mon", "ceph-mon", "h1", FALSE), D("osd0", "ceph-osd", "h1", FALSE),
               D("osd1", "ceph-osd", "h1", FALSE), D("osd2", "ceph-osd", "h2", TRUE),
               D("mds", "ceph-mds", "h2", FALSE)>>
MCHosts == <<"h1", "h2">>
MCTemplate == << <<"global">>, <<"fsid", "1">>, <<"log", "a">>, <<"mon">>, <<"log", "b">> >>
(* A new value, a key given twice and a new section; a section given twice.    *)
MCCustomFiles ==
    "none" :> Null
    @@ "one" :> << <<"mon">>, <<"log", "c">>, <<"osd">>, <<"size", "3">>, <<"size", "4">> >>
    @@ "two" :> << <<"osd">>, <<"mon">>, <<"osd">>, <<"log", "c">>, <<"mon">>, <<"fsid", "2">> >>
MCHostFiles == ("h1" :> Null) @@ ("h2" :> << <<"osd">>, <<"size", "5">>, <<"global">>, <<"log", "d">> >>)
(* The files change while ceph_conf_change_restart is off, or with the image,   *)
(* and are asked for again when it is on, or the image is the old one.          *)
W(image, json, custom, healthCheck, confRestart) ==
    [image |-> image, json |-> json, custom |-> custom,
     healthCheck |-> healthCheck, confRestart |-> confRestart]
MCFirstWant == W(1, 1, "none", TRUE, TRUE)
MCWants == {W(1, 1, "none", TRUE, TRUE), W(1, 1, "one", TRUE, FALSE),
            W(1, 1, "one", TRUE, TRUE), W(2, 2, "two", FALSE, TRUE), W(1, 2, "two", TRUE, TRUE)}
(* For the counterexample: the mon, one osd, one other file, also with another  *)
(* image.                                                                   *)
MCReconfigureWants == {W(1, 1, "none", TRUE, TRUE), W(1, 1, "one", TRUE, TRUE),
                       W(2, 1, "one", TRUE, TRUE)}
MCTwoDaemons == SubSeq(MCDaemons, 1, 2)
MCOneFile == "none" :> Null @@ "one" :> << <<"mon">>, <<"log", "c">> >>
=============================================================================
