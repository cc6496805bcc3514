-------------------------- MODULE MCOsdBootstrap ---------------------------
(* A host with two disks of up to two partitions, labelled in the ways of     *)
(* README.md:237-349, and a loop device, which setup does not report.         *)
EXTENDS OsdBootstrap

CONSTANTS foo, bar

Sdb == {"sdb1", "sdb2"}
Sdc == {"sdc1", "sdc2"}
AllParts == Sdb \cup Sdc \cup {"loop0p1", "loop0p2"}
Disks == [p \in AllParts |->
             IF p \in Sdb THEN "sdb" ELSE IF p \in Sdc THEN "sdc" ELSE "loop0"]
Nums == [p \in AllParts |-> IF p \in {"sdb1", "sdc1", "loop0p1"} THEN 1 ELSE 2]
Devices == <<"sdb1", "sdb2", "sdc1", "sdc2", "loop0p1", "loop0p2">>
Reported == {"sdb", "sdc"}

Boot(store, mode, name, use) ==
    [stage |-> "bootstrap", store |-> store, mode |-> mode, name |-> name, use |-> use]

WithLoop(sdb1, sdb2, sdc1, sdc2, loop1, loop2) ==
    [p \in AllParts |-> CASE p = "sdb1" -> sdb1 [] p = "sdb2" -> sdb2
                          [] p = "sdc1" -> sdc1 [] p = "sdc2" -> sdc2
                          [] p = "loop0p1" -> loop1 [] p = "loop0p2" -> loop2]

Table(sdb1, sdb2, sdc1, sdc2) == WithLoop(sdb1, sdb2, sdc1, sdc2, Absent, Absent)

BS(use) == Boot("bluestore", "DISK", foo, use)
BSL(use) == Boot("bluestore", "LVM", foo, use)
FS(use) == Boot("filestore", "DISK", foo, use)
FSL(use) == Boot("filestore", "LVM", bar, use)

SeparateDisks == Table(BS("osd"), Absent, BS("block"), Plain)

Labellings ==
    { SeparateDisks,
      Table(BS("osd"), BS("block"), BS("block.db"), BS("block.wal")),
      Table(BS("osd"), Absent, BS("osd"), Absent),
      Table(BS("osd"), Plain, BSL("osd"), Absent),
      Table(BSL("osd"), Absent, BSL("block.db"), BSL("block.wal")),
      Table(FS("osd"), Plain, FS("journal"), Absent),
      Table(FS("osd"), FSL("osd"), FS("journal"), FSL("journal")),
      Table(FSL("osd"), Absent, BSL("osd"), Absent),
      Table(BS("osd"), FS("osd"), BS("block"), FS("journal")),
      WithLoop(Plain, Absent, Absent, Absent, BS("osd"), Plain),
      WithLoop(BS("osd"), Plain, FS("journal"), Absent, FS("osd"), BS("block")),
      WithLoop(BS("osd"), Plain, Absent, Absent, FSL("osd"), BS("block")) }

OneLabelling == {SeparateDisks}
=============================================================================
