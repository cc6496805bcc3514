---------------------------- MODULE OsdBootstrap ----------------------------
(***************************************************************************)
(* Turning labelled partitions of one host into OSDs: the tasks of          *)
(* bootstrap_osds.yml and prepare_osds.yml, the lookup of find_disks.py and  *)
(* the bootstrap container that runs ceph-osd/extend_start.sh.              *)
(*                                                                         *)
(* The partition labels are the only memory between two runs of the play:    *)
(* KOLLA_CEPH_OSD_BOOTSTRAP... means "still to do", KOLLA_CEPH_DATA..._<id>  *)
(* means "OSD <id>".  The script renames the partitions of an OSD one after  *)
(* the other, and may fail or be killed between any two commands.           *)
(***************************************************************************)
EXTENDS Naturals, Sequences, FiniteSets

CONSTANTS
    Parts,          \* the partitions a disk of the host has or may get
    NoPart,         \* no partition
    DiskOf,         \* partition -> its disk
    Num,            \* partition -> its number
    InFacts,        \* the disks that ansible's setup reports: no loop devices
    Listing,        \* Parts in the order in which udev lists them
    Names,          \* the OSD names in bootstrap labels
    NoName,
    Layouts,        \* the labellings the operator may have prepared
    WipeConfirmed,  \* ceph_osd_wipe_disk says yes, or the operator does when asked
    MaxFailures,    \* bound of the model: scripts that fail or are killed
    MaxAborts       \* bound of the model: plays the operator aborts

Uses == {"osd", "block", "block.wal", "block.db", "journal"}
Stages == {"absent", "plain", "bootstrap", "data"}

(* The name of a partition: absent if there is no such partition, plain if   *)
(* its name is none of kolla's.  An OSD and its companions have the same      *)
(* label but for the suffix, that is, the use.                              *)
Label == [stage : Stages, store : {"bluestore", "filestore"}, mode : {"DISK", "LVM"},
          name : Names \cup {NoName} \cup Nat, use : Uses]

BootstrapAssumption ==
    /\ NoPart \notin Parts
    /\ IsFiniteSet(Parts)
    /\ Listing \in Seq(Parts)
    /\ \A p \in Parts : \E k \in DOMAIN Listing : Listing[k] = p
    /\ \A k, l \in DOMAIN Listing : Listing[k] = Listing[l] => k = l
    /\ \A p, q \in Parts : DiskOf[p] = DiskOf[q] /\ Num[p] = Num[q] => p = q
    /\ \A p \in Parts : Num[p] = 1 => \E q \in Parts : DiskOf[q] = DiskOf[p] /\ Num[q] = 2
    /\ Layouts \subseteq [Parts -> Label]
    /\ WipeConfirmed \in BOOLEAN
    /\ MaxFailures \in Nat
    /\ MaxAborts \in Nat
ASSUME BootstrapAssumption

Absent == [stage |-> "absent", store |-> "filestore", mode |-> "DISK",
           name |-> NoName, use |-> "osd"]
Plain == [Absent EXCEPT !.stage = "plain"]

Blank == [kind |-> "blank", id |-> 0]
UserData == [kind |-> "user", id |-> 0]
Holding(id) == [kind |-> "osd", id |-> id]

VARIABLES
    layout,      \* the labels as the operator prepared them
    label,       \* partition -> its label now
    uuid,        \* partition -> its GUID
    uuids,       \* how many GUIDs there are
    holds,       \* partition -> what is stored on it
    osdmap,      \* the GUIDs ceph knows; the index is the OSD id
    crush,       \* the OSD ids in the crush map
    complete,    \* history: [id, item] of each ceph-osd --mkfs that succeeded
    container,   \* index -> the run of bootstrap_osd_<index>, or NoRun
    play,        \* where the play is; see PlayStates
    facts,       \* the partitions in ansible_devices, as setup found them
    items,       \* osds_bootstrap
    n,           \* item.0, the index in items
    failed,      \* an item of the loop failed
    failures, aborts

diskVars == <<label, uuid, uuids, holds>>
cephVars == <<osdmap, crush, complete>>
playVars == <<play, facts, items, n, failed>>
vars == <<layout, diskVars, cephVars, container, playVars, failures, aborts>>

PlayStates == {"idle", "facts", "loop", "wait", "prepare", "ok", "failed", "aborted"}

NoItem == [osd |-> NoPart, store |-> "filestore", mode |-> "DISK", uuid |-> 0,
           external |-> FALSE, aux |-> NoPart, wal |-> NoPart, db |-> NoPart]
NoRun == [item |-> NoItem, step |-> 0, uuid |-> 0, id |-> 0]

Item == [osd : Parts, store : {"bluestore", "filestore"}, mode : {"DISK", "LVM"},
         uuid : Nat, external : BOOLEAN, aux : Parts, wal : Parts \cup {NoPart},
         db : Parts \cup {NoPart}]
Run == [item : Item, step : Nat \ {0}, uuid : Nat, id : Nat]

TypeOK ==
    /\ layout \in Layouts
    /\ label \in [Parts -> Label]
    /\ uuid \in [Parts -> Nat]
    /\ uuids \in Nat
    /\ holds \in [Parts -> [kind : {"blank", "user", "fs", "lvm", "osd"}, id : Nat]]
    /\ osdmap \in Seq(Nat)
    /\ crush \subseteq DOMAIN osdmap
    /\ complete \subseteq [id : DOMAIN osdmap, item : Item]
    /\ container \in [DOMAIN Listing -> Run \cup {NoRun}]
    /\ play \in PlayStates
    /\ facts \subseteq Parts
    /\ items \in Seq(Item)
    /\ n \in Nat \ {0}
    /\ failed \in BOOLEAN
    /\ failures \in Nat
    /\ aborts \in Nat

Init ==
    /\ layout \in Layouts
    /\ label = layout
    /\ uuid = [p \in Parts |-> CHOOSE k \in DOMAIN Listing : Listing[k] = p]
    /\ uuids = Cardinality(Parts)
    /\ holds = [p \in Parts |-> IF layout[p] = Plain THEN UserData ELSE Blank]
    /\ osdmap = <<>>
    /\ crush = {}
    /\ complete = {}
    /\ container = [k \in DOMAIN Listing |-> NoRun]
    /\ play = "idle"
    /\ facts = {}
    /\ items = <<>>
    /\ n = 1
    /\ failed = FALSE
    /\ failures = 0
    /\ aborts = 0

Exists(p) == label[p].stage # "absent"
OnDisk(d) == {p \in Parts : DiskOf[p] = d}

-----------------------------------------------------------------------------
(* find_disks.py *)

(* The last partition listed that has label lb and is not used up. *)
LastWith(lb, used) ==
    LET ks == {k \in DOMAIN Listing : label[Listing[k]] = lb /\ Listing[k] \notin used}
    IN IF ks = {} THEN NoPart ELSE Listing[CHOOSE k \in ks : \A l \in ks : l <= k]

PartAt(d, num) == CHOOSE p \in Parts : DiskOf[p] = d /\ Num[p] = num

(* What final_bluestore and final_filestore make of the OSD partition osd     *)
(* with label lb.  aux is the block or the journal partition; external means  *)
(* that a partition of its own was labelled for it.                         *)
Final(osd, lb, used) ==
    LET Companion(use) == LastWith([lb EXCEPT !.use = use], used)
        own == Companion(IF lb.store = "bluestore" THEN "block" ELSE "journal")
        whole == lb.store = "bluestore" /\ lb.mode = "LVM"
    IN [osd |-> osd, store |-> lb.store, mode |-> lb.mode, uuid |-> uuid[osd],
        external |-> ~whole /\ own # NoPart,
        aux |-> IF whole THEN osd
                ELSE IF own # NoPart THEN own
                ELSE IF Num[osd] = 1 THEN PartAt(DiskOf[osd], 2)
                ELSE NoPart,
        wal |-> IF lb.store = "bluestore" THEN Companion("block.wal") ELSE NoPart,
        db |-> IF lb.store = "bluestore" THEN Companion("block.db") ELSE NoPart]

(* The partitions whose partition_usage is reset once item is combined. *)
UsedUp(item) == {item.osd, item.wal, item.db} \cup
                IF item.external THEN {item.aux} ELSE {}

(* acc with what p adds to it; it adds nothing if it is no OSD partition, or   *)
(* one that needs the whole disk but is not its first partition.             *)
Extended(acc, stage, p, used) ==
    LET item == Final(LastWith(label[p], used), label[p], used)
    IN IF label[p].stage = stage /\ label[p].use = "osd" /\ item.aux # NoPart
         THEN Append(acc, item) ELSE acc

(* Variant: partition_usage is not reset. *)
Combine_Reuse(stage) ==
    LET acc[k \in 0 .. Len(Listing)] ==
            IF k = 0 THEN <<>> ELSE Extended(acc[k - 1], stage, Listing[k], {})
    IN acc[Len(Listing)]

(* combine_info: one item per OSD partition, in the order of the listing. *)
AllUsedUp(acc) == UNION {UsedUp(acc[k]) : k \in DOMAIN acc}

Combine(stage) ==
    LET acc[k \in 0 .. Len(Listing)] ==
            IF k = 0 THEN <<>>
            ELSE LET before == acc[k - 1]
                 IN Extended(before, stage, Listing[k], AllUsedUp(before))
    IN acc[Len(Listing)]

-----------------------------------------------------------------------------
(* extend_start.sh under KOLLA_BOOTSTRAP *)

WholeDevice(item) == item.aux = item.osd

(* init_wal_part and init_db_part are left out for a partition on the same   *)
(* device as the block partition.                                           *)
Separate(item, p) == p # NoPart /\ DiskOf[p] # DiskOf[item.aux]

PartsOf(item) == {item.osd, item.aux} \cup {p \in {item.wal, item.db} : Separate(item, p)}

AuxUse(item) == IF item.store = "bluestore" THEN "block" ELSE "journal"

Op(op, p, use) == [op |-> op, part |-> p, use |-> use]
When(cond, op) == IF cond THEN <<op>> ELSE <<>>

EraseAndRegister(item) ==
       When(~item.external /\ ~WholeDevice(item), Op("zap", item.osd, "osd"))
    \o When(~item.external /\ ~WholeDevice(item), Op("divide", item.osd, "osd"))
    \o <<Op("clear", item.osd, "osd")>>
    \o When(~WholeDevice(item), Op("clear", item.aux, AuxUse(item)))
    \o When(Separate(item, item.wal), Op("clear", item.wal, "block.wal"))
    \o When(Separate(item, item.db), Op("clear", item.db, "block.db"))
    \o <<Op("new", item.osd, "osd")>>

Rename(item) ==
       When(~WholeDevice(item), Op("rename", item.aux, AuxUse(item)))
    \o When(Separate(item, item.wal), Op("rename", item.wal, "block.wal"))
    \o When(Separate(item, item.db), Op("rename", item.db, "block.db"))

RenameOsd(item) == <<Op("rename", item.osd, "osd")>>
Format(item) == <<Op("format", item.osd, "osd")>>
Mkfs(item) == <<Op("mkfs", item.osd, "osd")>>
AddToCrush(item) == <<Op("crush", item.osd, "osd")>>

(* Variant: in DISK mode, the OSD partition is renamed after ceph-osd --mkfs. *)
Script_RenameLast(item) ==
    EraseAndRegister(item)
    \o (IF item.mode = "LVM" THEN RenameOsd(item) \o Format(item) \o Rename(item) \o Mkfs(item)
        ELSE Format(item) \o Rename(item) \o Mkfs(item) \o RenameOsd(item))
    \o AddToCrush(item)

(* prepare_osd_lvm or prepare_osd_disk, then ceph-osd --mkfs and the crush map *)
Script(item) ==
    EraseAndRegister(item)
    \o (IF item.mode = "LVM" THEN RenameOsd(item) \o Format(item) \o Rename(item)
        ELSE Format(item) \o Rename(item) \o RenameOsd(item))
    \o Mkfs(item)
    \o AddToCrush(item)

-----------------------------------------------------------------------------
(* The bootstrap container number k *)

Current(k) == Script(container[k].item)[container[k].step]

Runs(k, op) == container[k] # NoRun /\ Current(k).op = op

Advance(k) == container' = [container EXCEPT ![k].step = @ + 1]

Relabel(parts, lb) == label' = [p \in Parts |-> IF p \in parts THEN lb ELSE label[p]]
Store(parts, what) == holds' = [p \in Parts |-> IF p \in parts THEN what ELSE holds[p]]

(* sgdisk --zap-all on the device *)
ZapDisk(k) ==
    LET d == OnDisk(DiskOf[Current(k).part])
    IN /\ Runs(k, "zap")
       /\ Relabel(d, Absent)
       /\ Store(d, Blank)
       /\ Advance(k)
       /\ UNCHANGED <<layout, uuid, uuids, cephVars, playVars, failures, aborts>>

(* sgdisk --new for the partitions 1 and 2, with new GUIDs and no names *)
DivideDisk(k) ==
    LET it == container[k].item
    IN /\ Runs(k, "divide")
       /\ Relabel({it.osd, it.aux}, Plain)
       /\ uuid' = [uuid EXCEPT ![it.osd] = uuids + 1, ![it.aux] = uuids + 2]
       /\ uuids' = uuids + 2
       /\ container' = [container EXCEPT ![k].step = @ + 1, ![k].uuid = uuids + 1]
       /\ UNCHANGED <<layout, holds, cephVars, playVars, failures, aborts>>

(* sgdisk --zap-all on the partition *)
ClearPart(k) ==
    /\ Runs(k, "clear")
    /\ Exists(Current(k).part)
    /\ Store({Current(k).part}, Blank)
    /\ Advance(k)
    /\ UNCHANGED <<layout, label, uuid, uuids, cephVars, playVars, failures, aborts>>

(* Variant: the id of the OSD before, when a new one is made. *)
NewOsd_LastId(k) ==
    /\ Runs(k, "new")
    /\ osdmap' = Append(osdmap, container[k].uuid)
    /\ container' = [container EXCEPT ![k].step = @ + 1, ![k].id = Len(osdmap)]
    /\ UNCHANGED <<layout, diskVars, crush, complete, playVars, failures, aborts>>

(* ceph osd new: a GUID that ceph knows keeps its id. *)
NewOsd(k) ==
    /\ Runs(k, "new")
    /\ LET u == container[k].uuid
           known == {i \in DOMAIN osdmap : osdmap[i] = u}
       IN /\ osdmap' = IF known = {} THEN Append(osdmap, u) ELSE osdmap
          /\ container' = [container EXCEPT
                ![k].step = @ + 1,
                ![k].id = IF known = {} THEN Len(osdmap) + 1 ELSE CHOOSE i \in known : TRUE]
    /\ UNCHANGED <<layout, diskVars, crush, complete, playVars, failures, aborts>>

(* mkfs -t xfs, or vgcreate, lvcreate and the tags *)
FormatPart(k) ==
    LET it == container[k].item
    IN /\ Runs(k, "format")
       /\ Exists(it.osd)
       /\ Store({it.osd}, [kind |-> IF it.mode = "LVM" THEN "lvm" ELSE "fs",
                           id |-> container[k].id])
       /\ Advance(k)
       /\ UNCHANGED <<layout, label, uuid, uuids, cephVars, playVars, failures, aborts>>

(* sgdisk --change-name *)
RenamePart(k) ==
    LET it == container[k].item
    IN /\ Runs(k, "rename")
       /\ Exists(Current(k).part)
       /\ Relabel({Current(k).part},
                  [stage |-> "data", store |-> it.store, mode |-> it.mode,
                   name |-> container[k].id, use |-> Current(k).use])
       /\ Advance(k)
       /\ UNCHANGED <<layout, uuid, uuids, holds, cephVars, playVars, failures, aborts>>

(* ceph-osd --mkfs *)
MkfsOsd(k) ==
    LET r == container[k]
    IN /\ Runs(k, "mkfs")
       /\ \A p \in PartsOf(r.item) : Exists(p)
       /\ Store(PartsOf(r.item), Holding(r.id))
       /\ complete' = complete \cup {[id |-> r.id, item |-> r.item]}
       /\ Advance(k)
       /\ UNCHANGED <<layout, label, uuid, uuids, osdmap, crush, playVars, failures, aborts>>

(* The container is gone.  If the play waits for it, it goes on with the next *)
(* item of the loop, whatever the return code.                              *)
Exit(k, ok) ==
    /\ container' = [container EXCEPT ![k] = NoRun]
    /\ IF play = "wait" /\ n = k
         THEN play' = "loop" /\ n' = n + 1 /\ failed' = (failed \/ ~ok)
         ELSE UNCHANGED <<play, n, failed>>
    /\ UNCHANGED <<layout, diskVars, osdmap, complete, facts, items, aborts>>

(* ceph osd crush add; exit 0 *)
AddCrush(k) ==
    /\ Runs(k, "crush")
    /\ crush' = crush \cup {container[k].id}
    /\ Exit(k, TRUE)
    /\ UNCHANGED failures

(* errexit: a command failed, or the container was killed, or the host was. *)
ScriptFails(k) ==
    /\ container[k] # NoRun
    /\ failures < MaxFailures
    /\ failures' = failures + 1
    /\ Exit(k, FALSE)
    /\ UNCHANGED crush

(* The command cannot succeed: its partition is not there. *)
PartMissing(k) ==
    /\ container[k] # NoRun
    /\ \/ Current(k).op \in {"clear", "format", "rename"} /\ ~Exists(Current(k).part)
       \/ Current(k).op = "mkfs" /\ \E p \in PartsOf(container[k].item) : ~Exists(p)
    /\ Exit(k, FALSE)
    /\ UNCHANGED <<crush, failures>>

Container(k) ==
    \/ ZapDisk(k) \/ DivideDisk(k) \/ ClearPart(k) \/ NewOsd(k) \/ FormatPart(k)
    \/ RenamePart(k) \/ MkfsOsd(k) \/ AddCrush(k) \/ ScriptFails(k) \/ PartMissing(k)

-----------------------------------------------------------------------------
(* The play *)

(* Setup, at the start of the play.  A play can be started as long as none is  *)
(* running; it does not know of containers that still run, and these go on    *)
(* between the facts and the lookup.                                        *)
GatherFacts ==
    /\ play \in {"idle", "ok", "failed", "aborted"}
    /\ play' = "facts"
    /\ facts' = {p \in Parts : Exists(p) /\ DiskOf[p] \in InFacts}
    /\ UNCHANGED <<layout, diskVars, cephVars, container, items, n, failed, failures,
                   aborts>>

(* Variant: a disk with two partitions is wiped without a question. *)
Asks_Two(item) ==
    /\ ~item.external
    /\ DiskOf[item.osd] \in InFacts
    /\ Cardinality(facts \cap OnDisk(DiskOf[item.osd])) > 2

(* "appears to contain other existing partitions (>1)".  Of a disk that setup  *)
(* does not know nobody is asked.                                           *)
Asks(item) ==
    /\ ~item.external
    /\ DiskOf[item.osd] \in InFacts
    /\ Cardinality(facts \cap OnDisk(DiskOf[item.osd])) > 1

(* Variant: the lookup matches the labels of finished OSDs as well. *)
Lookup_AnyLabel ==
    /\ play = "facts"
    /\ items' = Combine("bootstrap") \o Combine("data")
    /\ play' = IF ~WipeConfirmed /\ \E k \in DOMAIN items' : Asks(items'[k])
                 THEN "aborted" ELSE "loop"
    /\ n' = 1
    /\ failed' = FALSE
    /\ UNCHANGED <<layout, diskVars, cephVars, container, facts, failures, aborts>>

(* The lookup, and the prompts for all items. *)
Lookup ==
    /\ play = "facts"
    /\ items' = Combine("bootstrap")
    /\ play' = IF ~WipeConfirmed /\ \E k \in DOMAIN items' : Asks(items'[k])
                 THEN "aborted" ELSE "loop"
    /\ n' = 1
    /\ failed' = FALSE
    /\ UNCHANGED <<layout, diskVars, cephVars, container, facts, failures, aborts>>

(* start_container with detach: False.  A container of that name left over    *)
(* always differs (KOLLA_BOOTSTRAP is null in one environment and empty in    *)
(* the other), so it is stopped and removed.                                *)
StartContainer ==
    /\ play = "loop"
    /\ n <= Len(items)
    /\ play' = "wait"
    /\ container' = [container EXCEPT
          ![n] = [item |-> items[n], step |-> 1, uuid |-> items[n].uuid, id |-> 0]]
    /\ UNCHANGED <<layout, diskVars, cephVars, facts, items, n, failed, failures,
                   aborts>>

LoopDone ==
    /\ play = "loop"
    /\ n > Len(items)
    /\ play' = IF failed THEN "failed" ELSE "prepare"
    /\ UNCHANGED <<layout, diskVars, cephVars, container, facts, items, n, failed,
                   failures, aborts>>

(* What prepare_osds needs of an OSD it finds.  One in DISK mode must be       *)
(* mounted and tell its id from its `whoami` file, a filestore in LVM mode     *)
(* must be found by the tags of its volume; a bluestore in LVM mode gets a     *)
(* tmpfs, whatever it holds.                                                *)
Mounts(item) ==
    \/ item.mode = "DISK" /\ holds[item.osd].kind = "osd"
    \/ item.mode = "LVM" /\ item.store = "filestore" /\ holds[item.osd].kind \in {"lvm", "osd"}
    \/ item.mode = "LVM" /\ item.store = "bluestore"

PrepareOsds ==
    LET found == Combine("data")
    IN /\ play = "prepare"
       /\ play' = IF \A k \in DOMAIN found : Mounts(found[k]) THEN "ok" ELSE "failed"
       /\ UNCHANGED <<layout, diskVars, cephVars, container, facts, items, n, failed,
                      failures, aborts>>

(* Ctrl-C on the deployment host: a container that runs goes on. *)
Abort ==
    /\ play \in {"facts", "loop", "wait"}
    /\ aborts < MaxAborts
    /\ aborts' = aborts + 1
    /\ play' = "aborted"
    /\ UNCHANGED <<layout, diskVars, cephVars, container, facts, items, n, failed,
                   failures>>

Play == GatherFacts \/ Lookup \/ StartContainer \/ LoopDone \/ PrepareOsds \/ Abort

Next == Play \/ \E k \in DOMAIN container : Container(k)

Spec == Init /\ [][Next]_vars

-----------------------------------------------------------------------------
(* The host's own data survives: nothing is ever stored on, or removed from,  *)
(* a partition that was not labelled, unless the operator confirmed that the  *)
(* disk may be wiped or setup does not report the disk (then the play means   *)
(* not to ask).  This holds however often scripts fail, or plays are aborted   *)
(* and started again while a container of an aborted one divides disks after   *)
(* the partitions were counted.                                             *)
UserDataKept ==
    ~WipeConfirmed =>
        \A p \in Parts : layout[p] = Plain /\ DiskOf[p] \in InFacts =>
            holds[p] = UserData /\ label[p] = Plain

(* A finished OSD is never touched again: whatever fails afterwards, no later *)
(* run clears, relabels or reuses its partitions on disks that setup reports.  *)
(* (If no play was aborted: the next one cannot see the container that still   *)
(* runs, and may start another one on the same partitions.)                  *)
CompleteKept ==
    [][~WipeConfirmed /\ aborts = 0 =>
        \A c \in complete : \A p \in PartsOf(c.item) :
            DiskOf[p] \in InFacts => holds'[p] = holds[p] /\ label'[p] = label[p]]_vars

(* A partition still labelled for bootstrap holds no finished OSD, so doing   *)
(* the bootstrap again destroys nothing; and every partition of a finished    *)
(* OSD is labelled with its id, so no two share one.  (The second if no play   *)
(* was aborted and nobody agreed to wipe a disk with an OSD, nor was one       *)
(* wiped unasked because setup does not report it.)                          *)
LabelsTellTheTruth ==
    /\ \A p \in Parts : label[p].stage = "bootstrap" => holds[p].kind # "osd"
    /\ ~WipeConfirmed /\ aborts = 0 =>
        \A c \in complete : \A p \in PartsOf(c.item) :
            DiskOf[p] \in InFacts => label[p].stage = "data" /\ label[p].name = c.id

(* When nothing failed, a successful play has made every labelled OSD, on the *)
(* partitions that were labelled for it, and each is in the crush map.        *)
OsdLabels == {p \in Parts : layout[p].stage = "bootstrap" /\ layout[p].use = "osd"}

LabelsHonoured ==
    play = "ok" /\ failures = 0 /\ aborts = 0 =>
        \A p \in OsdLabels : \E c \in complete :
            /\ c.item.osd = p
            /\ c.id \in crush
            /\ {q \in Parts : layout[q] \in {[layout[p] EXCEPT !.use = "block"],
                                             [layout[p] EXCEPT !.use = "journal"]}}
                 \subseteq {c.item.aux}

-----------------------------------------------------------------------------
(* A claim that the code does not keep *)

(* "If there is a separate block partition, then this partition only          *)
(* represents osd data" (README.md:225): an OSD whose block partition was      *)
(* labelled keeps its block there.  When a run fails after it has renamed the  *)
(* block partition, the next one does not find it and takes the whole disk.   *)
SeparateBlock ==
    \A c \in complete : \A q \in Parts :
        layout[q] = [layout[c.item.osd] EXCEPT !.use = "block"]
        /\ layout[c.item.osd].use = "osd"
        /\ layout[c.item.osd].mode = "DISK"
            => c.item.aux = q
=============================================================================
