----------------------------- MODULE CephDeploy -----------------------------
(***************************************************************************)
(* deploy.yml: which monitor host makes the cluster, the keys it makes and     *)
(* where they go, and the keyrings, device classes, pools and filesystem that  *)
(* the kolla_ceph modules make with sequences of ceph commands; between them,   *)
(* the include of fetch_keyrings.yml that reads a name no file defines.        *)
(*                                                                         *)
(* The play does a task on all its hosts before the next one; a host whose     *)
(* task fails leaves the play.  A play that failed is repeated.  The four      *)
(* files of a cluster (three keyrings and the monmap) stand as one text, a     *)
(* sequence in which a shorter text lacks a file or the end of one.            *)
(***************************************************************************)
EXTENDS Integers, SequencesExt

CONSTANTS
    Inventories,  \* what the group ceph-mon may be: sequences of hosts
    None,         \* no host
    Text,         \* generation of keys -> the text of its files
    Leftovers,    \* what may lie in /etc/kolla/ceph-mon of a host before
    Entities,     \* the keyrings made in ceph after client.admin, in the order of the play
    Osds,         \* the osds, in the order of the play
    FsPools, OtherPools,  \* the pools of cephfs and those of ceph_pools, in order
    Pool,         \* pool -> whether it is erasure, and has a rule, a cache, a rule for it
    MaxPlays,     \* bound of the model: plays started
    MaxEdits,     \* bound of the model: changes of what is wanted
    MaxFaults     \* bound of the model: tasks that fail and monitors that stop

Hosts == UNION {Range(inv) : inv \in Inventories}
Keyrings == {"client.admin"} \cup Range(Entities)
Pools == Range(FsPools) \cup Range(OtherPools)

DeployAssumption ==
    /\ \A inv \in Inventories : inv # <<>>
    /\ \A s \in Inventories \cup {Entities, Osds, FsPools, OtherPools} : s \in Seq(Range(s))
    /\ None \notin Hosts /\ None \notin Seq(Nat)
    /\ DOMAIN Text \subseteq Nat \ {0}
    /\ \A inv \in Inventories : DOMAIN inv \subseteq DOMAIN Text
    /\ \A g \in DOMAIN Text : /\ Text[g] \in Seq(Nat) /\ Text[g] # <<>>
                              /\ \A i \in DOMAIN Text[g] : Text[g][i] = g
    /\ Leftovers \subseteq Seq(Nat)
    /\ \A p \in Pools : \A f \in {"erasure", "rule", "cache", "cacheRule"} :
           Pool[p][f] \in BOOLEAN
    /\ MaxPlays \in Nat /\ MaxEdits \in Nat /\ MaxFaults \in Nat
ASSUME DeployAssumption

VARIABLES
    want,      \* the group ceph-mon, the caps and the device class asked for, and whether
               \* globals.yml defines ceph_install_daemon, as a list with ceph-mon in it
    volume,    \* host -> the text in ceph_mon_config, or None if there is no volume
    pushed,    \* host -> the text in /etc/kolla/ceph-mon
    mon,       \* host -> state of the container, and the generation of the keys the
               \* monitor was made with, or 0
    made,      \* generations of keys made
    ceph,      \* what the cluster holds: caps, class, pools, fs
    play,      \* the play: tasks left, hosts still in it, those that have the task before
               \* them, and its facts
    hurt,      \* history: pools and osds on which a play failed between two commands
    tainted,   \* history: keys were made where files of an older cluster lay, or while a
               \* host that had the volume was out of the play
    plays, edits, faults

counts == <<plays, edits, faults>>
history == <<hurt, tainted>>
vars == <<want, volume, pushed, mon, made, ceph, play, history, counts>>

Settings == {"created", "app", "overwrites", "cache", "tier", "mode", "overlay"}

Task(name, arg) == [task |-> name, arg |-> arg]
Each(name, args) == [i \in DOMAIN args |-> Task(name, args[i])]

DeployTasks ==
    Each("mons", <<"check", "volume", "write", "generate", "register", "fetch", "push", "up">>)
    \o <<Task("keyring", "client.admin"), Task("refetch", "keys")>>
    \o Each("keyring", Entities) \o Each("class", Osds) \o Each("pool", FsPools)
    \o <<Task("fs", "cephfs")>> \o Each("pool", OtherPools)

Idle == [todo |-> <<>>, alive |-> {}, left |-> {}, fresh |-> {}, active |-> None,
         temp |-> None, generated |-> FALSE, available |-> None, keys |-> <<>>,
         result |-> "none"]

Init ==
    /\ want \in [mons : Inventories, caps : {1}, class : {"ssd"}, named : BOOLEAN]
    /\ volume = [h \in Hosts |-> None]
    /\ pushed \in [Hosts -> Leftovers]
    /\ mon = [h \in Hosts |-> [state |-> "down", key |-> 0]]
    /\ made = 0
    /\ ceph = [caps |-> [e \in Keyrings |-> IF e = "client.admin" THEN 1 ELSE 0],
               class |-> [o \in Range(Osds) |-> "hdd"],
               pools |-> [p \in Pools |-> {}], fs |-> FALSE]
    /\ play = Idle
    /\ hurt = {} /\ tainted = FALSE
    /\ plays = 0 /\ edits = 0 /\ faults = 0

-----------------------------------------------------------------------------
(* The play.                                                                *)

First == want.mons[1]

StartPlay ==
    /\ play.todo = <<>>
    /\ plays < MaxPlays
    /\ plays' = plays + 1
    /\ play' = [Idle EXCEPT !.todo = DeployTasks, !.alive = Range(want.mons),
                            !.left = Range(want.mons), !.result = "running"]
    /\ UNCHANGED <<want, volume, pushed, mon, made, ceph, history, edits, faults>>

AtTask(name) == play.todo # <<>> /\ Head(play.todo).task = name
At(step) == AtTask("mons") /\ Head(play.todo).arg = step

(* The task before it is done on every host; what failed on one host makes the *)
(* play fail in the end.                                                    *)
Over(p) ==
    IF p.todo # <<>> THEN p
    ELSE [p EXCEPT !.result = IF p.alive = Range(want.mons) THEN "ok" ELSE "failed"]
Pass(p) == Over([p EXCEPT !.todo = Tail(@), !.left = p.alive])
Done(p, h) == IF p.left = {h} THEN Pass(p) ELSE [p EXCEPT !.left = @ \ {h}]
AllFail == play' = [play EXCEPT !.todo = <<>>, !.result = "failed"]
HostFails_Waits(h) ==
    IF play.alive = {h} THEN AllFail ELSE play' = [play EXCEPT !.alive = @ \ {h}]
HostFails(h) ==
    IF play.alive = {h} THEN AllFail
    ELSE play' = Done([play EXCEPT !.alive = @ \ {h}], h)

Serves(h) == h \in Hosts /\ mon[h].state = "up"

(* check_mons.yml: ceph health is given one second.                           *)
CheckMons ==
    /\ At("check")
    /\ \E answer \in {None} \cup {h \in Range(want.mons) : Serves(h)} :
           play' = Pass([play EXCEPT !.active = answer])
    /\ UNCHANGED <<want, volume, pushed, mon, made, ceph, history, counts>>

CreateVolume(h) ==
    /\ At("volume") /\ h \in play.left
    /\ volume' = [volume EXCEPT ![h] = IF @ = None THEN <<>> ELSE @]
    /\ play' = Done([play EXCEPT !.fresh = IF volume[h] = None THEN @ \cup {h} ELSE @], h)
    /\ UNCHANGED <<want, pushed, mon, made, ceph, history, counts>>

(* A host that had the volume writes its name to the one temporary file.       *)
WriteTemp(h) ==
    /\ At("write") /\ h \in play.left
    /\ play' = Done([play EXCEPT !.temp = IF h \in play.fresh THEN @ ELSE h], h)
    /\ UNCHANGED <<want, volume, pushed, mon, made, ceph, history, counts>>

Generates_Fresh == First \in play.alive /\ First \in play.fresh /\ play.active = None
Generates == First \in play.alive /\ play.temp = None /\ play.active = None

Generate ==
    /\ At("generate")
    /\ play' = IF Generates
               THEN [play EXCEPT !.todo = <<Task("bootstrap", 1)>> \o Tail(@)]
               ELSE Pass(play)
    /\ UNCHANGED <<want, volume, pushed, mon, made, ceph, history, counts>>

Unheard == {h \in Range(want.mons) \ play.alive : volume[h] # None}

(* The bootstrap container of the first monitor writes file after file.        *)
Bootstrap ==
    /\ AtTask("bootstrap")
    /\ LET i == Head(play.todo).arg
           g == IF i = 1 THEN made + 1 ELSE made
           next == IF i < Len(Text[g]) THEN Task("bootstrap", i + 1) ELSE Task("first", First)
       IN /\ made' = g
          /\ volume' = [volume EXCEPT ![First] = SubSeq(Text[g], 1, i)]
          /\ play' = [play EXCEPT !.todo = <<next>> \o Tail(@)]
    /\ tainted' = (tainted \/ pushed[First] # <<>> \/ Unheard # {})
    /\ UNCHANGED <<want, pushed, mon, ceph, hurt, counts>>

(* The handler Starting first ceph-mon container.                             *)
StartFirst ==
    /\ AtTask("first")
    /\ mon' = [mon EXCEPT ![First].state = "starting"]
    /\ play' = Pass([play EXCEPT !.generated = TRUE])
    /\ UNCHANGED <<want, volume, pushed, made, ceph, history, counts>>

(* Done once, with the bootstrap_host of the first monitor host the play lists:  *)
(* any of them, as it lists the groups ceph-mds and ceph-mgr before ceph-mon.    *)
(* Only the host that generated has itself there.                            *)
Available(h) ==
    IF play.active # None THEN play.active
    ELSE IF play.generated /\ h = First THEN First ELSE play.temp

Register ==
    /\ At("register")
    /\ \E h \in play.alive : play' = Pass([play EXCEPT !.available = Available(h)])
    /\ UNCHANGED <<want, volume, pushed, mon, made, ceph, history, counts>>

(* fetch_ceph_keys.py in the container of that monitor, if it runs.            *)
HasFiles(text) == Len(text) >= Len(Text[Head(text)])

Fetchable ==
    LET h == play.available
    IN h # None /\ mon[h].state # "down" /\ volume[h] # <<>> /\ HasFiles(volume[h])

FetchKeys ==
    IF Fetchable THEN play' = Pass([play EXCEPT !.keys = volume[play.available]]) ELSE AllFail

Fetch ==
    /\ At("fetch")
    /\ FetchKeys
    /\ UNCHANGED <<want, volume, pushed, mon, made, ceph, history, counts>>

(* The include for deploys without the monitors, done once, on the first host    *)
(* of the play: one of ceph-mon does not need it, one of another group does it.  *)
(* Its condition reads ceph_install_daemon: where nobody defines the name, the   *)
(* condition cannot be evaluated and the play ends.                          *)
Refetch ==
    /\ AtTask("refetch")
    /\ IF want.named THEN play' = Pass(play) \/ FetchKeys ELSE AllFail
    /\ UNCHANGED <<want, volume, pushed, mon, made, ceph, history, counts>>

(* bslurp opens the file without O_TRUNC: the rest of a longer one stays.      *)
CopyToHost(new, old) == IF old = new THEN old ELSE new \o SubSeq(old, Len(new) + 1, Len(old))

Push(h) ==
    /\ At("push") /\ h \in play.left
    /\ pushed' = [pushed EXCEPT ![h] = CopyToHost(play.keys, @)]
    /\ play' = Done(play, h)
    /\ UNCHANGED <<want, volume, mon, made, ceph, history, counts>>

(* The handler of the monitor: compare_container asks for one that runs.       *)
BringUp(h) ==
    /\ At("up") /\ h \in play.left
    /\ mon' = [mon EXCEPT ![h].state = IF @ = "down" THEN "starting" ELSE @]
    /\ play' = Done(play, h)
    /\ UNCHANGED <<want, volume, pushed, made, ceph, history, counts>>

-----------------------------------------------------------------------------
(* The commands of the kolla_ceph modules.                                   *)

Cmd(op, x) == [task |-> "command", arg |-> [op |-> op, x |-> x]]
Cmds(ops, x) == [i \in DOMAIN ops |-> Cmd(ops[i], x)]

EnsureKeyring_CreatesOnly(e) ==
    IF ceph.caps[e] = 0 THEN <<Cmd("get_or_create", e)>> ELSE <<>>
EnsureKeyring(e) ==
    CASE ceph.caps[e] = 0 -> <<Cmd("get_or_create", e)>>
      [] ceph.caps[e] \notin {0, want.caps} -> <<Cmd("caps", e)>>
      [] OTHER -> <<>>

SetDeviceClass(o) ==
    IF ceph.class[o] = want.class THEN <<>>
    ELSE Cmds(<<"rm_device_class", "set_device_class">>, o)

CacheCommands_NoOverlay(p) ==
    IF Pool[p].cache /\ Pool[p].cacheRule
    THEN Cmds(<<"rule", "cache", "tier", "mode", "unset_limit">>, p) ELSE <<>>

(* Without a rule the module returns.  With one it sets target_max_bytes in     *)
(* the end: the plays pass none, so that its value is null, no word of a       *)
(* command, and the module ends with an exception.                            *)
CacheCommands(p) ==
    IF Pool[p].cache /\ Pool[p].cacheRule
    THEN Cmds(<<"rule", "cache", "tier", "mode", "overlay", "unset_limit">>, p) ELSE <<>>

PreparePool(p) ==
    CASE "created" \in ceph.pools[p] -> <<>>
      [] "created" \notin ceph.pools[p] /\ Pool[p].erasure ->
             Cmds(<<"profile", "created", "app", "overwrites">>, p) \o CacheCommands(p)
      [] "created" \notin ceph.pools[p] /\ ~Pool[p].erasure /\ Pool[p].rule ->
             Cmds(<<"rule", "created", "app">>, p) \o CacheCommands(p)
      [] OTHER -> <<>>

MakeFs == IF ceph.fs THEN <<>> ELSE <<Cmd("fs_new", "cephfs")>>

Plan(t) ==
    CASE t.task = "keyring" -> EnsureKeyring(t.arg)
      [] t.task = "class" -> SetDeviceClass(t.arg)
      [] t.task = "pool" -> PreparePool(t.arg)
      [] t.task = "fs" -> MakeFs

(* What ceph refuses: a class for an osd that has another, a filesystem        *)
(* without its pools, and what is no command.                                *)
Refused(c) ==
    \/ c.op = "set_device_class" /\ ceph.class[c.x] \notin {"none", want.class}
    \/ c.op = "fs_new" /\ \E p \in Range(FsPools) : "created" \notin ceph.pools[p]
    \/ c.op = "unset_limit"

Applied(c) ==
    CASE c.op \in Settings -> [ceph EXCEPT !.pools[c.x] = @ \cup {c.op}]
      [] c.op \in {"get_or_create", "caps"} -> [ceph EXCEPT !.caps[c.x] = want.caps]
      [] c.op = "rm_device_class" -> [ceph EXCEPT !.class[c.x] = "none"]
      [] c.op = "set_device_class" -> [ceph EXCEPT !.class[c.x] = want.class]
      [] c.op = "fs_new" -> [ceph EXCEPT !.fs = TRUE]
      [] OTHER -> ceph

InCeph == \E name \in {"keyring", "class", "pool", "fs", "command"} : AtTask(name)

(* The module asks what there is.                                            *)
Ask ==
    /\ InCeph /\ ~AtTask("command") /\ Serves(play.available)
    /\ play' = Over([play EXCEPT !.todo = Plan(Head(@)) \o Tail(@)])
    /\ UNCHANGED <<want, volume, pushed, mon, made, ceph, history, counts>>

Command ==
    /\ AtTask("command") /\ Serves(play.available)
    /\ LET c == Head(play.todo).arg
       IN IF Refused(c) THEN AllFail /\ UNCHANGED ceph
          ELSE play' = Pass(play) /\ ceph' = Applied(c)
    /\ UNCHANGED <<want, volume, pushed, mon, made, history, counts>>

(* docker exec finds no container, or the monitor in it gives no answer.        *)
Hurt == 
    /\ hurt' = (IF AtTask("command") THEN hurt \cup {Head(play.todo).arg.x} ELSE hurt)
    /\ UNCHANGED tainted

NoMonitor ==
    /\ InCeph /\ ~Serves(play.available)
    /\ AllFail
    /\ Hurt
    /\ UNCHANGED <<want, volume, pushed, mon, made, ceph, counts>>

-----------------------------------------------------------------------------
(* Failures, the monitors' containers and the operator.                       *)

Fault == faults < MaxFaults /\ faults' = faults + 1

(* A task fails before it has any effect.                                     *)
TaskFails ==
    /\ play.todo # <<>>
    /\ Fault
    /\ \/ /\ \E step \in {"volume", "write", "push", "up"} : At(step)
          /\ \E h \in play.left : HostFails(h)
       \/ /\ AtTask("bootstrap") \/ AtTask("first")
          /\ IF play.alive = {First} THEN AllFail
             ELSE play' = Pass([play EXCEPT !.alive = @ \ {First}])
       \/ InCeph /\ AllFail
    /\ Hurt
    /\ UNCHANGED <<want, volume, pushed, mon, made, ceph, plays, edits>>

(* The connection is lost within it.                                         *)
PushBreaks(h) ==
    /\ At("push") /\ h \in play.left
    /\ Fault
    /\ pushed' = [pushed EXCEPT ![h] = CopyToHost(<<Head(play.keys)>>, @)]
    /\ HostFails(h)
    /\ UNCHANGED <<want, volume, mon, made, ceph, history, plays, edits>>

AnswerLost ==
    /\ AtTask("command") /\ Serves(play.available) /\ ~Refused(Head(play.todo).arg)
    /\ Fault
    /\ ceph' = Applied(Head(play.todo).arg)
    /\ AllFail
    /\ Hurt
    /\ UNCHANGED <<want, volume, pushed, mon, made, plays, edits>>

(* set_configs copies what was pushed; a monitor without data is made of the    *)
(* keys in /etc/ceph, if they are those of a cluster, with the monmap of the    *)
(* others or, when they do not answer in a second, with the hosts of ceph.conf. *)
MonStarts(h) ==
    /\ mon[h].state = "starting"
    /\ volume' = [volume EXCEPT ![h] = IF pushed[h] = <<>> THEN @ ELSE pushed[h]]
    /\ \/ mon[h].key # 0 /\ mon' = [mon EXCEPT ![h].state = "up"]
       \/ /\ mon[h].key = 0 /\ volume'[h] \in Range(Text)
          /\ mon' = [mon EXCEPT ![h] = [state |-> "up", key |-> Head(volume'[h])]]
       \/ mon[h].key = 0 /\ volume'[h] \notin Range(Text) /\ UNCHANGED mon
    /\ UNCHANGED <<want, pushed, made, ceph, play, history, counts>>

(* The container ends, and is started again by docker or stays stopped.        *)
MonStops(h) ==
    /\ mon[h].state = "up"
    /\ Fault
    /\ mon' \in {[mon EXCEPT ![h].state = "starting"], [mon EXCEPT ![h].state = "down"]}
    /\ UNCHANGED <<want, volume, pushed, made, ceph, play, history, plays, edits>>

(* Monitor hosts are added, in any place; caps and class change, and the name    *)
(* the include reads is defined or no longer is.                             *)
Edit ==
    /\ play.todo = <<>>
    /\ edits < MaxEdits
    /\ edits' = edits + 1
    /\ want' \in {[want EXCEPT !.mons = inv] : inv \in
                     {i \in Inventories : Range(want.mons) \subseteq Range(i) /\ i # want.mons}}
                 \cup {[want EXCEPT !.caps = @ + 1], [want EXCEPT !.class = "nvme"],
                      [want EXCEPT !.named = ~@]}
    /\ play' = Idle
    /\ UNCHANGED <<volume, pushed, mon, made, ceph, history, plays, faults>>

Next ==
    \/ StartPlay \/ CheckMons \/ Generate \/ Bootstrap \/ StartFirst \/ Register \/ Fetch
    \/ Refetch \/ Ask \/ Command \/ NoMonitor \/ TaskFails \/ AnswerLost \/ Edit
    \/ \E h \in Hosts : \/ CreateVolume(h) \/ WriteTemp(h) \/ Push(h) \/ BringUp(h)
                        \/ PushBreaks(h) \/ MonStarts(h) \/ MonStops(h)

Spec == Init /\ [][Next]_vars

-----------------------------------------------------------------------------
(* The types of the variables; a host that has the task before it is in the     *)
(* play.                                                                     *)
TypeOK ==
    /\ want.mons \in Inventories /\ want.caps \in 1 .. MaxEdits + 1
    /\ made \in 0 .. Len(want.mons)
    /\ \A h \in Hosts : /\ mon[h].state \in {"down", "starting", "up"}
                        /\ mon[h].key \in {0} \cup DOMAIN Text
    /\ ceph.pools \in [Pools -> SUBSET Settings] /\ ceph.fs \in BOOLEAN
    /\ play.left \subseteq play.alive /\ play.alive \subseteq Range(want.mons)
    /\ play.result = "running" <=> play.todo # <<>>
    /\ play.todo # <<>> => play.left # {}
    /\ plays \in 0 .. MaxPlays /\ edits \in 0 .. MaxEdits /\ faults \in 0 .. MaxFaults

(* Whatever fails and whoever answers too late, in whatever order hosts are     *)
(* added: keys are made once, all monitors are made of the same keys, and what  *)
(* lies in ceph_mon_config of a monitor's host belongs to them                *)
(* (bootstrap_mons.yml, generate_cluster.yml, extend_start.sh), unless keys     *)
(* were made where files of an older cluster lay, or while a host that had the *)
(* volume was out of the play.                                              *)
OneCluster ==
    ~tainted =>
    /\ made <= 1
    /\ \A a, b \in Hosts : mon[a].key # 0 /\ mon[b].key # 0 =>
           /\ mon[a].key = mon[b].key
           /\ Head(volume[b]) = mon[a].key

(* When the tasks of the monitors and of client.admin are done, and when a       *)
(* deploy ends well, every monitor host still in the play has the keys of the    *)
(* monitors there are, at most followed by the rest of a longer file that lay    *)
(* there (bslurp.py), and client.admin has the caps asked for; every other       *)
(* keyring has them when a deploy ends well (kolla_ceph_keyring.py), which one   *)
(* does only where ceph_install_daemon is defined.                           *)
KeyringsInForce ==
    AtTask("refetch") \/ play.result = "ok" =>
        /\ \E a \in Range(want.mons) : mon[a].key # 0
        /\ ~tainted => \A a \in Hosts, h \in play.alive : mon[a].key # 0 =>
               IsPrefix(Text[mon[a].key], pushed[h])
        /\ ceph.caps["client.admin"] = want.caps
        /\ play.result = "ok" => \A e \in Keyrings : ceph.caps[e] = want.caps

Asked(p) ==
    {"created", "app"}
    \cup (IF Pool[p].erasure THEN {"overwrites"} ELSE {})
    \cup (IF Pool[p].cache /\ Pool[p].cacheRule
          THEN {"cache", "tier", "mode", "overlay"} ELSE {})

(* A deploy that ends well (only one with ceph_install_daemon defined does)       *)
(* leaves the filesystem, every osd in its class, and every pool that has a rule *)
(* or is erasure coded; a pool lacks a setting only if some deploy failed while  *)
(* it made that pool.  An osd is without a class only between the two commands   *)
(* that change it, or if a deploy failed there.                              *)
CephAsAsked ==
    /\ \A o \in Range(Osds) \ hurt : ceph.class[o] = "none" =>
           play.todo # <<>> /\ Head(play.todo) = Cmd("set_device_class", o)
    /\ play.result = "ok" =>
           /\ ceph.fs
           /\ \A o \in Range(Osds) : ceph.class[o] = want.class
           /\ \A p \in Pools : Pool[p].rule \/ Pool[p].erasure =>
                  "created" \in ceph.pools[p] /\ (p \notin hurt => Asked(p) \subseteq ceph.pools[p])

(* "When the mon task is not selected, or the limit host has no mon node, here   *)
(* need to perform this task separately" (deploy.yml:32-33): the include does    *)
(* not end a deploy that has brought the monitors up and whose monitor has the   *)
(* keys.                                                                   *)
OnlyFetches ==
    [][AtTask("refetch") /\ Fetchable => play'.result # "failed"]_vars
=============================================================================
