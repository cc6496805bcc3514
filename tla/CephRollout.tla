---------------------------- MODULE CephRollout ----------------------------
(***************************************************************************)
(* Upgrade and reconfigure of the ceph role: one host after the other, kind    *)
(* by kind, each container looked at, and restarted by its handler.           *)
(*                                                                         *)
(* A play is a list of tasks still to do; a task that fails ends it.  The      *)
(* images, config.json and ceph.conf are versions and merged files.  Between   *)
(* plays the operator changes whatever he gives per play: the image (the tag   *)
(* of manage.sh), the files and the two switches of his globals.yml.          *)
(***************************************************************************)
EXTENDS MergeConfigs

CONSTANTS
    Daemons,      \* the daemons, as a sequence of records id, kind, host, lvm
    Hosts,        \* the hosts, in the order of the inventory
    Template,     \* ceph.conf.j2 as rendered
    CustomFiles,  \* what the operator's ceph.conf may be: name -> file or Null
    HostFiles,    \* host -> the operator's ceph.conf for that host, or Null
    Wants,        \* what the operator may ask for: the image, the config.json, his
                  \* ceph.conf, enable_upgrade_health_check, ceph_conf_change_restart
    FirstWant,    \* what he asked for when he deployed
    MaxPlays,     \* bound of the model: plays started
    MaxEdits,     \* bound of the model: changes of what is wanted
    MaxFaults     \* bound of the model: tasks that fail and daemons that go down

Kinds == <<"ceph-mon", "ceph-mgr", "ceph-osd", "ceph-rgw", "ceph-mds">>

(* A host has one daemon of each kind, the osds excepted.                      *)
RolloutAssumption ==
    /\ Wants \subseteq [image : Nat, json : Nat, custom : DOMAIN CustomFiles,
                       healthCheck : BOOLEAN, confRestart : BOOLEAN]
    /\ FirstWant \in Wants
    /\ Hosts \in Seq(DOMAIN HostFiles)
    /\ \A h \in DOMAIN HostFiles : \E i \in DOMAIN Hosts : Hosts[i] = h
    /\ Daemons \in Seq([id : STRING, kind : Range(Kinds), host : DOMAIN HostFiles, lvm : BOOLEAN])
    /\ \A i, j \in DOMAIN Daemons :
          \/ Daemons[i].id = Daemons[j].id
          \/ /\ Daemons[i].host = Daemons[j].host
             /\ Daemons[i].kind = Daemons[j].kind /\ Daemons[i].kind # "ceph-osd"
          => i = j
    /\ MaxPlays \in Nat /\ MaxEdits \in Nat /\ MaxFaults \in Nat
ASSUME RolloutAssumption

(* A file that is there consists of headers and assignments.                  *)
FilesAssumption ==
    \A f \in {Template} \cup Range(CustomFiles) \cup Range(HostFiles) : f = Null \/ IsFile(f)
ASSUME FilesAssumption

VARIABLES
    want,         \* what the operator asks for
    file,         \* host -> kind -> the json and conf written there; a conf is the name
                  \* of the operator's file it was merged from
    daemon,       \* id -> state, and the image, json and conf it was started with
    noout,        \* the flags noout and norebalance of the cluster
    play,         \* the play: its action, tasks, registered facts and result; and, as
                  \* history, what was wanted, which daemons were seen down or different,
                  \* which had other files than their host when it began, and whether
                  \* any play has failed yet
    recovered,    \* history: the cluster was healthy since the play last took a daemon down
    plays, edits, faults

counts == <<plays, edits, faults>>
vars == <<want, file, daemon, noout, play, recovered, counts>>

Ids == {Daemons[i].id : i \in DOMAIN Daemons}
Of(id) == CHOOSE d \in {Daemons[i] : i \in DOMAIN Daemons} : d.id = id
KindsPresent == {Daemons[i].kind : i \in DOMAIN Daemons}
States == {"absent", "exited", "starting", "running"}

Customs == DOMAIN CustomFiles
Sources(custom, h) == <<Template, CustomFiles[custom], HostFiles[h]>>
Confs == [custom \in Customs |-> [h \in DOMAIN HostFiles |-> Merge(Sources(custom, h))]]
SameConf(a, b, h) == a = b \/ Confs[a][h] = Confs[b][h]

Nobody == [action |-> "none", todo |-> <<>>, kinds |-> {}, result |-> "none", json |-> FALSE,
           conf |-> FALSE, cont |-> FALSE, running |-> "no",
           down |-> {}, differed |-> {}, stale |-> {}, want |-> <<>>, everFailed |-> FALSE]

Init ==
    /\ want = FirstWant
    /\ file = [h \in DOMAIN HostFiles |-> [k \in KindsPresent |->
                    [json |-> want.json, conf |-> want.custom]]]
    /\ daemon = [id \in Ids |-> [state |-> "running", image |-> want.image,
                                 json |-> want.json, conf |-> want.custom]]
    /\ noout = FALSE
    /\ play = Nobody
    /\ recovered = TRUE
    /\ plays = 0 /\ edits = 0 /\ faults = 0

-----------------------------------------------------------------------------
(* The tasks of a play.                                                      *)

DaemonsOf(h, k) ==
    FlattenSeq([i \in DOMAIN Daemons |->
        IF Daemons[i].host = h /\ Daemons[i].kind = k THEN <<Daemons[i]>> ELSE <<>>])
Tasks(names, d) == [i \in DOMAIN names |-> [task |-> names[i], on |-> d.id]]

OsdTasks_NoCheck(d) ==
    Tasks(<<"look", "probe", "unset", "set", "flush", "unset">>, d)
OsdTasks(d) ==
    Tasks(IF d.lvm
          THEN <<"health", "look", "probe", "unset", "health", "set", "flush", "unset">>
          ELSE <<"health", "look", "probe", "unset", "set", "flush", "unset">>, d)

(* The tasks of start.yml for the daemons ds of one kind on one host.          *)
KindTasks(ds) ==
    IF ds = <<>> THEN <<>>
    ELSE Tasks(<<"json", "conf">>, ds[1])
         \o CASE ds[1].kind = "ceph-osd" -> FlattenSeq([i \in DOMAIN ds |-> OsdTasks(ds[i])])
              [] ds[1].kind = "ceph-mds" -> Tasks(<<"look", "flush">>, ds[1])
              [] OTHER -> Tasks(<<"look", "health", "flush">>, ds[1])

HostTasks(h, kinds) ==
    FlattenSeq([i \in DOMAIN Kinds |->
        IF Kinds[i] \in kinds THEN KindTasks(DaemonsOf(h, Kinds[i])) ELSE <<>>])

PlayTasks == [kinds \in SUBSET KindsPresent |->
                FlattenSeq([i \in DOMAIN Hosts |-> HostTasks(Hosts[i], kinds)])]

(* An upgrade of the monitors takes no other daemon along.                     *)
Allowed(action, kinds) == action = "upgrade" /\ "ceph-mon" \in kinds => kinds = {"ceph-mon"}

(* Its container was started with other files than its host has now.           *)
Stale(id) == LET w == file[Of(id).host][Of(id).kind] IN
    daemon[id].json # w.json \/ ~SameConf(daemon[id].conf, w.conf, Of(id).host)

StartPlay(action, kinds) ==
    /\ play.todo = <<>>
    /\ plays < MaxPlays
    /\ plays' = plays + 1
    /\ Allowed(action, kinds)
    /\ play' = [Nobody EXCEPT !.action = action, !.kinds = kinds, !.result = "running",
                              !.want = want, !.stale = {id \in Ids : Stale(id)},
                              !.everFailed = play.everFailed, !.todo = PlayTasks[kinds]]
    /\ UNCHANGED <<want, file, daemon, noout, recovered, edits, faults>>

At(task) == play.todo # <<>> /\ Head(play.todo).task = task
Here == Of(Head(play.todo).on)
Me == daemon[Here.id]
Written == file[Here.host][Here.kind]

Ended(p) == IF p.todo = <<>> THEN [p EXCEPT !.result = "ok"] ELSE p
Register(p) == play' = Ended([p EXCEPT !.todo = Tail(@)])
Fail_GoesOn == play' = [play EXCEPT !.result = "failed", !.everFailed = TRUE]
Fail == play' = [play EXCEPT !.todo = <<>>, !.result = "failed", !.everFailed = TRUE]

WriteJson ==
    /\ At("json")
    /\ file' = [file EXCEPT ![Here.host][Here.kind].json = want.json]
    /\ Register([play EXCEPT !.json = Written.json # want.json])
    /\ UNCHANGED <<want, daemon, noout, recovered, counts>>

WriteConf ==
    /\ At("conf")
    /\ file' = [file EXCEPT ![Here.host][Here.kind].conf = want.custom]
    /\ Register([play EXCEPT !.conf = ~SameConf(Written.conf, want.custom, Here.host)])
    /\ UNCHANGED <<want, daemon, noout, recovered, counts>>

(* compare_container asks for a running container.                            *)
Up(id) == daemon[id].state \in {"starting", "running"}
Differs(id) == ~Up(id) \/ daemon[id].image # want.image

Look ==
    /\ At("look")
    /\ Register([play EXCEPT !.cont = Differs(Here.id),
                             !.differed = IF Differs(Here.id) THEN @ \cup {Here.id} ELSE @])
    /\ UNCHANGED <<want, file, daemon, noout, recovered, counts>>

(* is_container_running says nothing of a container that is not there.         *)
Probe ==
    /\ At("probe")
    /\ Register([play EXCEPT !.running = IF Me.state = "absent" THEN "undefined"
                                         ELSE IF Up(Here.id) THEN "yes" ELSE "no",
                             !.down = IF Up(Here.id) THEN @ ELSE @ \cup {Here.id}])
    /\ UNCHANGED <<want, file, daemon, noout, recovered, counts>>

Healthy == ~noout /\ \A id \in Ids : daemon[id].state = "running"

(* The question is repeated a limited number of times.                        *)
CheckHealth ==
    /\ At("health")
    /\ IF ~want.healthCheck \/ Healthy THEN Register(play) ELSE Fail
    /\ UNCHANGED <<want, file, daemon, noout, recovered, counts>>

FlagsWhen == play.running = "yes" /\ (play.json \/ play.conf \/ play.cont)

SetFlags ==
    /\ At("unset") \/ At("set")
    /\ IF play.running = "undefined" THEN Fail ELSE Register(play)
    /\ noout' = (IF FlagsWhen THEN At("set") ELSE noout)
    /\ UNCHANGED <<want, file, daemon, counts>>
    /\ recovered' = (recovered \/ Healthy')

RestartWhen_Reconfigure ==
    /\ ~play.cont
    /\ play.json \/ (play.conf /\ want.confRestart) \/ play.cont
    /\ Here.kind = "ceph-osd" => play.running = "yes"

(* The conditions of the handler.                                            *)
RestartWhen ==
    /\ ~(play.action = "reconfigure" /\ play.cont)
    /\ play.json \/ (play.conf /\ want.confRestart) \/ play.cont
    /\ Here.kind = "ceph-osd" => play.running = "yes"

SkipHandler ==
    /\ At("flush") /\ ~RestartWhen
    /\ Register(play)
    /\ UNCHANGED <<want, file, daemon, noout, recovered, counts>>

(* recreate_or_restart_container: what differs is removed, the rest stopped.   *)
TakeDown ==
    /\ At("flush") /\ RestartWhen
    /\ daemon' = [daemon EXCEPT ![Here.id].state =
                    IF Differs(Here.id) THEN "absent" ELSE "exited"]
    /\ play' = [play EXCEPT !.todo = Tasks(<<"bring_up">>, Here) \o Tail(@)]
    /\ recovered' = FALSE
    /\ UNCHANGED <<want, file, noout, counts>>

Started(id, image) ==
    [state |-> "starting", image |-> image, json |-> file[Of(id).host][Of(id).kind].json,
     conf |-> file[Of(id).host][Of(id).kind].conf]

BringUp ==
    /\ At("bring_up")
    /\ daemon' = [daemon EXCEPT ![Here.id] =
                    Started(Here.id, IF @.state = "absent" THEN want.image ELSE @.image)]
    /\ Register(play)
    /\ UNCHANGED <<want, file, noout, recovered, counts>>

Fault == faults < MaxFaults /\ faults' = faults + 1

TaskFails ==
    /\ play.todo # <<>>
    /\ Fault
    /\ Fail
    /\ UNCHANGED <<want, file, daemon, noout, recovered, plays, edits>>

-----------------------------------------------------------------------------
(* The cluster and the operator.                                             *)

Join(id) ==
    /\ daemon[id].state = "starting"
    /\ daemon' = [daemon EXCEPT ![id].state = "running"]
    /\ UNCHANGED <<want, file, noout, play, counts>>
    /\ recovered' = (recovered \/ Healthy')

(* A daemon dies and docker starts it again, or it was stopped by hand.        *)
GoesDown(id) ==
    /\ Up(id)
    /\ Fault
    /\ \E after \in {Started(id, daemon[id].image), [daemon[id] EXCEPT !.state = "exited"]} :
           daemon' = [daemon EXCEPT ![id] = after]
    /\ UNCHANGED <<want, file, noout, play, recovered, plays, edits>>

Edit ==
    /\ play.todo = <<>>
    /\ edits < MaxEdits
    /\ edits' = edits + 1
    /\ want' \in Wants \ {want}
    /\ UNCHANGED <<file, daemon, noout, play, recovered, plays, faults>>

PlayStep == \/ WriteJson \/ WriteConf \/ Look \/ Probe \/ CheckHealth \/ SetFlags
            \/ SkipHandler \/ TakeDown \/ BringUp

Next ==
    \/ \E action \in {"upgrade", "reconfigure"}, kinds \in (SUBSET KindsPresent) \ {{}} :
           StartPlay(action, kinds)
    \/ PlayStep \/ TaskFails
    \/ \E id \in Ids : Join(id) \/ GoesDown(id)
    \/ Edit

Spec == Init /\ [][Next]_vars
-----------------------------------------------------------------------------
Targets == {id \in Ids : Of(id).kind \in play.kinds}

(* The types of the variables; a container is absent or exited between the     *)
(* two halves of its restart.                                               *)
TypeOK ==
    /\ want \in Wants
    /\ \A id \in Ids : /\ daemon[id].state \in States
                       /\ daemon[id].image \in {w.image : w \in Wants}
                       /\ daemon[id].json \in {w.json : w \in Wants}
                       /\ daemon[id].conf \in {w.custom : w \in Wants}
    /\ noout \in BOOLEAN /\ recovered \in BOOLEAN
    /\ play.action \in {"none", "upgrade", "reconfigure"}
    /\ play.result = "running" <=> play.todo # <<>>
    /\ At("bring_up") => ~Up(Here.id)
    /\ plays \in 0 .. MaxPlays /\ edits \in 0 .. MaxEdits /\ faults \in 0 .. MaxFaults

(* With the health check enabled, a play takes a daemon down only if the       *)
(* cluster was healthy since it took the one before down, the mds excepted,    *)
(* whose part of upgrade.yml has no check; and an osd that runs is taken down  *)
(* under noout and norebalance only (start_upgrade_*_osd.yml).                *)
RestartsAreSafe ==
    [][\A id \in Ids : play.todo # <<>> /\ play' # play /\ Up(id) /\ daemon'[id].state \in {"absent", "exited"} =>
           /\ want.healthCheck /\ Of(id).kind # "ceph-mds" => recovered
           /\ Of(id).kind = "ceph-osd" => noout]_vars

(* What a play that ends well has achieved.  An upgrade: the wanted image on    *)
(* every daemon but the osds that did not run when they were looked at.  A      *)
(* reconfigure: the wanted files in every daemon whose container ran with the    *)
(* wanted image and, when the play began, with the files its host had then;      *)
(* the ceph.conf only under ceph_conf_change_restart.  A daemon that was behind  *)
(* its host, because an earlier play failed, or wrote the files and skipped the  *)
(* handler, is not caught up.  The flags are left set only if a play failed.     *)
RolloutTakesEffect ==
    play.result = "ok" =>
        /\ play.action = "upgrade" =>
               \A id \in Targets \ play.down : daemon[id].image = play.want.image
        /\ play.action = "reconfigure" =>
               \A id \in Targets \ (play.differed \cup play.down \cup play.stale) :
                   /\ daemon[id].json = play.want.json
                   /\ play.want.confRestart =>
                          SameConf(daemon[id].conf, play.want.custom, Of(id).host)
        /\ ~play.everFailed => ~noout

(* Documentation: reconfigure updates the configuration file and restarts the  *)
(* containers.                                                              *)
ReconfigureTakesEffect ==
    play.result = "ok" /\ play.action = "reconfigure" /\ play.want.confRestart =>
        \A id \in Targets \ (play.differed \cup play.down) :
            SameConf(daemon[id].conf, play.want.custom, Of(id).host)

(* What daemons read means what the operator wrote: of files that begin with a  *)
(* section, for every key the last of the template, his ceph.conf and that of   *)
(* the host decides, with all the values it gives (merge_configs).  Asked once  *)
(* for each file, before the first play.                                      *)
MergeMeans ==
    plays = 0 => \A h \in DOMAIN HostFiles :
        (\A i \in 1 .. 3 : BeginsWithHeader(Sources(want.custom, h)[i]))
            => LastWins(Sources(want.custom, h), Confs[want.custom][h])
=============================================================================
