-------------------------- MODULE ContainerOptions --------------------------
(***************************************************************************)
(* What kolla_docker asks docker for, what docker then reports of the        *)
(* container, and the comparison by which the module decides whether the     *)
(* container is still the one that was asked for.                           *)
(*                                                                         *)
(* Parameters p are a record with one field per option of the module; an     *)
(* info c is the part of docker's inspection that the comparisons read.      *)
(***************************************************************************)
EXTENDS Naturals, Sequences, FiniteSets

CONSTANTS
    Null,         \* Python's None
    Paths,        \* the words of a volume that contain a slash
    ImageLabels,  \* image id -> the labels that are part of the image
    Texts,        \* a value of a variable that is no string -> the string docker makes of it
    Amounts,      \* a limit that is written with a unit, as text -> the number docker makes of it
    Entrypoint,   \* the words the images put before every command
    DefaultCommand

Dimensions == {"mem_limit", "memswap_limit", "cpu_shares", "ulimits"}
Falsy == [d \in Dimensions |-> IF d = "ulimits" THEN {} ELSE 0]

Over(f, g) ==
    [k \in DOMAIN f \cup DOMAIN g |-> IF k \in DOMAIN f THEN f[k] ELSE g[k]]

(* The module's own parameters over docker_common_options.  The environments *)
(* are merged.  For the rest only None gives way to the common option, so a   *)
(* default of the module's argument list hides it.                          *)
Merged(common, task) ==
    LET keep == {k \in DOMAIN common \cap DOMAIN task : task[k] = Null}
    IN  [k \in DOMAIN common \cup DOMAIN task |->
            IF k = "environment" THEN
                IF k \in keep THEN common[k] ELSE Over(task[k], common[k])
            ELSE IF k \in keep \/ k \notin DOMAIN task THEN common[k] ELSE task[k]]

(* A volume is "name", "source:target" or "source:target:mode", as a          *)
(* sequence of words; a source and a target are told from a target and a      *)
(* mode by their slashes.                                                   *)
SplitVolume(v) ==
    IF Len(v) = 2 /\ (v[1] \notin Paths \/ v[2] \in Paths) THEN Append(v, "rw") ELSE v

VolumesReadable(p) == \A k \in DOMAIN p.volumes : Len(SplitVolume(p.volumes[k])) # 2

Mounts(p) == {IF Len(p.volumes[k]) = 1 THEN p.volumes[k][1] ELSE p.volumes[k][2] :
                k \in DOMAIN p.volumes}

(* The binds are kept by source: a second volume with the same source         *)
(* replaces the first.                                                      *)
Binds(p) ==
    {SplitVolume(p.volumes[k]) : k \in
        {j \in DOMAIN p.volumes : Len(p.volumes[j]) > 1
            /\ \A l \in DOMAIN p.volumes :
                 Len(p.volumes[l]) > 1 /\ p.volumes[l][1] = p.volumes[j][1] => l <= j}}

Empty == ""
NullAsEmpty(f) == [k \in DOMAIN f |-> IF f[k] = Null THEN Empty ELSE f[k]]

Text(v) == IF v = Null THEN Empty ELSE IF v \in DOMAIN Texts THEN Texts[v] ELSE v
Amount(v) == IF v \in DOMAIN Amounts THEN Amounts[v] ELSE v

(* The limits as docker reports them: memory that is limited without a word    *)
(* about swap gets as much swap again.                                      *)
Limits(p) ==
    LET asked == [d \in Dimensions |-> IF d \in DOMAIN p.dimensions
                                      THEN Amount(p.dimensions[d]) ELSE Falsy[d]]
    IN  IF asked["mem_limit"] # 0 /\ asked["memswap_limit"] = 0
        THEN [asked EXCEPT !["memswap_limit"] = 2 * asked["mem_limit"]]
        ELSE asked

Unconfined(p) == p.ipc_mode = "host" \/ p.pid_mode = "host" \/ p.privileged

HostConfig_Restarts(p) ==
    [binds |-> Binds(p), cap_add |-> p.cap_add,
     security_opt |-> IF Unconfined(p) THEN {} ELSE p.security_opt,
     ipc_mode |-> IF p.ipc_mode \in {Null, Empty} THEN "private" ELSE p.ipc_mode,
     pid_mode |-> IF p.pid_mode = Empty THEN Null ELSE p.pid_mode, privileged |-> p.privileged, volumes_from |-> p.volumes_from,
     dimensions |-> Limits(p), restart_policy |-> "unless-stopped"]
HostConfig(p) ==
    [binds |-> Binds(p), cap_add |-> p.cap_add,
     security_opt |-> IF Unconfined(p) THEN {} ELSE p.security_opt,
     ipc_mode |-> IF p.ipc_mode \in {Null, Empty} THEN "private" ELSE p.ipc_mode,
     pid_mode |-> IF p.pid_mode = Empty THEN Null ELSE p.pid_mode, privileged |-> p.privileged, volumes_from |-> p.volumes_from,
     dimensions |-> Limits(p), restart_policy |-> p.restart_policy]

Environment(p) ==
    LET asked == Over([KOLLA_SERVICE_NAME |-> p.name], p.environment)
    IN  [k \in DOMAIN asked |-> Text(asked[k])]

(* docker's inspection of a container just created from image id.             *)
Created(p, id) ==
    Over(HostConfig(p),
    [id |-> id, tag |-> p.image, mounts |-> Mounts(p),
     command |-> Entrypoint \o IF p.command = Null THEN DefaultCommand ELSE p.command,
     environment |-> Environment(p),
     labels |-> Over(NullAsEmpty(p.labels), ImageLabels[id])])

CompareCapAdd(p, c) == p.cap_add # c.cap_add
CompareSecurityOpt(p, c) == ~Unconfined(p) /\ p.security_opt # c.security_opt
CompareImage(p, c, id) == id = Null \/ id # c.id \/ p.image # c.tag
CompareIpcMode(p, c) == p.ipc_mode # Null /\ p.ipc_mode # c.ipc_mode
ComparePidMode(p, c) == p.pid_mode # c.pid_mode
ComparePrivileged(p, c) == p.privileged # c.privileged

(* A label of the image that is asked for with another value always differs; *)
(* one that is not asked for is left out of the comparison.                  *)
CompareLabels(p, c, id) ==
    LET image == ImageLabels[id]
        kept == DOMAIN c.labels \ (DOMAIN image \ DOMAIN p.labels)
    IN  \/ \E k \in DOMAIN image \cap DOMAIN p.labels : image[k] # p.labels[k]
        \/ p.labels # [k \in kept |-> c.labels[k]]

CompareVolumes(p, c) == Mounts(p) # c.mounts \/ Binds(p) # c.binds
CompareVolumesFrom(p, c) == p.volumes_from # c.volumes_from

CompareEnvironment_BothWays(p, c) == p.environment # c.environment
(* Only the variables that are asked for are looked at.                      *)
CompareEnvironment(p, c) ==
    \E k \in DOMAIN p.environment :
        k \notin DOMAIN c.environment \/ c.environment[k] # p.environment[k]

CompareDimensions_Asked(p, c) ==
    \E d \in DOMAIN p.dimensions : p.dimensions[d] # c.dimensions[d]
(* A limit is compared as it is written with the number docker reports; one    *)
(* that is not asked for has to be docker's default.                         *)
CompareDimensions(p, c) ==
    \E d \in Dimensions : IF d \in DOMAIN p.dimensions
                          THEN p.dimensions[d] # c.dimensions[d]
                          ELSE c.dimensions[d] # Falsy[d]

(* docker reports the command with the entrypoint before it.                  *)
CompareCommand(p, c) == p.command # Null /\ p.command # c.command

(* The comparison stops at the first difference, so a volume that cannot be  *)
(* read is met only if everything before it agrees.                         *)
DiffersBeforeVolumes(p, c, id) ==
    \/ CompareCapAdd(p, c) \/ CompareSecurityOpt(p, c) \/ CompareImage(p, c, id)
    \/ CompareIpcMode(p, c) \/ CompareLabels(p, c, id) \/ ComparePrivileged(p, c)
    \/ ComparePidMode(p, c)

ComparisonRaises(p, c, id) == ~DiffersBeforeVolumes(p, c, id) /\ ~VolumesReadable(p)

(* check_container_differs of a container in state "state", which is asked   *)
(* to be running.                                                          *)
Differs(p, c, id, state) ==
    \/ DiffersBeforeVolumes(p, c, id)
    \/ CompareVolumes(p, c) \/ CompareVolumesFrom(p, c) \/ CompareEnvironment(p, c)
    \/ state # "running" \/ CompareDimensions(p, c) \/ CompareCommand(p, c)
=============================================================================
