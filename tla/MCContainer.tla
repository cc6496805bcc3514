---------------------------- MODULE MCContainer ----------------------------
(***************************************************************************)
(* A host with a mandatory file, an optional one and a directory that is      *)
(* merged, and seven ways to ask for a container.                           *)
(***************************************************************************)
EXTENDS Container, TLC

CONSTANTS Gigabyte, Number  \* the limit "1g" and the number 5, as they are written

MCPaths == {"/etc", "/config", "/dev"}
MCImageLabels == [i \in 1 .. 2 |-> ("maintainer" :> "kolla")]
MCFirstImages == ("ceph" :> 1) @@ ("ceph:v2" :> 1)
MCListed == ("ceph" :> {"ceph", "ceph:v2"}) @@ ("ceph:v2" :> {"ceph:v2"})
MCTexts == (Number :> "5")
MCAmounts == (Gigabyte :> 4)
MCEntrypoint == <<"dumb-init">>
MCDefaultCommand == <<"kolla_start">>

(* A mon as the role asks for it: docker_common_options and the task.         *)
Common == [environment |-> ("KOLLA_CONFIG_STRATEGY" :> "COPY_ALWAYS"),
           restart_policy |-> "unless-stopped"]
Mon == Merged(Common,
       [name |-> "ceph_mon", image |-> "ceph", command |-> Null, environment |-> Null,
        volumes |-> << <<"/config", "/etc", "ro">>, <<"ceph_mon", "/dev">> >>,
        labels |-> <<>>, cap_add |-> {}, security_opt |-> {}, ipc_mode |-> Null,
        pid_mode |-> Null, privileged |-> FALSE, volumes_from |-> {}, dimensions |-> <<>>,
        restart_policy |-> Null, detach |-> TRUE, remove_on_exit |-> TRUE])
Once == [Mon EXCEPT !.environment =
            "KOLLA_CONFIG_STRATEGY" :> "COPY_ONCE" @@ "HOSTNAME" :> "a"]
(* An osd: privileged, other volumes, two of them with one source.           *)
Osd == [Mon EXCEPT !.image = "ceph:v2", !.privileged = TRUE, !.pid_mode = "host", !.security_opt = {"profile"},
            !.cap_add = {"SYS"}, !.labels = ("k" :> "v"),
            !.volumes = << <<"/dev", "/dev">>, <<"/config", "/dev", "ro">>, <<"/config", "/etc", "ro">> >>]
(* Limits as numbers; and a command, limits and a variable docker rewrites.   *)
Limited == [Mon EXCEPT !.dimensions =
                ("mem_limit" :> 4) @@ ("memswap_limit" :> 8) @@ ("ulimits" :> {"nofile"})]
Rewritten == [Limited EXCEPT !.command = <<"other">>,
                  !.dimensions = ("mem_limit" :> Gigabyte) @@ ("ulimits" :> {"nofile"}),
                  !.environment = @ @@ ("N" :> Number)]
(* The bootstrap container of a mon.                                        *)
Boot == Merged(Common,
        [Mon EXCEPT !.detach = FALSE, !.restart_policy = "no", !.labels = ("BOOTSTRAP" :> Null),
            !.environment = ("KOLLA_BOOTSTRAP" :> Null)])
(* A volume without a source.                                               *)
Misread == [Mon EXCEPT !.volumes = << <<"/config", "ro">> >>]

MCAsked == {Mon, Once, Osd, Limited, Rewritten, Boot, Misread}

MCEntries == << [optional |-> FALSE, merge |-> FALSE], [optional |-> TRUE, merge |-> TRUE] >>
MCFirstShapes == {{Self}, {"x"}}
MCShapes == << {{Self}, Absent}, {{"x"}, {"y"}, Absent} >>
=============================================================================
