------------------------------ MODULE Container ------------------------------
(***************************************************************************)
(* One container of one host: the calls of the kolla_docker module that make  *)
(* it, docker, which restarts it when it dies, and start.sh with              *)
(* kolla_set_configs inside it.                                             *)
(*                                                                         *)
(* A call is a list of steps still to do; each step is one request to docker  *)
(* and may fail.  Between two steps the container goes on by itself, and the  *)
(* files of the host may be rewritten.                                      *)
(***************************************************************************)
EXTENDS ContainerOptions, SetConfigs

CONSTANTS
    Asked,        \* the parameters calls are made with
    Entries,      \* config_files of config.json, in order
    Shapes,       \* index of an entry -> what may be at its source: Absent or a set of names
    FirstShapes,  \* what is at the sources in the beginning
    FirstImages,  \* tag -> the image in the registry at the beginning
    Listed,       \* a tag as it is written -> the tags docker lists for it: with a
                  \* name that carries no tag, all those of the name
    LastImage,    \* bound of the model: images 1 .. LastImage are ever built
    MaxCalls,     \* bound of the model: calls made
    MaxEdits,     \* bound of the model: files rewritten and images pushed
    MaxFaults     \* bound of the model: crashes of the container and failed requests

Tags == DOMAIN FirstImages
Images == 1 .. LastImage

(* What may be at a source: its names, with the version of each.             *)
Names == UNION UNION {Shapes[k] \ {Absent} : k \in DOMAIN Entries}

Strategies == {"COPY_ALWAYS", "COPY_ONCE"}

(* The values have their types, and None and "nothing there" are told from     *)
(* the rest; the role gives every container a strategy, and the module itself  *)
(* sets KOLLA_SERVICE_NAME.                                                  *)
ContainerAssumption ==
    /\ Tags = {p.image : p \in Asked} /\ Tags # {}
    /\ FirstImages \in [Tags -> Images]
    /\ Listed \in [Tags -> SUBSET Tags]
    /\ Entries \in Seq([optional : BOOLEAN, merge : BOOLEAN])
    /\ \A S \in SUBSET Names : Absent \notin [S -> Nat]
    /\ Null \notin STRING \cup {Empty} \cup Strategies \cup Images
    /\ \A p \in Asked : \A i \in Images : Created(p, i) # Null
    /\ \A i \in Images : ImageLabels[i] \in [DOMAIN ImageLabels[i] -> STRING]
    /\ \A p \in Asked :
           /\ DOMAIN p.dimensions \subseteq Dimensions
           /\ \A d \in DOMAIN p.dimensions :
                  /\ d = "mem_limit" => Amount(p.dimensions[d]) \in Nat
                  /\ Amount(p.dimensions[d]) \notin DOMAIN Amounts
           /\ p.labels \in [DOMAIN p.labels -> STRING \cup {Null}]
           /\ DOMAIN p.environment \subseteq STRING \ {"KOLLA_SERVICE_NAME"}
           /\ "KOLLA_CONFIG_STRATEGY" \in DOMAIN p.environment
           /\ p.environment["KOLLA_CONFIG_STRATEGY"] \in Strategies
    /\ DOMAIN Texts \cap (STRING \cup Strategies) = {} /\ \A v \in DOMAIN Texts : Texts[v] \in STRING
    /\ Empty \in STRING
    /\ DOMAIN Amounts \cap Nat = {} /\ Falsy["ulimits"] \notin DOMAIN Amounts
    /\ LastImage \in Nat /\ MaxCalls \in Nat /\ MaxEdits \in Nat /\ MaxFaults \in Nat
ASSUME ContainerAssumption

VARIABLES
    registry,  \* tag -> image
    local,     \* tag -> image docker has, or Null
    volumes,   \* the named volumes docker has
    info,      \* docker's record of the container, or Null: there is none
    state,     \* created, running, restarting or exited
    rc,        \* the exit code of the last run
    files,     \* index of an entry -> what is at its destination in the container
    command,   \* /run_command: the version of config.json it comes from; 0: no such file
    configured,\* /configured exists
    step,      \* how far start.sh is
    loaded,    \* the version of config.json kolla_set_configs has read
    host,      \* index of an entry -> what is at its source on the host
    json,      \* the version of config.json on the host
    call,      \* the call of kolla_docker
    calls, edits, faults

dockerVars == <<registry, local, volumes>>
insideVars == <<files, command, configured>>
scriptVars == <<step, loaded>>
contVars == <<info, state, rc, insideVars, scriptVars>>
hostVars == <<host, json, edits>>
countVars == <<calls, faults>>
vars == <<dockerVars, contVars, hostVars, call, countVars>>

(* start.sh: entry k is copied at step k.                                    *)
WriteCommand == Len(Entries) + 1
Mark == Len(Entries) + 2
Exec == Len(Entries) + 3
Serving == Len(Entries) + 4

Contents(shape, version) ==
    IF shape = Absent THEN Absent ELSE [name \in shape |-> version]

NoCall == [action |-> "none", p |-> CHOOSE p \in Asked : TRUE, todo |-> <<>>, seen |-> "",
           changed |-> FALSE, result |-> "none", before |-> <<>>, host |-> <<>>]

Init ==
    /\ registry = FirstImages
    /\ local = [t \in Tags |-> Null]
    /\ volumes = {}
    /\ info = Null /\ state = "created" /\ rc = 0
    /\ files = [k \in DOMAIN Entries |-> Absent]
    /\ command = 0 /\ configured = FALSE
    /\ step = 0 /\ loaded = 0
    /\ host \in [DOMAIN Entries -> {Contents(s, 1) : s \in FirstShapes}]
    /\ \A k \in DOMAIN Entries : \E s \in Shapes[k] : host[k] = Contents(s, 1)
    /\ json = 1 /\ edits = 0
    /\ call = NoCall
    /\ calls = 0 /\ faults = 0

-----------------------------------------------------------------------------
(* The calls.                                                               *)

Exists == info # Null
Image == local[call.p.image]

(* get_image_id: the image docker lists for the name, if that is one.          *)
ImageId(have, t) ==
    LET ids == {have[u] : u \in Listed[t]} \ {Null}
    IN  IF \E i \in ids : ids = {i} THEN CHOOSE i \in ids : TRUE ELSE Null

Strategy(c) == c.environment["KOLLA_CONFIG_STRATEGY"]
NamedVolumes(p) == {v[1] : v \in Binds(p)} \ Paths
VolumeNames == UNION {NamedVolumes(p) : p \in Asked}

StartContainer == <<"image", "compare", "create", "up", "wait">>
Program(action) ==
    CASE action = "start_container" -> StartContainer
      [] action = "recreate_or_restart_container" -> <<"recreate">>
      [] action = "restart_container" -> <<"halt", "relaunch">>
      [] action = "stop_container" -> <<"stop">>
      [] action = "remove_container" -> <<"remove">>
      [] action = "stop_and_remove_container" -> <<"stop_and_remove">>
      [] action = "pull_image" -> <<"pull">>
      [] OTHER -> <<action>>
Simple == {"compare_container", "compare_image", "is_container_running", "get_container_state",
           "get_container_env", "create_volume", "remove_volume", "remove_image"}
Actions == {"start_container", "recreate_or_restart_container", "restart_container",
            "stop_container", "remove_container", "stop_and_remove_container", "pull_image"}
           \cup Simple

(* The parameters an action looks at: all of them, or no more than the image. *)
ParamsOf(action) ==
    IF action \in {"start_container", "recreate_or_restart_container", "compare_container"}
    THEN Asked ELSE {CHOOSE p \in Asked : p.image = t : t \in Tags}

(* What docker has for its callers, as opposed to what it does by itself.     *)
Holdings == [tags |-> local, volumes |-> volumes, info |-> info]

Call(action, p) ==
    /\ call.todo = <<>>
    /\ calls < MaxCalls
    /\ calls' = calls + 1
    /\ call' = [NoCall EXCEPT !.action = action, !.p = p, !.todo = Program(action),
                              !.result = "running", !.before = Holdings, !.host = <<host, json>>]
    /\ UNCHANGED <<dockerVars, contVars, hostVars, faults>>

At(s) == call.todo # <<>> /\ Head(call.todo) = s

Go(changed, todo) ==
    call' = [call EXCEPT !.changed = changed, !.todo = todo,
                         !.result = IF todo = <<>> THEN "ok" ELSE "running"]
Proceed(changed) == Go(changed, Tail(call.todo))
Raise_GoesOn == call' = [call EXCEPT !.result = "failed"]
Raise == call' = [call EXCEPT !.todo = <<>>, !.result = "failed"]

FreshContainer ==
    /\ files' = [k \in DOMAIN Entries |-> Absent]
    /\ command' = 0 /\ configured' = FALSE
    /\ step' = 0 /\ loaded' = 0 /\ rc' = 0 /\ state' = "created"

Launched == state' = "running" /\ step' = 0
Halted == state' = (IF state = "created" THEN "created" ELSE "exited") /\ step' = 0

(* pull_image: changed is overwritten, not added to.                         *)
Pull ==
    /\ \/ At("pull")
       \/ At("image") /\ Image = Null
    /\ local' = [local EXCEPT ![call.p.image] = registry[call.p.image]]
    /\ Proceed(ImageId(local, call.p.image) # ImageId(local', call.p.image))
    /\ UNCHANGED <<registry, volumes, contVars, hostVars, countVars>>

HasImage ==
    /\ At("image") /\ Image # Null
    /\ Proceed(call.changed)
    /\ UNCHANGED <<dockerVars, contVars, hostVars, countVars>>

Recreate_Compares ==
    /\ At("recreate")
    /\ IF ~Exists THEN Go(TRUE, StartContainer)
       ELSE IF ComparisonRaises(call.p, info, Image) THEN Raise
       ELSE IF Differs(call.p, info, Image, state)
       THEN Go(TRUE, <<"stop", "remove">> \o StartContainer)
       ELSE IF Strategy(call.p) = "COPY_ALWAYS" THEN Go(TRUE, <<"halt", "relaunch">>)
       ELSE Go(TRUE, <<>>)
    /\ UNCHANGED <<dockerVars, contVars, hostVars, countVars>>

(* The start of recreate_or_restart_container.                               *)
Recreate ==
    /\ At("recreate")
    /\ IF ~Exists THEN Go(TRUE, StartContainer)
       ELSE IF Strategy(call.p) # "COPY_ONCE" /\ ComparisonRaises(call.p, info, Image) THEN Raise
       ELSE IF Strategy(call.p) = "COPY_ONCE" \/ Differs(call.p, info, Image, state)
       THEN Go(TRUE, <<"stop", "remove">> \o StartContainer)
       ELSE IF Strategy(call.p) = "COPY_ALWAYS" THEN Go(TRUE, <<"halt", "relaunch">>)
       ELSE Go(TRUE, <<>>)
    /\ UNCHANGED <<dockerVars, contVars, hostVars, countVars>>

(* start_container looks at the container once; "seen" is what it saw.        *)
Compare ==
    /\ At("compare")
    /\ IF Exists /\ ComparisonRaises(call.p, info, Image) THEN Raise
       ELSE call' = [call EXCEPT
                !.seen = state,
                !.todo = IF Exists /\ Differs(call.p, info, Image, state)
                         THEN <<"stop", "remove">> \o Tail(@) ELSE Tail(@)]
    /\ UNCHANGED <<dockerVars, contVars, hostVars, countVars>>

Create ==
    /\ At("create")
    /\ IF Exists THEN Proceed(call.changed) /\ UNCHANGED <<volumes, contVars>>
       ELSE IF ~VolumesReadable(call.p) \/ Image = Null
       THEN Raise /\ UNCHANGED <<volumes, contVars>>
       ELSE /\ call' = [call EXCEPT !.changed = TRUE, !.seen = "created", !.todo = Tail(@)]
            /\ info' = Created(call.p, Image)
            /\ volumes' = volumes \cup NamedVolumes(call.p)
            /\ FreshContainer
    /\ UNCHANGED <<registry, local, hostVars, countVars>>

(* docker takes a container that it is about to restart for a running one.    *)
Up ==
    /\ At("up")
    /\ Proceed(call.changed \/ call.seen # "running")
    /\ IF call.seen # "running" /\ state \in {"created", "exited"}
       THEN Launched ELSE UNCHANGED <<state, step>>
    /\ UNCHANGED <<dockerVars, info, rc, insideVars, loaded, hostVars, countVars>>

Wait ==
    /\ At("wait")
    /\ IF call.p.detach THEN Proceed(call.changed)
       ELSE /\ state # "running"
            /\ IF call.p.remove_on_exit
               THEN call' = [call EXCEPT !.seen = IF rc = 0 THEN "done" ELSE "error",
                                         !.todo = <<"stop", "remove", "verdict">>]
               ELSE IF rc = 0 THEN Proceed(call.changed) ELSE Raise
    /\ UNCHANGED <<dockerVars, contVars, hostVars, countVars>>

Verdict ==
    /\ At("verdict")
    /\ IF call.seen = "done" THEN Proceed(call.changed) ELSE Raise
    /\ UNCHANGED <<dockerVars, contVars, hostVars, countVars>>

Stop ==
    /\ At("stop")
    /\ IF ~Exists THEN Raise /\ UNCHANGED <<state, step>>
       ELSE IF state = "exited" THEN Proceed(call.changed) /\ UNCHANGED <<state, step>>
       ELSE Proceed(TRUE) /\ Halted
    /\ UNCHANGED <<dockerVars, info, rc, insideVars, loaded, hostVars, countVars>>

Remove_Quiet ==
    /\ At("remove")
    /\ Proceed(call.changed)
    /\ IF Exists THEN info' = Null /\ FreshContainer ELSE UNCHANGED contVars
    /\ UNCHANGED <<dockerVars, hostVars, countVars>>

Remove ==
    /\ At("remove")
    /\ IF Exists THEN /\ Proceed(TRUE)
                      /\ info' = Null
                      /\ FreshContainer
       ELSE Proceed(call.changed) /\ UNCHANGED contVars
    /\ UNCHANGED <<dockerVars, hostVars, countVars>>

StopAndRemove ==
    /\ At("stop_and_remove")
    /\ Go(call.changed, IF Exists THEN <<"stop", "remove">> ELSE <<>>)
    /\ UNCHANGED <<dockerVars, contVars, hostVars, countVars>>

(* restart_container: halt and relaunch are two requests.                     *)
Halt ==
    /\ At("halt")
    /\ IF Exists THEN Proceed(TRUE) /\ Halted ELSE Raise /\ UNCHANGED <<state, step>>
    /\ UNCHANGED <<dockerVars, info, rc, insideVars, loaded, hostVars, countVars>>

Relaunch ==
    /\ At("relaunch")
    /\ Proceed(call.changed)
    /\ Launched
    /\ UNCHANGED <<dockerVars, info, rc, insideVars, loaded, hostVars, countVars>>

(* The actions that only look.                                              *)
Query ==
    /\ \/ /\ At("compare_container")
          /\ IF Exists /\ ComparisonRaises(call.p, info, Image) THEN Raise
             ELSE Proceed(~Exists \/ Differs(call.p, info, Image, state))
       \/ At("compare_image") /\ Proceed(FALSE)
       \/ At("is_container_running") /\ Proceed(~Exists \/ state \notin {"running", "restarting"})
       \/ /\ At("get_container_state") \/ At("get_container_env")
          /\ IF Exists THEN Proceed(FALSE) ELSE Raise
    /\ UNCHANGED <<dockerVars, contVars, hostVars, countVars>>

(* create_volume, remove_volume and remove_image; docker refuses to remove     *)
(* what the container uses.                                                 *)
Keep ==
    /\ \/ /\ At("create_volume")
          /\ \E v \in VolumeNames :
                Proceed(v \notin volumes) /\ volumes' = volumes \cup {v}
          /\ UNCHANGED local
       \/ /\ At("remove_volume")
          /\ \E v \in VolumeNames :
                IF v \in volumes /\ Exists /\ \E b \in info.binds : b[1] = v
                THEN Raise /\ UNCHANGED volumes
                ELSE Proceed(v \in volumes) /\ volumes' = volumes \ {v}
          /\ UNCHANGED local
       \/ /\ At("remove_image")
          /\ IF Image # Null /\ Exists /\ info.id = Image
             THEN Raise /\ UNCHANGED local
             ELSE Proceed(Image # Null) /\ local' = [local EXCEPT ![call.p.image] = Null]
          /\ UNCHANGED volumes
    /\ UNCHANGED <<registry, contVars, hostVars, countVars>>

(* docker answers a request with an error, or the module is killed.           *)
RequestFails ==
    /\ call.todo # <<>>
    /\ faults < MaxFaults
    /\ faults' = faults + 1
    /\ Raise
    /\ UNCHANGED <<dockerVars, contVars, hostVars, calls>>

-----------------------------------------------------------------------------
(* Inside the container.                                                     *)

Starting == Exists /\ state = "running" /\ step # Serving

Exit(code) ==
    /\ rc' = code
    /\ step' = 0
    /\ state' = IF info.restart_policy = "no" THEN "exited" ELSE "restarting"

Load_Again ==
    /\ Starting /\ step = 0
    /\ loaded' = json
    /\ step' = 1
    /\ UNCHANGED <<dockerVars, info, state, rc, insideVars, hostVars, call, countVars>>

(* load_config and the choice of execute_config_strategy.                     *)
Load ==
    /\ Starting /\ step = 0
    /\ loaded' = json
    /\ step' = IF Strategy(info) = "COPY_ONCE" /\ configured THEN Exec ELSE 1
    /\ UNCHANGED <<dockerVars, info, state, rc, insideVars, hostVars, call, countVars>>

CopyEntry ==
    /\ Starting /\ step \in DOMAIN Entries
    /\ LET entry == Entries[step]
       IN  IF MissingSource(entry, host[step]) THEN Exit(1) /\ UNCHANGED files
           ELSE /\ files' = [files EXCEPT ![step] =
                    IF Skipped(entry, host[step]) THEN @
                    ELSE Copied(host[step], Cleared(entry, host[step], @))]
                /\ step' = step + 1
                /\ UNCHANGED <<state, rc>>
    /\ UNCHANGED <<dockerVars, info, command, configured, loaded, hostVars, call, countVars>>

WriteRunCommand ==
    /\ Starting /\ step = WriteCommand
    /\ command' = loaded
    /\ step' = IF Strategy(info) = "COPY_ONCE" THEN Mark ELSE Exec
    /\ UNCHANGED <<dockerVars, info, state, rc, files, configured, loaded, hostVars, call, countVars>>

MarkConfigured ==
    /\ Starting /\ step = Mark
    /\ configured' = TRUE
    /\ step' = Exec
    /\ UNCHANGED <<dockerVars, info, state, rc, files, command, loaded, hostVars, call, countVars>>

(* start.sh reads /run_command, and becomes the service.                      *)
ExecService ==
    /\ Starting /\ step = Exec
    /\ IF command = 0 THEN Exit(1) ELSE step' = Serving /\ UNCHANGED <<state, rc>>
    /\ UNCHANGED <<dockerVars, info, insideVars, loaded, hostVars, call, countVars>>

(* A bootstrap container does its work and ends.                             *)
Finish ==
    /\ Exists /\ state = "running" /\ step = Serving
    /\ ~call.p.detach /\ At("wait")
    /\ Exit(0)
    /\ UNCHANGED <<dockerVars, info, insideVars, loaded, hostVars, call, countVars>>

(* The process dies; if it was copying an entry, the old one is gone already.*)
Crash ==
    /\ Exists /\ state = "running"
    /\ faults < MaxFaults
    /\ faults' = faults + 1
    /\ Exit(137)
    /\ files' = IF step \in DOMAIN Entries /\ host[step] # Absent
                THEN [files EXCEPT ![step] = Cleared(Entries[step], host[step], @)] ELSE files
    /\ UNCHANGED <<dockerVars, info, command, configured, loaded, hostVars, call, calls>>

DockerRestarts ==
    /\ Exists /\ state = "restarting"
    /\ Launched
    /\ UNCHANGED <<dockerVars, info, rc, insideVars, loaded, hostVars, call, countVars>>

-----------------------------------------------------------------------------
(* The rest of the play, and whoever builds images.                          *)

RewriteFile ==
    /\ edits < MaxEdits
    /\ edits' = edits + 1
    /\ \/ /\ json' = json + 1
          /\ UNCHANGED host
       \/ /\ \E k \in DOMAIN Entries : \E s \in Shapes[k] :
                host' = [host EXCEPT ![k] = Contents(s, edits + 2)]
          /\ UNCHANGED json
    /\ UNCHANGED <<dockerVars, contVars, call, countVars>>

PushImage ==
    /\ edits < MaxEdits
    /\ edits' = edits + 1
    /\ \E t \in Tags, i \in Images :
         /\ \A u \in Tags : registry[u] < i
         /\ registry' = [registry EXCEPT ![t] = i]
    /\ UNCHANGED <<local, volumes, contVars, host, json, call, countVars>>

CallStep == \/ Pull \/ HasImage \/ Recreate \/ Compare \/ Create \/ Up \/ Wait \/ Verdict
            \/ Stop \/ Remove \/ StopAndRemove \/ Halt \/ Relaunch \/ Query \/ Keep
ScriptStep == Load \/ CopyEntry \/ WriteRunCommand \/ MarkConfigured \/ ExecService

Next ==
    \/ \E action \in Actions : \E p \in ParamsOf(action) : Call(action, p)
    \/ CallStep
    \/ RequestFails
    \/ ScriptStep
    \/ Finish \/ Crash \/ DockerRestarts
    \/ RewriteFile \/ PushImage

Spec == Init /\ [][Next]_vars /\ WF_vars(CallStep) /\ WF_vars(ScriptStep) /\ WF_vars(Finish)
        /\ WF_vars(DockerRestarts)
-----------------------------------------------------------------------------
(* The types of the variables: the steps a call still has, the states docker  *)
(* reports and how far start.sh can be.                                      *)
TypeOK ==
    /\ registry \in [Tags -> Images] /\ local \in [Tags -> Images \cup {Null}]
    /\ volumes \subseteq VolumeNames
    /\ info = Null => state = "created" /\ step = 0 /\ ~configured
    /\ state \in {"created", "running", "restarting", "exited"}
    /\ state # "running" => step = 0
    /\ rc \in {0, 1, 137}
    /\ step \in 0 .. Serving /\ loaded \in 0 .. json /\ command \in 0 .. json
    /\ call.action \in Actions \cup {"none"} /\ call.p \in Asked
    /\ call.result = "running" <=> call.todo # <<>>
    /\ calls \in 0 .. MaxCalls /\ edits \in 0 .. MaxEdits
    /\ faults \in 0 .. MaxFaults

(* The container has what is asked for: everything docker was told, but for   *)
(* the options that mean "whatever it is" when they are left out.  A command   *)
(* is there with the entrypoint before it, or is the whole command line.      *)
Agrees(p) ==
    LET want == Created(p, Image)
        exact == {"id", "tag", "cap_add", "binds", "mounts", "volumes_from",
                  "pid_mode", "privileged", "dimensions"}
    IN  /\ \A f \in exact : info[f] = want[f]
        /\ \A k \in DOMAIN p.environment : info.environment[k] = want.environment[k]
        /\ DOMAIN info.labels = DOMAIN want.labels
        /\ \A k \in DOMAIN p.labels : info.labels[k] = want.labels[k]
        /\ p.ipc_mode # Null => info.ipc_mode = want.ipc_mode
        /\ p.command # Null => info.command \in {want.command, p.command}
        /\ ~Unconfined(p) => info.security_opt = p.security_opt

Makes == {"start_container", "recreate_or_restart_container"}
Done(actions) == call.action \in actions /\ call.result = "ok"

(* A start or a recreation that reports success leaves a container that was   *)
(* started and has the image, volumes, environment and limits asked for,       *)
(* whatever container was there before and whatever failed before             *)
(* (start_container and recreate_or_restart_container).                       *)
Delivered == Done(Makes) /\ call.p.detach => Exists /\ state # "created" /\ Agrees(call.p)

(* What docker reports in the words of the task: no command, since docker puts *)
(* the entrypoint before it; no limit with a unit and no limit of memory       *)
(* without one of swap; variables with strings for values; no label without a  *)
(* value and none that the image has; no empty mode.                         *)
Plain(p) ==
    /\ p.command = Null /\ p.ipc_mode # Empty /\ p.pid_mode # Empty
    /\ \A k \in DOMAIN p.environment : p.environment[k] \notin {Null} \cup DOMAIN Texts
    /\ \A d \in DOMAIN p.dimensions : p.dimensions[d] \notin DOMAIN Amounts
    /\ "mem_limit" \in DOMAIN p.dimensions =>
           "memswap_limit" \in DOMAIN p.dimensions /\ p.dimensions["memswap_limit"] # 0
    /\ \A k \in DOMAIN p.labels :
           p.labels[k] # Null /\ \A i \in Images : k \notin DOMAIN ImageLabels[i]

(* Asking again for the container that was just made is not a change, so the  *)
(* daemon is not restarted by the next run, if the task is plain; a task that  *)
(* is not gets a new container from every run (check_container_differs after   *)
(* create_container).                                                       *)
RepeatIsQuiet ==
    Done(Makes) /\ call.p.detach /\ Plain(call.p) /\ state = "running"
        => ~Differs(call.p, info, Image, state)

(* After recreate_or_restart_container, the service that comes up has read    *)
(* the files that were on the host when the call was made (or newer ones),    *)
(* with either strategy: COPY_ONCE makes a new container, COPY_ALWAYS copies   *)
(* on every start.                                                          *)
ConfigTakesEffect ==
    Done({"recreate_or_restart_container"}) /\ step = Serving =>
        /\ command >= call.host[2]
        /\ \A k \in DOMAIN Entries :
             host[k] = call.host[1][k] /\ host[k] # Absent =>
                 \A name \in DOMAIN host[k] : files[k][name] = host[k][name]

(* A container that copies once never changes its files again, however often  *)
(* it dies and is restarted (execute_config_strategy and /configured).        *)
OnceImmutable ==
    [][Exists /\ Exists' /\ configured /\ configured'
        => files' = files /\ command' = command]_vars

(* A service never runs without a file it must have, nor with the command of  *)
(* another version of config.json than the one its files were chosen by,       *)
(* although start.sh may be killed between any two steps; and what --check    *)
(* calls in order is as on the host (copy_config, check_config).              *)
ServiceConfigured ==
    /\ step = Serving =>
        /\ \A k \in DOMAIN Entries : Entries[k].optional \/ files[k] # Absent
        /\ command # 0
        /\ IF Strategy(info) = "COPY_ONCE" THEN configured ELSE command = loaded
    /\ (\A k \in DOMAIN Entries : CheckEntry(Entries[k], host[k], files[k]) = "same") =>
        \A k \in DOMAIN Entries : host[k] = Absent \/ files[k] = host[k]

SameHoldings(p, before, now) ==
    /\ before.volumes = now.volumes /\ before.info = now.info
    /\ Listed[p.image] = {p.image} => before.tags = now.tags

(* A call that ends well and says "unchanged" has changed nothing docker has:  *)
(* volumes and the container, and image tags if the image is asked for by a    *)
(* tag; a name without one is looked up by all its tags (get_image_id), and    *)
(* with two of them a pull is never a change.  The handlers of the role rely   *)
(* on it, and pull_image overwrites what was recorded before.                *)
ChangesReported ==
    call.result = "ok" /\ ~call.changed =>
        SameHoldings(call.p, call.before, Holdings)

(* Every call ends, the bootstrap one included, which waits for its container.*)
CallEnds == call.result = "running" ~> call.result # "running"
=============================================================================
