# TLA+ models of kolla-ceph

kolla-ceph does two things.  `kolla-build` builds a tree of docker images with a
pool of threads.  `manage.sh` runs ansible plays that deploy, reconfigure and
upgrade a Ceph cluster made of containers of those images.  This directory
models the parts of both in which the order of events decides whether the
result is right, checks them with TLC on small instances and proves the central
facts with TLAPS for all instances.

Paths and line numbers below are those of the sources under `src/`;
`PROJECT.json` maps every definition to the lines it models.

## The system

| Component | State | Operations | Interacts with |
|---|---|---|---|
| Build planning (`kolla/image/build.py`: `find_parents`, `filter_images`, `build_queue`) | `image.status`, the list of roots to queue | one pass over all images in the order `os.walk` gave, one pass to queue | asks the docker cache; hands a queue to the pool |
| Build pool (`WorkerThread`, `DockerTask` and its subclasses, `run_build`, `join_many`) | two `Queue`s with counters of unfinished tasks, threads, `image.status` | get, run, retry, followups, `task_done`, tombstones, poll, join, Ctrl-C | docker, the registry, the signal handler of the main thread |
| Dockerfile generation (`create_dockerfiles`, templates, reports) | files | one sequential pass | gives planning its images |
| OSD bootstrap (`find_disks.py`, `bootstrap_osds.yml`, `ceph-osd/extend_start.sh`, `prepare_osds.yml`) | partition labels and contents, the OSDs ceph knows | look up, ask, one container per OSD, mount | `kolla_docker`, ceph monitors |
| `kolla_docker.py` | the containers, images and volumes of a host | compare, create, start, wait, restart, recreate, remove | docker; called by every play |
| Container start-up (`start.sh`, `set_configs.py`) | copied files, `/run_command`, `/configured` | copy once or always, check | restarted by docker, recreated by `kolla_docker` |
| Rollout (`roles/ceph`, handlers) | files on the host, notified handlers, `noout` | config, health check, flush handlers, per host and per OSD | `kolla_docker`, ceph health |
| Monitor bootstrap (`check_mons`, `bootstrap_mons`, `generate_cluster`, `fetch_keyrings`, `bslurp.py`, `ceph-mon/extend_start.sh`) | the volume `ceph_mon_config`, keyrings, monmap | elect a bootstrap host, generate, fetch, distribute | all monitor hosts |
| Pools, keyrings, device classes (`kolla_ceph_*.py`) | objects in ceph | sequences of `ceph` commands | ceph monitors |
| `merge_configs.py` | none | merge ini files | rollout |
| `kolla_toolbox.py`, `kolla_container_facts.py` | none between calls | one request each | docker |
| Common role, fluentd, cron | as rollout, without order between services | config, handlers | `kolla_docker` |
| `manage.sh`, `kolla/cmd`, `hacking` | none | command lines, lint rules | ansible-playbook |

### What is hard, and what correct means

* **Planning.**  The statuses of ancestors are set while their own turn is still
  to come or already over, and the listing need not have parents first.
  Correct: the plan is the closure of the request; every matched image reaches
  the workers exactly once; a cached image is not built against
  `--skip-existing`; a request is never silently lost.
* **Build pool.**  Threads, two queues, a main thread that polls two counters one
  after the other, tombstones that one thread passes on to the next, statuses
  read by one thread and written by another, retries, and Ctrl-C anywhere.
  Correct: no shutdown while there is work; one build of an image at a time,
  after its parent, at most `retries + 1` times; every image accounted for; the
  report is final, unless Ctrl-C hid a thread from the joins; the program ends.
* **OSD bootstrap.**  The labels are the only memory between deployments, the
  script has no undo, and it can die between any two commands; an aborted play
  leaves its container running, and the question before a wipe counts what setup
  saw when the play began.  Correct: on the disks that setup reports, the
  operator's data and finished OSDs survive everything; a label never lies about
  what is stored; the labelled layout is what one gets.
* **Containers.**  Stop, remove, create and start are separate calls; the marker
  of `COPY_ONCE` is written after the files; docker restarts the container while
  a call works on it; what docker reports of it is not always written as it was
  asked for.  Correct: a call that reports success leaves the container asked for,
  the same call again changes nothing if the options are of those that are read
  back as written, a change is reported, a service never runs without its files,
  every call ends.
* **Rollout.**  A notification is lost when the play fails between writing a file
  and running the handler, or skips the handler of a container that differs, and
  the image and the switches may be others in the next play; `noout` stays set;
  the health check then blocks the next run.  Correct: a daemon is taken down only when the cluster recovered from
  the one before, an osd only under `noout`; a play that ends well has had its
  effect; a merged file means what the operator wrote.
* **Monitor bootstrap.**  The volume that marks a host as having cluster files is
  created before the files; timeouts of one second, a temporary file all hosts
  write to, containers that copy files while others read them.  Correct: keys are
  made once, every monitor has them.
* **Ceph modules.**  Sequences of commands in which the first one hides the
  failure of a later one from the next run.  Correct: a deploy that ends well
  leaves pools, classes, keyrings and filesystem as asked.

The full list of hazards, each at its line, is in `PROJECT.json`.

## Modules

| Module | Models |
|---|---|
| `ImageFilter` | `filter_images` and `build_queue`, one action per image visited |
| `ImageFilter_proofs` | theorems about it |
| `BuildPool` | threads, queues, tasks, main thread, Ctrl-C |
| `BuildPool_proofs` | theorems about it: for any plan, and for plans that hand out an image once |
| `KollaBuild` | both composed: whatever plan planning makes, the pool executes |
| `KollaBuild_proofs` | theorems from the options of `kolla-build` to its result |
| `MCKollaBuild`, `MCBuildPool` | instances for TLC |
| `OsdBootstrap` | lookup, prompt, loop of containers, the script, prepare_osds |
| `OsdBootstrap_proofs` | theorems about it |
| `MCOsdBootstrap` | a host with two disks and a loop device, twelve labellings |
| `ContainerOptions` | what `kolla_docker` makes of its parameters, and the comparison of a container with them, option by option |
| `SetConfigs` | what `set_configs.py` does with one entry of `config_files` |
| `Container` | one container: every action of `kolla_docker`, docker, `start.sh`; extends the two above |
| `Container_proofs` | theorems about it |
| `MergeConfigs` | the merge of ini files by `merge_configs`, and its reference |
| `MergeConfigs_proofs` | the merge against its reference, for any files; lemmas on concatenation |
| `CephRollout` | upgrade and reconfigure of the ceph role, host by host; extends `MergeConfigs` |
| `CephRollout_proofs` | theorems about it; extends `MergeConfigs_proofs` |
| `CephDeploy` | a deploy: monitor bootstrap, keyrings, device classes, pools, filesystem |
| `CephDeploy_proofs` | theorems about it: types, the one cluster, what is in force before the include of deploy.yml:32-36, and what a deploy that ends well leaves in ceph |
| `MCContainer`, `MCCephRollout`, `MCCephDeploy` | instances for TLC |

### ImageFilter

`images` is the listing, `n` the index of the loop, `phase` tells which loop.
The options, the set of requested names and the set of cached images are chosen
in `PlanInit`.  `FilterKeep` is the `continue` for an image already matched,
`FilterRequested` the branch of a matching name including the climb to its
ancestors, `FilterOther` the other branch, `NoFilter` the loop without a filter;
`QueueImage` is one iteration of `build_queue`.  `UNBUILDABLE_IMAGES` is empty
in this repository, so no image starts unbuildable and that branch is left out.
The regular expression is reduced to the set of names it matches.

### BuildPool

A worker's `pc` follows `WorkerThread.run` line by line; every access to shared
state (a counter, a queue, a status another thread may write) is a step of its
own.  `Queue` is external: `Put` appends and counts in one step, `GetTask` and
`GetTombstone` take the head and block on an empty queue.  The run of a docker
build is `StartBuild`, then one of `BuildOK`, `BuildFails`, `BuildRaises`; that
of a push is `FinishPush` with any answer.  `tail` separates the end of
`builder` from the moment `BuildTask.run` reads the status.

The main thread's `mpc` follows `run_build` and `join_many`.  It reads the two
counters in two steps (`PollBuild`, `PollPush`), as `or` does.  `Interrupt` is
`KeyboardInterrupt` at any step; where it leads is `InterruptTarget`.
`StartThread` and `ListThread` are apart, since Ctrl-C may come in between.

Names beginning with a definition's name and an underscore (`PollPush_And`) are
variants that show what each property depends on; no behaviour uses them.
`handed` is a history: the images whose build task was ever put.  `HandsOnce` is
what a plan must be like for most of the properties.

### KollaBuild

`ImageFilter` and an instance of `BuildPool` share `status`.  `Launch` is the
return of `build_queue`.  The properties of this module go from the options on
the command line to the final statuses.

### OsdBootstrap

A partition has a label, a GUID and contents.  A label is a record of the parts
the code looks at: bootstrap or data, store, mode, name and use (the suffix).
`Combine` is `combine_info`: the combinations found in the labelled partitions
so far, one after the other (`Extended`), and `AllUsedUp` what they have taken
(the reset of `partition_usage`);
`Script` is the sequence of commands the script runs for an item, and a
container runs it one command at a time; dividing a disk (two `sgdisk` calls
after the zap) is one command, as between the two calls there is nothing to be
found on the disk anyway.  `ScriptFails` stands for `errexit`, a killed
container and a host that goes down, between any two commands.  A retry of
`ceph auth add` for a known OSD, which ceph may refuse, is one of these
failures.  `StartContainer` removes a leftover container of the same index,
because `compare_environment` never finds the null value of `KOLLA_BOOTSTRAP`
equal; it does not see those of other indices.  `Abort` is Ctrl-C during the
play; the container goes on.  What `prepare_osds.yml` needs of an OSD it finds is
`Mounts`: a filesystem with a `whoami` file in DISK mode, a volume in LVM
filestore, nothing in LVM bluestore.

A play begins with `GatherFacts`, the setup task of site.yml: `facts` are the
partitions there are on the disks that setup reports (`InFacts`: no loop devices).
`Asks`, the question before a wipe, counts those, not what is there at the
`Lookup` or when the container zaps the disk.  A disk setup does not report is
wiped without a question, as the comment at bootstrap_osds.yml:48 intends; so
`UserDataKept`, `CompleteKept` and the second half of `LabelsTellTheTruth` speak of
the disks that it reports.

### ContainerOptions, SetConfigs, Container

`Asked` are the parameters of the calls; `Merged` fills in `common_options` and
defaults.  `HostConfig`, `Binds`, `Created` say what is handed to docker;
`CompareX` is `compare_x`, `Differs` their disjunction in the order of the code,
`ComparisonRaises` an exception in it.  What docker reports is not what was asked:
`Text` makes a string of every variable, `Amount` a number of a limit with a unit,
`Limits` gives as much swap as memory, and the image's `Entrypoint` stands before
the command; `Plain` are the parameters for which none of this matters to the
comparison.  A call for any other is made anew each time.  `ImageId` is
`get_image_id`: what docker lists for the name (`Listed`), if that is one image, so
that a name without a tag has none once it has two tags.

A call is a list of steps (`Program`); a step is one request to docker, in the order of the method, and puts the further
steps it needs before the rest: `Recreate` decides between stop-and-remove and a
restart, `Compare` between keeping and recreating, `Wait` is `dc.wait` of a call
with `detach: False`.  `RequestFails` is an error docker gives to any of them.
Meanwhile `start.sh` runs (`Load`, `CopyEntry`, `WriteRunCommand`,
`MarkConfigured`, `ExecService`, one step each), may be killed (`Crash`), and is
started again by docker if the restart policy says so; `RewriteFile` and
`PushImage` are the other plays.  A file is the version it was written with; a
directory is a function from names to versions.  `call.before` and `call.host`
record, for the properties, what docker and the host had when the call began.
`ContainerAssumption` says of the parameters what Ansible's argument types and the
role guarantee: every task has a `KOLLA_CONFIG_STRATEGY` of the two there are, and
none sets `KOLLA_SERVICE_NAME`, which the module does itself.  `Query` are the
actions that only read, `get_container_env` among them.

### MergeConfigs and CephRollout

A file is a sequence of headers and assignments (`IsFile`).  `Reads` takes its
lines one by one (`NewSection`, `Assignment`), `Parsed` is the end of `parse`, one
section after the other (`Override`), `Write` is `write`; each loop is a function
of the number of its iterations.  `LastWins` is the reference: the last file that
speaks of a key decides, with all its values.  `MergeMeans` asks it of files that
begin with a section, see Findings.

A play is a list of tasks on one daemon each; the facts a task registers
(`json`, `conf`, `cont`, `running`) are fields of `play`.  `PlayTasks` has the
order of `upgrade.yml` and `reconfigure.yml` with `serial: 1`; a failed task ends
the play, as every batch is one host.  A restart is `TakeDown` and `BringUp`; in
between the container is absent (it differed) or exited (it did not).  A daemon
that was started becomes `running` on its own (`Join`).  `Healthy` stands for
HEALTH_OK: no flag set, every daemon up.  A `ceph.conf` on a host or in a daemon
is the name of the operator's file it was merged from; two count as the same if
the merged texts are (`SameConf`).  mgr and rgw are treated as the monitor is
and left out of the instance.  Deploys are in `CephDeploy`.

`want` is everything the operator gives per play: the image (the tag of manage.sh),
`config.json`, his `ceph.conf`, and the two switches `enable_upgrade_health_check`
and `ceph_conf_change_restart`.  `Edit` takes it to any other of `Wants`, back to
an earlier one too.  `Stale` are the daemons that run with other files than lie on
their host, since a play failed after it wrote them, or skipped the handler;
`play.stale` records which those were when the play began, and `RolloutTakesEffect`
promises them nothing.

### CephDeploy

Ansible does a task on all hosts before the next one: `play.left` are the hosts
that have the task before them, `play.alive` those that failed none.  The
monitor part follows `check_mons.yml` to `distribute_keyrings.yml` task by task;
`temp` is the temporary file all hosts write to, `fresh` the hosts whose volume
the play created.  Whether a monitor answers in a second is open at any time.
The three keyrings and the monmap are one text: a sequence that begins with the
generation of the keys, shorter while files are missing, longer if something old
stays behind it.  `CopyToHost` is `bslurp`.  `MonStarts` is a start of the
container: `set_configs.py` copies `/etc/kolla/ceph-mon` over `/etc/ceph`, and a
monitor without data is made of the keys it finds.

The kolla_ceph modules are `Plan`, the commands that follow from what the module
asked ceph, and `Command`, one of them; a command can fail before (`TaskFails`)
or after its effect (`AnswerLost`).  `Refused` is what ceph does not accept: a
device class for an osd that has another, a filesystem without its pools.  The
hosts of mgr, osds and mds fail as a whole with their command.  The retries of
the admin caps are waiting for the monitor to come up.

`Refetch` is the include of deploy.yml:32-36 between client.admin and the managers.
Its condition reads `ceph_install_daemon`, which nothing in the repository
defines: `want.named` says whether the operator did so himself, as a list with
ceph-mon in it.  If not, the play ends there on all hosts, in every deploy; if so,
the include is skipped or done, depending on whether the first host of the play
is one of ceph-mon.  The properties hold of both kinds of deploys: what must be
there when the monitors and client.admin are done is asked directly before the
include, and what a deploy that ends well must leave concerns the second kind
only.  `Register` sets `available_mon` once for all, from the `bootstrap_host` of the
first host of the play that is a monitor host, which need not be the one that
made the keys (`Available`).

## Runs

| Run | Instance | Shows |
|---|---|---|
| `build_plan_and_pool` | three stacked images, four listings, all requests, options and caches, two builders | planning properties, `RequestedAnswered`, `BuildsDisciplined` |
| `build_pool` | a base and two children (one possibly cached), two builders, one pusher, one retry, every outcome | the safety of the pool |
| `build_pool_ctrl_c` | one image, two builders, one pusher, no retry, up to three Ctrl-C | `ReportIsFinal`, `Terminates` |
| `osd_bootstrap` | two disks and a loop device with up to two partitions each, twelve labellings, two failures, one aborted play, any number of plays | data kept, labels true and honoured |
| `container` | seven ways to ask for one container, two calls, two tags of one name, two images, one rewritten file or pushed image, one crash or failed request | `Delivered`, `RepeatIsQuiet`, `ConfigTakesEffect`, `ServiceConfigured`, `OnceImmutable`, `ChangesReported`, `CallEnds` |
| `ceph_rollout` | a mon, three osds (one LVM) and an mds on two hosts, two plays of any kinds, five settings of image, files, health check and `ceph_conf_change_restart`, two changes, one failure | `RestartsAreSafe`, `RolloutTakesEffect`, `MergeMeans` |
| `ceph_deploy` | one or two monitor hosts, the second added before or after the first, old files on either, four pools, two osds, two keyrings, three deploys, `ceph_install_daemon` defined or not, one change, one failure | `OneCluster`, `KeyringsInForce`, `CephAsAsked` |
| `image_built_twice`, `requested_image_untried`, `osd_separate_block_lost`, `reconfigure_lost`, `deploy_stops` | the same, smaller | a counterexample each; see Findings |

Why the bounds are enough:

* Three images in a chain are what it takes for an image below a skipped one
  below a matched one, and for a child visited before its parent and
  grandparent; the listings are all that `os.walk` can give for the directories
  of this repository.
* Two builders give every race between siblings and between a child and its
  parent's push; a second pusher would take pushes that do not interact.
  Retries = 1 has a first, a last and an exceeded attempt.
* Three Ctrl-C reach every state of the main thread: the handler, the joins with
  a timeout, and the way out past them.
* Two failures are a failure of a deployment and one of the deployment that
  repairs it.  Two disks let an OSD and its block, WAL, DB or journal be on the
  same disk or not, and two OSDs have the same name; the loop device is a disk that
  is wiped unasked, also next to one that is not.  In `osd_bootstrap` the
  operator never agrees to wipe a disk with several partitions; with agreement,
  losing them is what was asked for.
* Two calls are one that leaves something behind and one that meets it; with one
  failure or crash the first can be cut off anywhere.  The seven parameter sets
  differ in every option the comparison looks at, and include a command, a limit
  and a variable that docker rewrites, a bootstrap container and a volume the
  module cannot read.  Of the two names one has no tag, and docker lists both
  tags for it.
* Two plays are one that fails or skips a handler and one after it; two edits
  change what is wanted between them and back; the
  osds of one host follow one another within a batch, the LVM one has the second
  health check, the mds has none.
* Three deploys are a first one, one that fails and one after it.  Two hosts let
  the new one be first or last in the inventory, and the answering host be
  another than the one with the keys.  The old text is longer than a new one.
* Builders are interchangeable, hence the symmetry; the run with a liveness
  property uses none.

The pool runs check for deadlock: a pool that has ended stutters explicitly
(`Terminated`), so one that stops before that is reported, and `osd_bootstrap`
has no bound on its plays.  `container`,
`ceph_rollout`, `ceph_deploy`, `reconfigure_lost` and `deploy_stops` do not: calls, plays, edits
and faults are bounded, and a host with none left rests.

### Fairness

`BuildPool!Fairness` is weak fairness of the main thread and of each worker
thread: CPython schedules every runnable thread, and a thread waiting for docker
or the registry gets an answer or the read timeout of the docker client.  A
worker blocked on an empty queue has no enabled step.  Nothing is assumed of
`Interrupt`, nor that a `join(0xffff)` times out.  `Terminates` asks for at most
one Ctrl-C: after a second one inside the handler the tombstones may be missing,
and the joins then last until they time out (18 hours) or Ctrl-C comes again.

`Container` has weak fairness of a call's next step, of `start.sh`, of the end of
a bootstrap script and of docker's restarts: docker answers every request and
follows its restart policy, and the scripts run.  Nothing is assumed of crashes,
failures, new calls or edits.  `CallEnds` is then about `dc.wait`: it must not
wait for a container that docker restarts for ever.

The other specifications state safety only.

## Proofs

A theorem holds for every value of the constants that satisfies the named
assumption of its module, and TLC evaluates those assumptions on the instances:
`ParentAssumption` (FROM lines do not run in a circle), `OrdersAssumption`
(`os.walk` lists every image once), `PoolAssumption` (at least one thread of each
kind, finitely many), `DeployAssumption` (inventories name somebody; the texts of
different keys differ), `RolloutAssumption` (the inventory lists every host, every
daemon is listed once, a host has one daemon of each kind but osds, and what was
deployed is one of the settings the operator may want),
`FilesAssumption` (an ini file consists of headers and assignments, and no header
is the name kept for what comes before the first), `BootstrapAssumption` (the
listing has each partition once, disk and number identify it, and a disk with a
partition 1 has a place for a partition 2, which dividing it makes),
`ContainerAssumption` (parameters have their types and a strategy; None, "nothing there", a variable that is no string and a limit with a
unit differ from other values), and in `KollaBuild`
that its instance of the pool meets `PoolAssumption`.

**Planning** (`ImageFilter_proofs`).  `RequestedKept`, `ClosureOfRequest`,
`HandedOnce`, `CacheKept`.  The properties speak of the end of a loop, so the
inductive invariant `PlanIInv` says what the iterations so far have achieved:

* `SeenWanted`: the requested images before index `n` are matched or skipped.  A
  climb only raises statuses, and `FilterOther` lowers only an image that is not
  requested;
* `Closure`: without skip options the matched images are the closure of the
  requested ones *before n*.  That a climb adds just the ancestors, in any order,
  is an argument about trees: `Ancestors` is a recursive function, and
  `AboveUnfolds` shows that the least closed set solves its equation, so that
  `AncestorsUnfold` may be used.  `ParentAssumption` replaces induction along a
  chain of parents;
* `CacheRespected`, and `RootsSoFar`: `build_queue` has queued each root before
  `n`, once.

**Pool, any plan** (`BuildPool_proofs`).  `TypeCorrect`, `UnfinishedCounted`,
`NoEarlyShutdown`.  The inductive invariant is
`IInv == TypeOK /\ Holding /\ Accounting /\ Quiet`:

* `Holding`: a busy thread holds a real task, so its followups are tasks;
* `Accounting`: the counter of a queue is its length plus the threads that hold a
  task or met a tombstone.  It gives that a counter never goes below zero (a
  thread that calls `task_done` is itself counted), hence the types;
* `Quiet`: once the build queue was seen at zero, it stays idle.  This is the
  heart of `NoEarlyShutdown`: the two counters are read at different moments, and
  the conclusion is right only because builders alone refill the build queue and
  pushers refill nothing.  Between the two reads only the push queue can shrink.

`ReportFinal` has an invariant of its own, `Report`: the listed threads were
started, and between two starts every started thread is listed, so that a Ctrl-C
between `start()` and `append()` (build.py:1315-1317) hides one thread from the
joins and no more.  When the summary is made without a forced exit all listed
threads have ended, and an ended thread takes no step; with no hidden thread the
report is final.  With one it need not be: that thread may build on while the
summary is printed.

**Pool, plans that hand out an image once** (`BuildPool_proofs`).
`OneBuild`, `ParentFirst`, `ErrorFromPush`, `Bounded` and `BuiltStays` assume
`HandsOnce(plan)` of every plan: there is a set of images that contains the
roots and is closed under "followup", in which no image is both a root and a
followup.  The hypothesis is needed: `image_built_twice` is a plan without it,
made with a skip option, and there the conclusions fail.  That `kolla-build`
makes such plans is proved below.  `PlanInv` follows a task through the pool: a
build task exists once (`Once`); it comes from `build_queue`, or from a parent
that is through with its attempts (`Handing`); and the status of an image is what
the plan said, until its task is taken (`Fate`).  The history variable `handed`
is what connects them: an image was put if and only if its task is somewhere or
its fate is decided.

**Pool, results** (`BuildPool_proofs`).  `NothingLost` and `Delivered`
count no tasks.  `Unlost` says for each image what is owed to it (a push, a place
in the queue, an attempt) and where that is: in a queue, or in the hands of a
thread at a place of its loop from which it must come.  When the main thread
ends, `Quiet` and `Accounting` say that no such place is left.

**From the command line to the result** (`KollaBuild_proofs`).  `Disciplined` and
`AllAnswered` are about the whole program without the skip options; no hypothesis
on plans is left, since `PlanIInv` implies `HandsOnce` of the plan that `Launch`
hands over (`MadeHandsOnce`).  With the skip options `RequestedAnswered` also
depends on the order of the listing; the run checks it for those, no theorem
states it.

**Deploy, one cluster** (`CephDeploy_proofs`).  `TypeCorrect` and `ClusterIsOne`.
A play is a list of tasks of which one step removes the head, so an invariant
about it needs to know how far it is: `Rank` numbers the tasks, `Chained` says
that the ranks follow one another, and `HaveDone(r)` are the hosts that have done
the task of rank r.  `Volumes` says of those hosts what their volumes hold, and
why only a play that found no host with a volume makes keys; `Keys` that, as long
as nothing is tainted, every text that lies anywhere is a beginning of the one
generation of keys, and all of it where a monitor uses it.

**Deploy, commands** (`CephDeploy_proofs`).  `KeysDelivered` and
`CephIsAsAsked`.  What ceph lacks and what the play still has to do are an
account that always balances (`Remaining`): a keyring has its caps, or the task
or a command that sets them is ahead.  It is inductive only with `Ordered`, which
says of the commands ahead what order they are in (a class that is removed is
set next, a pool that is created gets the rest of its settings), and with
`PoolsWhole`, by which a pool that exists lacks nothing unless some command on
it failed.  `AdminInv` is for the moment before the include: only a task of
client.admin stands directly before it (`AfterAdmin`), so whoever is at the include
has just found or set the caps, by a monitor that serves and so has a key.

**Container** (`Container_proofs`).  `TypeCorrect`, `Delivers`, `RepeatQuiet`,
`ConfigEffective`, `Configured`, `OnceStays`, `Reports`.  `CInv` has a part for each
actor.  Of the call: `Planned` says which step may follow which (`Follows`), which
belong to which action and with which a call can end, so that the end of a list
tells what was done.  `Settled` says what each step may rely on: from the
comparison on, the container is `Same`, that is, found without a difference or made
of the present parameters, and a container still only created is not one that
`start_container` saw running.  `NoDifference` and `EqualFields` turn the twelve
comparisons into equal fields.  Of the scripts: `Scripts` says for every place in
`start.sh` what is copied, written and marked.  `ConfigTakesEffect` needs both:
`Renewed` says that what lies behind `start.sh` is as new as the call, for a
container made or stopped by the call; and `Older` that no file is newer than the
last edit, as two versions of a file would not differ otherwise.  `Recreated` says
when in the call `Renewed` begins to hold: from `create` or `relaunch` on, and not
before.

**Rollout** (`CephRollout_proofs`).  `TypeCorrect`, `SafeRestarts`, `TakesEffect`.
What a play still has to do is the rest of one sequence (`PlayTasks`, made by
concatenating the tasks of hosts and kinds), so the place of its next task tells
what it has done.  The first part of the module shows what that sequence is like,
for any hosts and daemons: `Led`, which tasks stand before a flush, `Enclosed`, that
`noout` is set for one flush and taken back after it, `Grouped`, that the flushes
of a group follow its two files with no other file in between.  `RInv` then says
for the place the play is at:

* what is left: `Rest`, the end of that sequence, but that a flush becomes the
  second half of a restart (`Halfway`);
* of the daemon whose flush comes next: `Looked`, `Probed` and `Checked`, what the
  registered facts and the health check are still worth when the restart uses
  them, several tasks later and while daemons may go down, and `Flagged`, that an
  osd about to be restarted has `noout`;
* of the daemons behind: `Upgraded`, `FilesWritten`, `Reconfigured`.  The last needs
  `UpToDate`: a handler is notified only if a file changes, so what the play did
  not change must be in the daemon already, or its restart must be to come
  (`Pending`).  That is so only of daemons that had the files of their host when the
  play began (`play.stale` are the others), and as long as the look at the container
  found it as wanted (`Looked`);
* of the cluster: `Healed` (whoever finds it healthy finds it recovered) and
  `Unflagged` (`noout` is set around a flush, or left by a play that failed).

**Merge** (`MergeConfigs_proofs`, and `MergedMeans` in `CephRollout_proofs`).
`MergesAll` is `LastWins` for any number of files of any length.  Its three parts:
`ParseGood` (what a file says is well formed: each section once, each key with a
value), `ParsedIs` and `FilesWin` (one file on top of the others), and
`ReadWritten`, that reading what was written gives back every section, key and
value, although `write` may put keys in any order.  All are by induction over
the iterations of a loop, which the prover cannot do with a predicate as a
parameter but can with a set: `SetInduction` says that a set with 0 that is
closed under + 1 holds all numbers, and follows from the library's theorem on
least elements.

**OSD bootstrap** (`OsdBootstrap_proofs`).  `TypeCorrect`, `DataKept`, `LabelsTrue`,
`Finished`.  `LabelsTellTheTruth` and `UserDataKept` speak of operators who do not
consent to a wipe, as consent is to losing what is there, and of disks that setup
reports, as of others nobody is asked.  A script is a list of
commands; `ScriptShape` numbers them, so that the next command tells what was
done, and `Reach` is the set of partitions a script can still touch.  `Combine`
extends its result once per labelled partition; the counting argument `Enough`
shows that a listing has room for all it returns, so that the types hold.  The
inductive invariant `OInv` is the conjunction of

* `Running`, `Registered`, `NotAgain`, `NoOsdToDo`: containers are at a command of
  the script of an item that can be had, their ids are known to ceph, what a run
  renamed does not get a bootstrap label again, and no partition labelled as
  still to do holds an OSD;
* `Harmless` and `Apart`: no script reaches the operator's data, and the items of
  one lookup have nothing in common.  Both rest on `NobodyElse`: a disk that is
  taken whole without a question held nothing else when the play began, or is not
  reported by setup; and on `FactsHold`: what was made since, by a container that an
  aborted play left, lies on a disk without data of the operator;
* `Alone` and `Untouched`: without an aborted play the only container is the one
  the play waits for, and no finished OSD is within reach of an item still to
  come.  This is where `aborts = 0` is needed, see Findings;
* `UserDataKept`, and `TrueLabels`, the part of `LabelsTellTheTruth` about finished
  OSDs.

**Only model-checked:** `LabelsHonoured`, which does not hold of every labelling
(an OSD that needs the whole disk but is not on partition 1 is left out, and two
OSDs of one name share their block, WAL and DB partitions), but of the twelve of
the instance; `RequestedAnswered` with the skip options; `ReconfigureTakesEffect`
and the other counterexamples; and liveness (`Terminates`, `CallEnds`), as fairness
and `ENABLED` are beyond the prover.

## Findings

* `image_built_twice`: an image below a skipped image below a matched one is
  queued as a root (build.py:1249) and again as a followup of the skipped image.
  It can be built by two threads at once, up to `2 * (retries + 1)` times.
* `requested_image_untried`: a requested child listed before its parent marks the
  parent skipped; the parent's own iteration marks it unmatched (build.py:973);
  nobody queues the child.
* `osd_separate_block_lost`: a failure between the renaming of the block
  partition (extend_start.sh:346) and that of the OSD partition (386) makes the
  next deployment divide the whole disk of the OSD partition; the prepared block
  partition is orphaned.
* `reconfigure_lost`: a reconfigure that fails after it wrote `ceph.conf` (config.yml:20),
  before the handler ran, is not made good by the next one: it finds the file
  unchanged, restarts nothing and succeeds.  It takes no failure: a reconfigure
  with another image tag writes the files, finds that the container differs, skips
  the handler (handlers/main.yml:42-43) and ends well, and so does one before
  `ceph_conf_change_restart` is switched on; the next one restarts nothing.
* `deploy_stops`: the condition at deploy.yml:36 reads `ceph_install_daemon`; the
  name that is defined is `ceph_install_daemons` (all.yml:179, manage.sh:224).
  Ansible fails the task, and since it is done once for all hosts, every deploy
  ends there: with monitors and client.admin, without managers, osds and pools.

Met while modelling, without a run:

* The error of the first attempt of a push stays in `image.status`, by which
  `PushTask.run` judges the later ones (build.py:220-239): the attempts after
  "# try again..." (535) cannot succeed, although the registry accepts the image.
* A Ctrl-C between `start()` and `append()` (build.py:1315-1317) leaves a thread
  that nobody joins, and that may work while the summary is printed.
* A disk that setup does not report is wiped without a question
  (bootstrap_osds.yml:48), whatever partitions it has.
* A container with a command, a limit with a unit, a memory limit without one for
  swap, or a variable that is no string is recreated by every call: docker
  reports the command behind the image's entrypoint (kolla_docker.py:521-529), the
  limit as a number (502), as much swap as memory, and the variable as a string
  (465).
* Once a name without a tag has two tags locally, `get_image_id` has no answer for
  it (548) before and after a pull: a pull is never reported as a change.
* A volume without a colon ends `start_container` after the old container was
  removed (kolla_docker.py:620).  A null value in `environment` or `labels` always
  differs, so such a container is recreated by every call (455).  A label that an
  earlier task gave and the image has too is not missed when it is no longer asked
  for (408), so the container keeps the old value; `Agrees` promises only the
  labels asked for.  The default of
  `restart_retries` hides the common option of that name (996).
* `set_configs.py --check` swaps the arguments of `relpath` (190, 199): a directory
  never passes.
* Keys before the first section of a later file end up in the section written
  before them (merge_configs.py:120), beside a key of the same name.  `MergeMeans`
  is about files that begin with a section.
* The mds is upgraded without a health check (upgrade.yml:79).  `noout` left by a
  failed play keeps the health check of later plays from passing.  An upgrade that
  failed between remove and start of an osd leaves no container, for which
  `Running` is undefined: every later upgrade fails at
  start_upgrade_disk_osd.yml:70.
* A deploy that fails between creating `ceph_mon_config` and generating the keys
  is never repaired: every later one takes the host for one with cluster files
  and fails at `fetch_keyrings.yml`.  Likewise when all monitors are stopped: the
  keys are fetched from a container of which none runs, before the handler that
  would start it, although `manage.sh:18` says of deploy "also to fix daemons".
* A host that is out of the play before bootstrap_mons.yml:23 is not heard: if it
  alone has the cluster and its monitor does not answer, a new first host makes a
  second set of keys.  And keys generated where `/etc/kolla/ceph-mon` holds files
  of an older cluster race with `set_configs.py`, which copies those over them.
  `OneCluster` and `KeyringsInForce` exclude both by `tainted`.  The monitor that is
  asked for the keys is the one whose name was written last (23), whichever of the
  hosts with a volume that is.
* `bslurp` does not truncate (185): the rest of a longer file stays, and the push
  is repeated by every play.
* The first creation of a pool with a cache ends with an exception
  (kolla_ceph_pools.py:230: None is not the empty string), 234 calls a method that
  does not exist; the next run takes the pool for complete (194).  A replicated
  pool without a rule is left out without an error (205).
* After an aborted play, the next one numbers its containers from 0 again and can
  start a second container on a partition the first still works on.  Hence
  `aborts = 0` in `CompleteKept`.
* A failure between extend_start.sh:386 and 406 leaves a partition labelled as an
  OSD that has none; `prepare_osds.yml:67` fails on it in every later deployment.
* An OSD partition that is not number 1 and has no block or journal partition is
  left out by `combine_info` without a message (find_disks.py:316).

## Not modelled, and why

* Dockerfile generation, listings, `kolla_toolbox`, `kolla_container_facts`,
  `manage.sh`: sequential, no state that survives a call.
* Cache OSDs (`KOLLA_CEPH_OSD_CACHE`): the same script with another crush root;
  multipath devices: other type codes and links.  The `OSD_START` part of the
  script links files before the daemon starts.
* `kolla_docker`: TLS, registry logins, `kolla_container_facts`; owners and
  permissions in `set_configs.py`, and globs.
* `CephRollout`: `--limit`; `CephDeploy`: `--daemon` and `--limit`, restarts of
  daemons that run (`ceph_container_running_restart`), the checks for empty
  parameters of a pool, key files of mgr and mds.
* What ceph and docker do inside: only their answers.  Which monmap a monitor is
  made with is not told apart.

## Plan

Done: `ImageFilter`, `BuildPool`, `KollaBuild`, `OsdBootstrap`, `Container`,
`MergeConfigs`, `CephRollout`, `CephDeploy`.

Left: `BuildSpec`, what a build promises (each wanted image built at most
`retries + 1` times, after its parent), with `BuildPool` shown to implement it.

Theorems still worth proving: that `BuildPool` implements `BuildSpec`; and what
`LabelsHonoured` says, for the labellings of which it is true.
