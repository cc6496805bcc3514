----------------------------- MODULE BuildPool -----------------------------
(***************************************************************************)
(* The thread pool that executes a build plan: WorkerThread, BuildTask,     *)
(* PushTask, PushIntoQueueTask, join_many and the pool part of run_build in  *)
(* kolla/image/build.py, with the Queue of the standard library.            *)
(*                                                                         *)
(* Two queues, one for builds and one for pushes, each served by its own    *)
(* threads.  A finished task puts its followups into its queue before it is *)
(* acknowledged with task_done.  The main thread polls the two counters of  *)
(* unfinished tasks, then puts a tombstone on each queue; each thread that   *)
(* takes a tombstone puts it back and ends.  Ctrl-C may arrive whenever the  *)
(* main thread runs.                                                        *)
(***************************************************************************)
EXTENDS Naturals, Sequences, FiniteSets

CONSTANTS
    Images,        \* the images of the plan
    NoImage,       \* parent of an image whose FROM is not an image of ours
    Parent,        \* image -> its parent
    Builders,      \* the conf.threads threads that serve the build queue
    Pushers,       \* the conf.push_threads threads that serve the push queue
    Retries,       \* conf.retries
    Push,          \* conf.push
    Plans,         \* what build_queue may hand over: [status, roots]
    BuildErrors,   \* the statuses a failed build may leave
    PushErrors,    \* the statuses a failed push may leave
    MaxInterrupts  \* bound of the model: how often Ctrl-C is pressed

Workers == Builders \cup Pushers
Queues == {"build", "push"}

Errors == {"connection_error", "push_error", "error", "parent_error"}
Statuses == {"unprocessed", "unmatched", "matched", "skipped", "building", "built"}
              \cup Errors

Task == [kind : {"build", "into", "push"}, image : Images]
Tombstone == [kind |-> "tombstone", image |-> NoImage]
NoTask == [kind |-> "none", image |-> NoImage]

BuildTask(i) == [kind |-> "build", image |-> i]
IntoTask(i) == [kind |-> "into", image |-> i]
PushTask(i) == [kind |-> "push", image |-> i]

Plan == [status : [Images -> Statuses], roots : Seq(Images)]

PoolAssumption ==
    /\ NoImage \notin Images
    /\ Parent \in [Images -> Images \cup {NoImage}]
    /\ IsFiniteSet(Builders) /\ IsFiniteSet(Pushers)
    /\ Builders # {} /\ Pushers # {}
    /\ Builders \cap Pushers = {}
    /\ Retries \in Nat
    /\ Push \in BOOLEAN
    /\ Plans \subseteq Plan
    /\ BuildErrors \subseteq {"error", "connection_error"}
    /\ PushErrors \subseteq {"error", "connection_error", "push_error"}
    /\ MaxInterrupts \in Nat
ASSUME PoolAssumption

VARIABLES
    status,      \* image.status
    queue,       \* contents of the two Queue objects
    unfinished,  \* Queue.unfinished_tasks of the two
    pc,          \* where each worker is; see ThreadStates
    task,        \* the task each worker holds
    attempt,     \* its attempts so far at that task
    success,     \* task.success
    pending,     \* the followups it still has to put
    stop,        \* worker.should_stop
    mpc,         \* where the main thread is; see MainStates
    listed,      \* `workers`, the threads join_many knows
    good,        \* image_statuses_good, as the summary fixed it
    interrupts,  \* how often Ctrl-C was pressed
    forced,      \* main stopped waiting for a live thread
    handed,      \* history: images a BuildTask was put for
    builds,      \* history: docker builds begun, per image
    built,       \* history: images whose docker build succeeded
    pushed       \* history: images the registry accepted

threadVars == <<pc, task, attempt, success, pending>>
queueVars == <<queue, unfinished>>
history == <<handed, builds, built, pushed>>
mainVars == <<mpc, listed, good, interrupts, forced>>
vars == <<status, queueVars, threadVars, stop, mainVars, history>>

ThreadStates ==
    { "new",       \* not started
      "check",     \* at `while not self.should_stop`
      "get",       \* in queue.get()
      "attempt",   \* at the head of the `for attempt` loop
      "run",       \* in task.run(); for a push: waiting for the registry
      "building",  \* in BuildTask.builder, status is "building"
      "tail",      \* builder returned, run has not read the status yet
      "after",     \* the attempts are over
      "putting",   \* in the loop over task.followups
      "buried",    \* ended by a tombstone
      "stopped" }  \* ended by should_stop

(* A worker holds a task from get() to task_done(). *)
Busy == {"attempt", "run", "building", "tail", "after", "putting"}
Ended == {"buried", "stopped"}

MainStates ==
    { "planning",    \* build_queue has not returned
      "start",       \* next: start a thread
      "list",        \* next: append it to `workers`
      "poll_build",  \* reading queue.unfinished_tasks
      "poll_push",   \* the first was zero: reading push_queue.unfinished_tasks
      "tomb_push", "tomb_build",              \* putting the tombstones
      "join",                                 \* join_many, no Ctrl-C so far
      "stop_all", "stop_push", "stop_build",  \* in the KeyboardInterrupt handler
      "join_timed",                           \* join_many after a Ctrl-C
      "summary", "cleanup",
      "exited",      \* run_build returned
      "killed" }     \* Ctrl-C escaped from run_build

TypeOK ==
    /\ status \in [Images -> Statuses]
    /\ queue \in [Queues -> Seq(Task \cup {Tombstone})]
    /\ unfinished \in [Queues -> Nat]
    /\ pc \in [Workers -> ThreadStates]
    /\ task \in [Workers -> Task \cup {NoTask}]
    /\ attempt \in [Workers -> Nat]
    /\ success \in [Workers -> BOOLEAN]
    /\ pending \in [Workers -> SUBSET Task]
    /\ stop \in [Workers -> BOOLEAN]
    /\ mpc \in MainStates
    /\ listed \subseteq Workers
    /\ good \subseteq Images
    /\ interrupts \in Nat
    /\ forced \in BOOLEAN
    /\ handed \subseteq Images
    /\ builds \in [Images -> Nat]
    /\ built \subseteq Images
    /\ pushed \subseteq Images

InitFrom(plan) ==
    /\ status = plan.status
    /\ queue = [q \in Queues |->
                  IF q = "build"
                    THEN [k \in DOMAIN plan.roots |-> BuildTask(plan.roots[k])]
                    ELSE <<>>]
    /\ unfinished = [q \in Queues |-> IF q = "build" THEN Len(plan.roots) ELSE 0]
    /\ handed = {plan.roots[k] : k \in DOMAIN plan.roots}

ThreadInit ==
    /\ pc = [w \in Workers |-> "new"]
    /\ task = [w \in Workers |-> NoTask]
    /\ attempt = [w \in Workers |-> 0]
    /\ success = [w \in Workers |-> FALSE]
    /\ pending = [w \in Workers |-> {}]
    /\ stop = [w \in Workers |-> FALSE]
    /\ listed = {}
    /\ good = {}
    /\ interrupts = 0
    /\ forced = FALSE
    /\ builds = [i \in Images |-> 0]
    /\ built = {}
    /\ pushed = {}

Init == /\ \E plan \in Plans : InitFrom(plan)
        /\ ThreadInit
        /\ mpc = "start"

-----------------------------------------------------------------------------
(* The Queue *)

Put(q, entry) ==
    /\ queue' = [queue EXCEPT ![q] = Append(@, entry)]
    /\ unfinished' = [unfinished EXCEPT ![q] = @ + 1]

Served(w) == IF w \in Builders THEN "build" ELSE "push"

-----------------------------------------------------------------------------
(* WorkerThread.run.  The threads are daemons: they run until the process    *)
(* is gone.                                                                 *)

Alive == mpc \notin {"exited", "killed"}

Goto(w, from, to) ==
    /\ Alive
    /\ pc[w] = from
    /\ pc' = [pc EXCEPT ![w] = to]

CheckStop(w) ==
    /\ Goto(w, "check", IF stop[w] THEN "stopped" ELSE "get")
    /\ UNCHANGED <<status, queueVars, task, attempt, success, pending, stop,
                   mainVars, history>>

(* Variant: the entry taken stays in the queue. *)
GetTask_Peek(w) ==
    /\ Goto(w, "get", "attempt")
    /\ queue[Served(w)] # <<>>
    /\ Head(queue[Served(w)]) # Tombstone
    /\ task' = [task EXCEPT ![w] = Head(queue[Served(w)])]
    /\ UNCHANGED <<status, queueVars, attempt, success, pending, stop, mainVars,
                   history>>

(* Variant: the task is acknowledged on get, and again by task_done. *)
GetTask_Acks(w) ==
    /\ Goto(w, "get", "attempt")
    /\ queue[Served(w)] # <<>>
    /\ Head(queue[Served(w)]) # Tombstone
    /\ queue' = [queue EXCEPT ![Served(w)] = Tail(@)]
    /\ unfinished' = [unfinished EXCEPT ![Served(w)] = @ - 1]
    /\ task' = [task EXCEPT ![w] = Head(queue[Served(w)])]
    /\ UNCHANGED <<status, attempt, success, pending, stop, mainVars, history>>

GetTask(w) ==
    LET q == Served(w)
    IN /\ Goto(w, "get", "attempt")
       /\ queue[q] # <<>>
       /\ Head(queue[q]) # Tombstone
       /\ queue' = [queue EXCEPT ![q] = Tail(@)]
       /\ task' = [task EXCEPT ![w] = Head(queue[q])]
       /\ UNCHANGED <<status, unfinished, attempt, success, pending, stop,
                      mainVars, history>>

(* Variant: the thread keeps the tombstone to itself. *)
GetTombstone_Kept(w) ==
    /\ Goto(w, "get", "buried")
    /\ queue[Served(w)] # <<>>
    /\ Head(queue[Served(w)]) = Tombstone
    /\ queue' = [queue EXCEPT ![Served(w)] = Tail(@)]
    /\ UNCHANGED <<status, unfinished, task, attempt, success, pending, stop,
                   mainVars, history>>

(* The tombstone is taken and put back: the counter grows by one, and       *)
(* task_done is not called.                                                 *)
GetTombstone(w) ==
    LET q == Served(w)
    IN /\ Goto(w, "get", "buried")
       /\ queue[q] # <<>>
       /\ Head(queue[q]) = Tombstone
       /\ queue' = [queue EXCEPT ![q] = Append(Tail(@), Tombstone)]
       /\ unfinished' = [unfinished EXCEPT ![q] = @ + 1]
       /\ UNCHANGED <<status, task, attempt, success, pending, stop, mainVars,
                      history>>

(* Variant: one attempt too many. *)
BeginAttempt_OneMore(w) ==
    /\ Goto(w, "attempt",
            IF attempt[w] > Retries + 1 \/ stop[w] THEN "after" ELSE "run")
    /\ UNCHANGED <<status, queueVars, task, attempt, success, pending, stop,
                   mainVars, history>>

BeginAttempt(w) ==
    /\ Goto(w, "attempt", IF attempt[w] > Retries \/ stop[w] THEN "after" ELSE "run")
    /\ UNCHANGED <<status, queueVars, task, attempt, success, pending, stop,
                   mainVars, history>>

(* task.run() returned without success or raised: task.reset(), next attempt *)
TryAgain(w, from) ==
    /\ Goto(w, from, "attempt")
    /\ attempt' = [attempt EXCEPT ![w] = @ + 1]
    /\ success' = [success EXCEPT ![w] = FALSE]

Succeed(w, from) ==
    /\ Goto(w, from, "after")
    /\ success' = [success EXCEPT ![w] = TRUE]
    /\ UNCHANGED attempt

-----------------------------------------------------------------------------
(* BuildTask.run and builder *)

Runs(w, kind) == pc[w] = "run" /\ task[w].kind = kind

ParentFailed(i) == Parent[i] # NoImage /\ status[Parent[i]] \in Errors

SkipBuild(w) ==
    /\ Runs(w, "build")
    /\ status[task[w].image] \in {"skipped", "unmatched"}
    /\ Goto(w, "run", "tail")
    /\ UNCHANGED <<status, queueVars, task, attempt, success, pending, stop,
                   mainVars, history>>

FailForParent(w) ==
    LET i == task[w].image
    IN /\ Runs(w, "build")
       /\ status[i] \notin {"skipped", "unmatched"}
       /\ ParentFailed(i)
       /\ status' = [status EXCEPT ![i] = "parent_error"]
       /\ Goto(w, "run", "tail")
       /\ UNCHANGED <<queueVars, task, attempt, success, pending, stop, mainVars,
                      history>>

StartBuild(w) ==
    LET i == task[w].image
    IN /\ Runs(w, "build")
       /\ status[i] \notin {"skipped", "unmatched"}
       /\ ~ParentFailed(i)
       /\ status' = [status EXCEPT ![i] = "building"]
       /\ builds' = [builds EXCEPT ![i] = @ + 1]
       /\ Goto(w, "run", "building")
       /\ UNCHANGED <<queueVars, task, attempt, success, pending, stop, mainVars,
                      handed, built, pushed>>

(* The sources were fetched and docker built (and squashed) the image. *)
BuildOK(w) ==
    LET i == task[w].image
    IN /\ Goto(w, "building", "tail")
       /\ status' = [status EXCEPT ![i] = "built"]
       /\ built' = built \cup {i}
       /\ UNCHANGED <<queueVars, task, attempt, success, pending, stop, mainVars,
                      handed, builds, pushed>>

(* Docker, the squash or process_source failed, or mkdir did: the status     *)
(* tells which.                                                             *)
BuildFails(w) ==
    /\ Goto(w, "building", "tail")
    /\ \E e \in BuildErrors :
          status' = [status EXCEPT ![task[w].image] = e]
    /\ UNCHANGED <<queueVars, task, attempt, success, pending, stop, mainVars,
                   history>>

(* An exception process_source or tarfile does not catch leaves builder and  *)
(* run; the status stays "building".                                        *)
BuildRaises(w) ==
    /\ TryAgain(w, "building")
    /\ UNCHANGED <<status, queueVars, task, pending, stop, mainVars, history>>

(* The end of BuildTask.run reads the status it finds by now. *)
ReadStatus(w) ==
    /\ pc[w] = "tail"
    /\ IF status[task[w].image] \in {"built", "skipped"}
         THEN Succeed(w, "tail")
         ELSE TryAgain(w, "tail")
    /\ UNCHANGED <<status, queueVars, task, pending, stop, mainVars, history>>

-----------------------------------------------------------------------------
(* PushIntoQueueTask.run, PushTask.run *)

PushInto(w) ==
    /\ Runs(w, "into")
    /\ Put("push", PushTask(task[w].image))
    /\ Succeed(w, "run")
    /\ UNCHANGED <<status, task, pending, stop, mainVars, history>>

(* Variant: a failed push leaves the status as it was. *)
FinishPush_Silent(w) ==
    /\ Runs(w, "push")
    /\ \/ pushed' = pushed \cup {task[w].image} /\ Succeed(w, "run")
       \/ UNCHANGED pushed /\ TryAgain(w, "run")
    /\ UNCHANGED <<status, queueVars, task, pending, stop, mainVars, handed, builds,
                   built>>

(* The registry answers: done, an errorDetail, a lost connection, or         *)
(* something else.  `finally` then judges by the status, old or new.        *)
FinishPush(w) ==
    LET i == task[w].image
    IN /\ Runs(w, "push")
       /\ \E answer \in {"ok"} \cup PushErrors :
             /\ status' = IF answer = "ok" THEN status
                          ELSE [status EXCEPT ![i] = answer]
             /\ pushed' = IF answer = "ok" THEN pushed \cup {i} ELSE pushed
       /\ IF status'[i] \notin Errors \cup {"unprocessed"}
            THEN Succeed(w, "run")
            ELSE TryAgain(w, "run")
       /\ UNCHANGED <<queueVars, task, pending, stop, mainVars, handed, builds, built>>

-----------------------------------------------------------------------------
(* After the attempts: the followups, then task_done *)

(* Variant: an image is pushed or has its children built, not both. *)
Followups_Either(t) ==
    IF t.kind # "build" THEN {}
    ELSE IF Push THEN {IntoTask(t.image)}
    ELSE {BuildTask(c) : c \in {c \in Images : /\ Parent[c] = t.image
                                               /\ status[c] # "unmatched"}}

(* The children come in the order of a dict: any order. *)
Followups(t) ==
    IF t.kind = "build"
      THEN {IntoTask(i) : i \in {j \in {t.image} : Push}}
             \cup {BuildTask(c) : c \in {c \in Images : /\ Parent[c] = t.image
                                                        /\ status[c] # "unmatched"}}
      ELSE {}

(* Variant: followups whether or not the task succeeded. *)
LeaveAttempts_AnyResult(w) ==
    /\ Goto(w, "after", "putting")
    /\ pending' = [pending EXCEPT ![w] = Followups(task[w])]
    /\ UNCHANGED <<status, queueVars, task, attempt, success, stop, mainVars,
                   history>>

LeaveAttempts(w) ==
    /\ Goto(w, "after", "putting")
    /\ pending' = [pending EXCEPT ![w] =
                     IF success[w] /\ ~stop[w] THEN Followups(task[w]) ELSE {}]
    /\ UNCHANGED <<status, queueVars, task, attempt, success, stop, mainVars,
                   history>>

PutFollowup(w) ==
    \E t \in pending[w] :
        /\ Goto(w, "putting", "putting")
        /\ t.kind = "build" => \A u \in pending[w] : u.kind = "build"
        /\ Put(Served(w), t)
        /\ pending' = [pending EXCEPT ![w] = @ \ {t}]
        /\ handed' = handed \cup {i \in {t.image} : t.kind = "build"}
        /\ UNCHANGED <<status, task, attempt, success, stop, mainVars, builds, built,
                       pushed>>

(* Variant: task_done is not in a `finally`, but reached on success only. *)
TaskDone_OnSuccess(w) ==
    /\ Goto(w, "putting", "check")
    /\ pending[w] = {}
    /\ unfinished' = IF success[w]
                       THEN [unfinished EXCEPT ![Served(w)] = @ - 1]
                       ELSE unfinished
    /\ task' = [task EXCEPT ![w] = NoTask]
    /\ attempt' = [attempt EXCEPT ![w] = 0]
    /\ success' = [success EXCEPT ![w] = FALSE]
    /\ UNCHANGED <<status, queue, pending, stop, mainVars, history>>

TaskDone(w) ==
    /\ Goto(w, "putting", "check")
    /\ pending[w] = {}
    /\ unfinished' = [unfinished EXCEPT ![Served(w)] = @ - 1]
    /\ task' = [task EXCEPT ![w] = NoTask]
    /\ attempt' = [attempt EXCEPT ![w] = 0]
    /\ success' = [success EXCEPT ![w] = FALSE]
    /\ UNCHANGED <<status, queue, pending, stop, mainVars, history>>

Worker(w) ==
    \/ CheckStop(w) \/ GetTask(w) \/ GetTombstone(w) \/ BeginAttempt(w)
    \/ SkipBuild(w) \/ FailForParent(w) \/ StartBuild(w)
    \/ BuildOK(w) \/ BuildFails(w) \/ BuildRaises(w) \/ ReadStatus(w)
    \/ PushInto(w) \/ FinishPush(w)
    \/ LeaveAttempts(w) \/ PutFollowup(w) \/ TaskDone(w)

-----------------------------------------------------------------------------
(* run_build and join_many, in the main thread *)

MainGoto(from, to) == mpc = from /\ mpc' = to

Started == {w \in Workers : pc[w] # "new"}

(* worker.start(): the builders first, then the pushers. *)
StartThread(w) ==
    /\ MainGoto("start", "list")
    /\ pc[w] = "new"
    /\ w \in Pushers => Builders \subseteq Started
    /\ pc' = [pc EXCEPT ![w] = "check"]
    /\ UNCHANGED <<status, queueVars, task, attempt, success, pending, stop,
                   listed, good, interrupts, forced, history>>

(* workers.append(worker) *)
ListThread ==
    /\ MainGoto("list", IF Started = Workers THEN "poll_build" ELSE "start")
    /\ listed' = Started
    /\ UNCHANGED <<status, queueVars, threadVars, stop, good, interrupts, forced,
                   history>>

(* while queue.unfinished_tasks or push_queue.unfinished_tasks: two reads,  *)
(* the second only if the first gave zero.                                  *)
PollBuild ==
    /\ mpc = "poll_build"
    /\ unfinished["build"] = 0
    /\ mpc' = "poll_push"
    /\ UNCHANGED <<status, queueVars, threadVars, stop, listed, good, interrupts,
                   forced, history>>

(* Variant: `and` for `or`. *)
PollPush_And ==
    /\ MainGoto("poll_push", "tomb_push")
    /\ UNCHANGED <<status, queueVars, threadVars, stop, listed, good, interrupts,
                   forced, history>>

PollPush ==
    /\ MainGoto("poll_push", IF unfinished["push"] = 0 THEN "tomb_push" ELSE "poll_build")
    /\ UNCHANGED <<status, queueVars, threadVars, stop, listed, good, interrupts,
                   forced, history>>

(* push_queue.put(tombstone); queue.put(tombstone), on either path *)
PutTombstone ==
    /\ \/ MainGoto("tomb_push", "tomb_build") /\ Put("push", Tombstone)
       \/ MainGoto("tomb_build", "join") /\ Put("build", Tombstone)
       \/ MainGoto("stop_push", "stop_build") /\ Put("push", Tombstone)
       \/ MainGoto("stop_build", "join_timed") /\ Put("build", Tombstone)
    /\ UNCHANGED <<status, threadVars, stop, listed, good, interrupts, forced,
                   history>>

(* Variant: only the build threads are joined. *)
AllJoined_Builders == \A w \in listed \cap Builders : pc[w] \in Ended

AllJoined == \A w \in listed : pc[w] \in Ended

Join ==
    /\ mpc \in {"join", "join_timed"}
    /\ AllJoined
    /\ mpc' = "summary"
    /\ UNCHANGED <<status, queueVars, threadVars, stop, listed, good, interrupts,
                   forced, history>>

(* t.join(0xffff) gives up after 18 hours. *)
JoinTimesOut ==
    /\ MainGoto("join_timed", "summary")
    /\ ~AllJoined
    /\ forced' = TRUE
    /\ UNCHANGED <<status, queueVars, threadVars, stop, listed, good, interrupts,
                   history>>

(* The handler sets should_stop of one listed worker after the other. *)
StopWorker ==
    /\ mpc = "stop_all"
    /\ \E w \in listed : ~stop[w] /\ stop' = [stop EXCEPT ![w] = TRUE]
    /\ UNCHANGED <<status, queueVars, threadVars, mainVars, history>>

StoppedAll ==
    /\ MainGoto("stop_all", "stop_push")
    /\ \A w \in listed : stop[w]
    /\ UNCHANGED <<status, queueVars, threadVars, stop, listed, good, interrupts,
                   forced, history>>

Summarise ==
    /\ MainGoto("summary", "cleanup")
    /\ good' = {i \in Images : status[i] = "built"}
    /\ UNCHANGED <<status, queueVars, threadVars, stop, listed, interrupts, forced,
                   history>>

Cleanup ==
    /\ MainGoto("cleanup", "exited")
    /\ UNCHANGED <<status, queueVars, threadVars, stop, listed, good, interrupts,
                   forced, history>>

Main == \/ \E w \in Workers : StartThread(w)
        \/ ListThread \/ PollBuild \/ PollPush \/ PutTombstone \/ Join
        \/ StopWorker \/ StoppedAll \/ Summarise \/ Cleanup

(* Where a KeyboardInterrupt takes the main thread: to the handler of        *)
(* run_build, from there or from the plain join to the second half of        *)
(* join_many, from there past it ("Force exits"), and else out of the        *)
(* program.                                                                 *)
InterruptTarget ==
    CASE mpc \in {"start", "list", "poll_build", "poll_push", "tomb_push",
                  "tomb_build"} -> "stop_all"
      [] mpc \in {"stop_all", "stop_push", "stop_build", "join"} -> "join_timed"
      [] mpc = "join_timed" -> "summary"
      [] OTHER -> "killed"

Interrupt ==
    /\ mpc \notin {"planning", "exited", "killed"}
    /\ interrupts < MaxInterrupts
    /\ interrupts' = interrupts + 1
    /\ mpc' = InterruptTarget
    /\ forced' = (forced \/ (mpc = "join_timed" /\ ~AllJoined))
    /\ UNCHANGED <<status, queueVars, threadVars, stop, listed, good, history>>

Terminated == mpc \in {"exited", "killed"} /\ UNCHANGED vars

Next == \/ \E w \in Workers : Worker(w)
        \/ Main
        \/ JoinTimesOut
        \/ Interrupt
        \/ Terminated

(* The main thread and every worker keep running; docker and the registry    *)
(* answer or the client's read times out.  Nobody has to press Ctrl-C and     *)
(* no join has to time out.                                                 *)
Fairness == WF_vars(Main) /\ \A w \in Workers : WF_vars(Worker(w))

Spec == Init /\ [][Next]_vars /\ Fairness

-----------------------------------------------------------------------------
(* The plans that hand every image to the workers at most once.  Outside of   *)
(* them an image can be queued as a root and again as a followup.            *)

Roots(plan) == {plan.roots[k] : k \in DOMAIN plan.roots}

(* What build_queue queues: each matched image that has no parent, or has a   *)
(* skipped one, and each once.                                              *)
Queued(plan) ==
    /\ \A i \in Images : plan.status[i] \in {"unmatched", "matched", "skipped"}
    /\ \A j, k \in DOMAIN plan.roots : plan.roots[j] = plan.roots[k] => j = k
    /\ Roots(plan) = {i \in Images : /\ plan.status[i] = "matched"
                                     /\ \/ Parent[i] = NoImage
                                        \/ plan.status[Parent[i]] = "skipped"}

(* R holds what the followups may reach from the roots, and no root is below  *)
(* an image of R.                                                           *)
Reaches(plan, R) ==
    /\ Roots(plan) \subseteq R
    /\ \A i \in R : plan.status[i] # "unmatched"
    /\ \A i \in Images : Parent[i] \in R /\ plan.status[i] # "unmatched" => i \in R
    /\ \A i \in Roots(plan) : Parent[i] \notin R

HandsOnce(plan) == Queued(plan) /\ \E R \in SUBSET Images : Reaches(plan, R)

-----------------------------------------------------------------------------
(* Safety *)

(* Queue.unfinished_tasks counts what is queued, what a thread holds, and    *)
(* one for every thread that took the tombstone and put it back.  The poll   *)
(* of run_build relies on it to mean "there is work".                       *)
BusyAt(q) == {w \in Workers : Served(w) = q /\ pc[w] \in Busy}
BuriedAt(q) == {w \in Workers : Served(w) = q /\ pc[w] = "buried"}

UnfinishedCounts ==
    \A q \in Queues :
        unfinished[q] = Len(queue[q]) + Cardinality(BusyAt(q) \cup BuriedAt(q))

(* "sleep until queue is empty" (build.py:1325): without Ctrl-C, the main    *)
(* thread starts to shut down only when no task is queued, running, or still *)
(* to be added by a running one, although it reads the two counters one      *)
(* after the other while tasks move from one queue to the other.            *)
QueuedTasks(q) == {k \in DOMAIN queue[q] : queue[q][k] # Tombstone}

Idle(q) == QueuedTasks(q) = {} /\ BusyAt(q) = {}

ShuttingDown == mpc \in {"tomb_push", "tomb_build", "join", "summary", "cleanup",
                         "exited"}

ShutdownAfterWork ==
    interrupts = 0 /\ ShuttingDown => \A q \in Queues : Idle(q)

(* No two threads ever work on the same image's build. *)
Building(w, i) == task[w] = BuildTask(i)

OneBuildAtATime ==
    \A i \in Images : Cardinality({w \in Workers : Building(w, i)}) <= 1

(* Docker builds an image only on top of a parent that exists: built by this *)
(* run, or deliberately skipped.                                            *)
ParentBuiltFirst ==
    \A w \in Workers : pc[w] = "building" =>
        LET p == Parent[task[w].image]
        IN p = NoImage \/ p \in built \/ status[p] = "skipped"

(* A build that fails is never followed by its children, so "parent_error"   *)
(* has one cause: the parent was built and its push failed before the child  *)
(* was looked at.                                                           *)
ParentErrorOnlyFromPush ==
    \A i \in Images : status[i] = "parent_error" =>
        /\ Push
        /\ Parent[i] \in built
        /\ status[Parent[i]] \in PushErrors

(* "The number of times to retry while building" (config.py:102). *)
BuildsBounded == \A i \in Images : builds[i] <= Retries + 1

(* A run that nobody interrupts accounts for every image: an image is left   *)
(* "matched" only below an image that was not built, and an image whose own  *)
(* build failed has used up its attempts.                                   *)
NothingAbandoned ==
    mpc = "exited" /\ interrupts = 0 =>
        \A i \in Images \ built :
            /\ status[i] = "matched" =>
                 /\ Parent[i] # NoImage
                 /\ Parent[i] \notin built
                 /\ status[Parent[i]] # "skipped"
            /\ builds[i] > 0 /\ status[i] # "parent_error" =>
                 builds[i] = Retries + 1

(* What an uninterrupted run reports as good was built and, with --push, is  *)
(* in the registry.                                                         *)
GoodIsDelivered ==
    mpc = "exited" /\ interrupts = 0 =>
        good \subseteq built /\ (Push => good \subseteq pushed)

(* A Ctrl-C between start() and append() leaves a thread that nobody waits    *)
(* for: never more than one.  If there is none, the result the summary        *)
(* reports is final: nothing changes a status afterwards, however the run was *)
(* stopped, also before all threads were started, as long as nobody forced   *)
(* the exit.                                                                *)
ReportIsFinal ==
    mpc \in {"cleanup", "exited"} /\ ~forced =>
        /\ \A v, w \in Started \ listed : v = w
        /\ Started \subseteq listed => good = {i \in Images : status[i] = "built"}

(* Once built, an image is not built again: its status can only turn into a  *)
(* push failure.                                                            *)
BuiltStaysBuilt ==
    [][\A i \in built :
          status'[i] \in {status[i]} \cup PushErrors]_vars

(* run_build comes to an end by itself, and after one Ctrl-C.  (A second one  *)
(* inside the handler can leave threads without a tombstone; then the joins  *)
(* last until they time out or Ctrl-C is pressed again.)                    *)
Terminates == [](interrupts <= 1) => <>(mpc \in {"exited", "killed"})

=============================================================================
