-------------------------- MODULE BuildPool_proofs --------------------------
(***************************************************************************)
(* What is proved of BuildPool for every set of images, any number of        *)
(* threads, retries and Ctrl-C.  First for any plan: its types, what the      *)
(* counters of the two queues count, and that the polling main thread of      *)
(* run_build never starts to shut the pool down while there is work.  Then    *)
(* for plans that hand out an image once: one build at a time, after the      *)
(* parent, a bounded number of times, and what a run that nobody interrupts   *)
(* has achieved when it ends.                                               *)
(***************************************************************************)
EXTENDS BuildPool, FiniteSetTheorems, SequenceTheorems, TLAPS

(* A worker that has left queue.get() with a task holds a real one. *)
Holding == \A w \in Workers : pc[w] \in Busy => task[w] \in Task

Counted == Busy \cup {"buried"}
Active(q) == {w \in Workers : Served(w) = q /\ pc[w] \in Counted}

(* What the counter of queue q has to be. *)
Counts(q) == unfinished[q] = Len(queue[q]) + Cardinality(Active(q))
Accounting == \A q \in Queues : Counts(q)

(* Between the two reads of the poll the build queue has nothing left and    *)
(* nobody to refill it; after them the push queue has not either.  The Ctrl-C *)
(* path is recognised by the counter of interrupts.                         *)
Quiet ==
    interrupts = 0 =>
        /\ mpc \notin {"stop_all", "stop_push", "stop_build", "join_timed"}
        /\ mpc = "poll_push" => Idle("build")
        /\ ShuttingDown => Idle("build") /\ Idle("push")

IInv == TypeOK /\ Holding /\ Accounting /\ Quiet

-----------------------------------------------------------------------------
(* Putting at the end of a queue and taking its first entry. *)

LEMMA TaskFacts ==
    /\ Tombstone \notin Task
    /\ \A i \in Images : BuildTask(i) \in Task /\ IntoTask(i) \in Task /\ PushTask(i) \in Task
    /\ \A t \in Task : t.image \in Images
BY PoolAssumption DEF PoolAssumption, Task, Tombstone, BuildTask, IntoTask, PushTask

LEMMA ServedQueue == \A w \in Workers : Served(w) \in Queues
BY DEF Served, Queues

(* The entries of a queue stay tasks and tombstones whatever is put. *)
LEMMA PutType ==
    ASSUME TypeOK, NEW q \in Queues, NEW e \in Task \cup {Tombstone}, Put(q, e)
    PROVE  /\ queue' \in [Queues -> Seq(Task \cup {Tombstone})]
           /\ unfinished' \in [Queues -> Nat]
<1>1. queue[q] \in Seq(Task \cup {Tombstone})
  BY DEF TypeOK
<1>2. Append(queue[q], e) \in Seq(Task \cup {Tombstone})
  BY <1>1
<1>3. queue' \in [Queues -> Seq(Task \cup {Tombstone})]
  BY <1>2 DEF TypeOK, Put
<1>4. unfinished' \in [Queues -> Nat]
  BY DEF TypeOK, Put
<1> QED
  BY <1>3, <1>4

LEMMA ActiveFinite == \A q \in Queues : IsFiniteSet(Active(q))
<1>1. IsFiniteSet(Workers)
  BY PoolAssumption, FS_Union DEF PoolAssumption, Workers
<1> QED
  BY <1>1, FS_Subset DEF Active

(* A queue with an active worker has a positive counter. *)
LEMMA CountPositive ==
    ASSUME TypeOK, NEW q \in Queues, Counts(q), NEW w \in Active(q)
    PROVE  unfinished[q] - 1 \in Nat
<1>1. Cardinality(Active(q)) \in Nat /\ Cardinality(Active(q)) # 0
  BY ActiveFinite, FS_CardinalityType, FS_EmptySet
<1>2. queue[q] \in Seq(Task \cup {Tombstone}) /\ unfinished[q] \in Nat
  BY DEF TypeOK
<1>3. Len(queue[q]) \in Nat
  BY <1>2, LenProperties
<1> QED
  BY <1>1, <1>2, <1>3 DEF Counts

LEMMA FollowupsAreTasks ==
    ASSUME NEW t \in Task
    PROVE  Followups(t) \in SUBSET Task
BY TaskFacts DEF Followups, Task

-----------------------------------------------------------------------------
(* TypeOK and Holding.  The counters are natural numbers because Accounting   *)
(* makes the only one that decreases positive.                              *)

(* The pool starts on a plan. *)
Starts(plan) == InitFrom(plan) /\ ThreadInit /\ mpc = "start"

LEMMA StartType ==
    ASSUME NEW plan \in Plan, Starts(plan)
    PROVE  TypeOK /\ Holding
<1>1. InitFrom(plan) /\ ThreadInit /\ mpc = "start"
  BY DEF Starts
<1>3. plan.roots \in Seq(Images) /\ plan.status \in [Images -> Statuses]
  BY DEF Plan
<1>4. [k \in DOMAIN plan.roots |-> BuildTask(plan.roots[k])]
        \in Seq(Task \cup {Tombstone})
  BY <1>3, TaskFacts
<1>5. queue \in [Queues -> Seq(Task \cup {Tombstone})]
  BY <1>1, <1>4 DEF InitFrom
<1>6. unfinished \in [Queues -> Nat]
  BY <1>1, <1>3 DEF InitFrom
<1>7. handed \subseteq Images
  BY <1>1, <1>3 DEF InitFrom
<1>8. status \in [Images -> Statuses]
  BY <1>1, <1>3 DEF InitFrom
<1> QED
  BY <1>1, <1>5, <1>6, <1>7, <1>8
     DEF ThreadInit, TypeOK, Holding, ThreadStates, MainStates, Busy

(* A step of a worker keeps the types, and a busy worker keeps a real task. *)
LEMMA WorkerType ==
    ASSUME TypeOK, Holding, Accounting, NEW w \in Workers, Worker(w)
    PROVE  TypeOK' /\ Holding'
<1> DEFINE q == Served(w)
<1>q. q \in Queues
  BY ServedQueue
<1>s. queue[q] \in Seq(Task \cup {Tombstone})
  BY <1>q DEF TypeOK
<1> USE DEF TypeOK, Holding, Goto, ThreadStates, MainStates, Busy, queueVars,
            mainVars, history
<1>1. CASE CheckStop(w)
  BY <1>1 DEF CheckStop
<1>2. CASE GetTask(w)
  <2>1. Head(queue[q]) \in Task /\ Tail(queue[q]) \in Seq(Task \cup {Tombstone})
    BY <1>2, <1>s, HeadTailProperties DEF GetTask
  <2> QED
    BY <1>2, <2>1, <1>q DEF GetTask
<1>3. CASE GetTombstone(w)
  <2>1. Append(Tail(queue[q]), Tombstone) \in Seq(Task \cup {Tombstone})
    BY <1>3, <1>s, HeadTailProperties DEF GetTombstone
  <2> QED
    BY <1>3, <2>1, <1>q DEF GetTombstone
<1>4. CASE BeginAttempt(w)
  BY <1>4 DEF BeginAttempt
<1>5. CASE SkipBuild(w)
  BY <1>5 DEF SkipBuild
<1>6. CASE FailForParent(w)
  BY <1>6 DEF FailForParent, Statuses, Errors
<1>7. CASE StartBuild(w)
  <2>1. task[w].image \in Images
    BY <1>7, TaskFacts DEF StartBuild, Runs
  <2> QED
    BY <1>7, <2>1 DEF StartBuild, Statuses
<1>8. CASE BuildOK(w)
  <2>1. task[w].image \in Images
    BY <1>8, TaskFacts DEF BuildOK
  <2> QED
    BY <1>8, <2>1 DEF BuildOK, Statuses
<1>9. CASE BuildFails(w)
  <2>1. PICK e \in BuildErrors : status' = [status EXCEPT ![task[w].image] = e]
    BY <1>9 DEF BuildFails
  <2>2. e \in Statuses
    BY PoolAssumption DEF PoolAssumption, Statuses, Errors
  <2>3. status' \in [Images -> Statuses]
    BY <2>1, <2>2
  <2> QED
    BY <1>9, <2>3 DEF BuildFails
<1>10. CASE BuildRaises(w)
  BY <1>10 DEF BuildRaises, TryAgain
<1>11. CASE ReadStatus(w)
  <2>1. CASE Succeed(w, "tail")
    BY <1>11, <2>1 DEF ReadStatus, Succeed
  <2>2. CASE TryAgain(w, "tail")
    BY <1>11, <2>2 DEF ReadStatus, TryAgain
  <2> QED
    BY <1>11, <2>1, <2>2 DEF ReadStatus
<1>12. CASE PushInto(w)
  <2>1. PushTask(task[w].image) \in Task
    BY <1>12, TaskFacts DEF PushInto, Runs
  <2>2. /\ queue' \in [Queues -> Seq(Task \cup {Tombstone})]
        /\ unfinished' \in [Queues -> Nat]
    BY <1>12, <2>1, PutType DEF PushInto, Queues
  <2> QED
    BY <1>12, <2>2 DEF PushInto, Succeed
<1>13. CASE FinishPush(w)
  <2>1. task[w].image \in Images
    BY <1>13, TaskFacts DEF FinishPush, Runs
  <2>2. PICK answer \in {"ok"} \cup PushErrors :
             /\ status' = IF answer = "ok" THEN status
                          ELSE [status EXCEPT ![task[w].image] = answer]
             /\ pushed' = IF answer = "ok" THEN pushed \cup {task[w].image} ELSE pushed
    BY <1>13 DEF FinishPush
  <2>3. answer = "ok" \/ answer \in Statuses
    BY PoolAssumption DEF PoolAssumption, Statuses, Errors
  <2>4. status' \in [Images -> Statuses] /\ pushed' \subseteq Images
    BY <2>1, <2>2, <2>3
  <2> QED
    <3>1. CASE Succeed(w, "run")
      BY <1>13, <2>4, <3>1 DEF FinishPush, Succeed
    <3>2. CASE TryAgain(w, "run")
      BY <1>13, <2>4, <3>2 DEF FinishPush, TryAgain
    <3> QED
      BY <1>13, <3>1, <3>2 DEF FinishPush
<1>14. CASE LeaveAttempts(w)
  <2>1. pending'[w] \subseteq Task
    BY <1>14, FollowupsAreTasks DEF LeaveAttempts
  <2> QED
    BY <1>14, <2>1 DEF LeaveAttempts
<1>15. CASE PutFollowup(w)
  <2>1. PICK t \in pending[w] :
             /\ Put(q, t)
             /\ pending' = [pending EXCEPT ![w] = @ \ {t}]
             /\ handed' = handed \cup {i \in {t.image} : t.kind = "build"}
    BY <1>15 DEF PutFollowup
  <2>2. /\ queue' \in [Queues -> Seq(Task \cup {Tombstone})]
        /\ unfinished' \in [Queues -> Nat]
    BY <1>q, <2>1, PutType
  <2>3. handed' \subseteq Images
    BY <2>1, TaskFacts
  <2> QED
    BY <1>15, <2>1, <2>2, <2>3 DEF PutFollowup
<1>16. CASE TaskDone(w)
  <2>1. w \in Active(q)
    BY <1>16 DEF TaskDone, Active, Counted
  <2>2. unfinished[q] - 1 \in Nat
    BY <2>1, <1>q, <1>s, CountPositive DEF Accounting
  <2> QED
    BY <1>16, <2>2, <1>q DEF TaskDone
<1> QED
  BY <1>1, <1>2, <1>3, <1>4, <1>5, <1>6, <1>7, <1>8, <1>9, <1>10, <1>11, <1>12,
     <1>13, <1>14, <1>15, <1>16 DEF Worker

(* The main thread, Ctrl-C and a join that times out keep both as well. *)
LEMMA MainType ==
    ASSUME TypeOK, Holding, Main \/ JoinTimesOut \/ Interrupt
    PROVE  TypeOK' /\ Holding'
<1> USE DEF TypeOK, Holding, MainGoto, ThreadStates, MainStates, Busy, queueVars,
            threadVars, mainVars, history
<1>1. CASE \E w \in Workers : StartThread(w)
  BY <1>1 DEF StartThread
<1>2. CASE ListThread
  BY <1>2 DEF ListThread, Started
<1>3. CASE PollBuild
  BY <1>3 DEF PollBuild
<1>4. CASE PollPush
  BY <1>4 DEF PollPush
<1>5. CASE PutTombstone
  <2>1. /\ queue' \in [Queues -> Seq(Task \cup {Tombstone})]
        /\ unfinished' \in [Queues -> Nat]
    BY <1>5, PutType DEF PutTombstone, Queues
  <2> QED
    BY <1>5, <2>1 DEF PutTombstone
<1>6. CASE Join
  BY <1>6 DEF Join
<1>7. CASE StopWorker
  BY <1>7 DEF StopWorker
<1>8. CASE StoppedAll
  BY <1>8 DEF StoppedAll
<1>9. CASE Summarise
  BY <1>9 DEF Summarise
<1>10. CASE Cleanup
  BY <1>10 DEF Cleanup
<1>11. CASE JoinTimesOut
  BY <1>11 DEF JoinTimesOut
<1>12. CASE Interrupt
  BY <1>12 DEF Interrupt, InterruptTarget
<1> QED
  BY <1>1, <1>2, <1>3, <1>4, <1>5, <1>6, <1>7, <1>8, <1>9, <1>10, <1>11, <1>12
     DEF Main

-----------------------------------------------------------------------------
(* Accounting *)

(* How the active workers of the queues change with one worker's pc. *)
LEMMA ActiveSame ==
    ASSUME TypeOK, NEW w \in Workers, NEW from, NEW to \in ThreadStates,
           Goto(w, from, to), from \in Counted <=> to \in Counted
    PROVE  \A q \in Queues : Active(q)' = Active(q)
BY DEF TypeOK, Goto, Active

LEMMA ActiveEnter ==
    ASSUME TypeOK, NEW w \in Workers, NEW from, NEW to \in ThreadStates,
           Goto(w, from, to), from \notin Counted, to \in Counted
    PROVE  \A q \in Queues :
              Cardinality(Active(q))' =
                IF q = Served(w) THEN Cardinality(Active(q)) + 1
                                 ELSE Cardinality(Active(q))
<1> SUFFICES ASSUME NEW q \in Queues
             PROVE  Cardinality(Active(q)') =
                      IF q = Served(w) THEN Cardinality(Active(q)) + 1
                                       ELSE Cardinality(Active(q))
  OBVIOUS
<1>1. w \notin Active(q)
  BY DEF Goto, Active
<1>2. Active(q)' = IF q = Served(w) THEN Active(q) \cup {w} ELSE Active(q)
  BY DEF TypeOK, Goto, Active
<1> QED
  BY <1>1, <1>2, ActiveFinite, FS_AddElement

LEMMA ActiveLeave ==
    ASSUME TypeOK, NEW w \in Workers, NEW from, NEW to \in ThreadStates,
           Goto(w, from, to), from \in Counted, to \notin Counted
    PROVE  \A q \in Queues :
              Cardinality(Active(q))' =
                IF q = Served(w) THEN Cardinality(Active(q)) - 1
                                 ELSE Cardinality(Active(q))
<1> SUFFICES ASSUME NEW q \in Queues
             PROVE  Cardinality(Active(q)') =
                      IF q = Served(w) THEN Cardinality(Active(q)) - 1
                                       ELSE Cardinality(Active(q))
  OBVIOUS
<1>1. q = Served(w) => w \in Active(q)
  BY DEF Goto, Active
<1>2. Active(q)' = IF q = Served(w) THEN Active(q) \ {w} ELSE Active(q)
  BY DEF TypeOK, Goto, Active
<1> QED
  BY <1>1, <1>2, ActiveFinite, FS_RemoveElement

(* Putting an entry while nobody starts or ends keeps the account. *)
LEMMA PutCounts ==
    ASSUME TypeOK, Accounting, NEW q \in Queues, NEW e \in Task \cup {Tombstone},
           Put(q, e), \A r \in Queues : Active(r)' = Active(r)
    PROVE  Accounting'
<1> SUFFICES ASSUME NEW r \in Queues
             PROVE  unfinished'[r] = Len(queue'[r]) + Cardinality(Active(r))
  BY DEF Accounting, Counts
<1>1. queue[r] \in Seq(Task \cup {Tombstone}) /\ unfinished[r] \in Nat
  BY DEF TypeOK
<1>2. Len(queue[r]) \in Nat /\ Cardinality(Active(r)) \in Nat
  BY <1>1, ActiveFinite, FS_CardinalityType
<1>3. Len(Append(queue[r], e)) = Len(queue[r]) + 1
  BY <1>1
<1>4. CASE r = q
  BY <1>1, <1>2, <1>3, <1>4 DEF Put, TypeOK, Accounting, Counts
<1>5. CASE r # q
  BY <1>5 DEF Put, TypeOK, Accounting, Counts
<1> QED
  BY <1>4, <1>5

LEMMA WorkerCounts ==
    ASSUME TypeOK, Holding, Accounting, NEW w \in Workers, Worker(w)
    PROVE  Accounting'
<1> DEFINE q == Served(w)
<1>q. q \in Queues
  BY ServedQueue
<1>s. /\ queue[q] \in Seq(Task \cup {Tombstone})
      /\ unfinished[q] \in Nat
      /\ Len(queue[q]) \in Nat
      /\ Cardinality(Active(q)) \in Nat
  BY <1>q, ActiveFinite, FS_CardinalityType DEF TypeOK
<1>1. CASE GetTask(w)
  <2>1. \A r \in Queues :
           Cardinality(Active(r))' =
             IF r = q THEN Cardinality(Active(r)) + 1 ELSE Cardinality(Active(r))
    BY <1>1, ActiveEnter DEF GetTask, Counted, Busy, ThreadStates
  <2>2. Len(Tail(queue[q])) = Len(queue[q]) - 1
    BY <1>1, <1>s, HeadTailProperties DEF GetTask
  <2>3. /\ unfinished' = unfinished
        /\ queue' = [queue EXCEPT ![q] = Tail(@)]
    BY <1>1 DEF GetTask
  <2> SUFFICES ASSUME NEW r \in Queues PROVE Counts(r)'
    BY DEF Accounting
  <2>4. CASE r = q
    <3>1. Counts(q)
      BY <1>q DEF Accounting
    <3>2. Cardinality(Active(q))' = Cardinality(Active(q)) + 1
      BY <2>1, <1>q
    <3>3. Len(queue[q])' = Len(queue[q]) - 1
      BY <2>2, <2>3, <1>q DEF TypeOK
    <3>4. unfinished[q]' = unfinished[q]
      BY <2>3, <1>q DEF TypeOK
    <3> QED
      BY <2>4, <3>1, <3>2, <3>3, <3>4, <1>s DEF Counts
  <2>5. CASE r # q
    BY <2>1, <2>3, <2>5 DEF TypeOK, Accounting, Counts
  <2> QED
    BY <2>4, <2>5
<1>2. CASE GetTombstone(w)
  <2>1. \A r \in Queues :
           Cardinality(Active(r))' =
             IF r = q THEN Cardinality(Active(r)) + 1 ELSE Cardinality(Active(r))
    BY <1>2, ActiveEnter DEF GetTombstone, Counted, Busy, ThreadStates
  <2>2. Len(Append(Tail(queue[q]), Tombstone)) = Len(queue[q])
    <3>1. /\ Tail(queue[q]) \in Seq(Task \cup {Tombstone})
          /\ Len(Tail(queue[q])) = Len(queue[q]) - 1
      BY <1>2, <1>s, HeadTailProperties DEF GetTombstone
    <3> QED
      BY <3>1, <1>s
  <2>3. /\ unfinished' = [unfinished EXCEPT ![q] = @ + 1]
        /\ queue' = [queue EXCEPT ![q] = Append(Tail(@), Tombstone)]
    BY <1>2 DEF GetTombstone
  <2> SUFFICES ASSUME NEW r \in Queues PROVE Counts(r)'
    BY DEF Accounting
  <2>4. CASE r = q
    <3>1. Counts(q)
      BY <1>q DEF Accounting
    <3>2. Cardinality(Active(q))' = Cardinality(Active(q)) + 1
      BY <2>1, <1>q
    <3>3. Len(queue[q])' = Len(queue[q])
      BY <2>2, <2>3, <1>q DEF TypeOK
    <3>4. unfinished[q]' = unfinished[q] + 1
      BY <2>3, <1>q DEF TypeOK
    <3> QED
      BY <2>4, <3>1, <3>2, <3>3, <3>4, <1>s DEF Counts
  <2>5. CASE r # q
    BY <2>1, <2>3, <2>5 DEF TypeOK, Accounting, Counts
  <2> QED
    BY <2>4, <2>5
<1>3. CASE TaskDone(w)
  <2>1. \A r \in Queues :
           Cardinality(Active(r))' =
             IF r = q THEN Cardinality(Active(r)) - 1 ELSE Cardinality(Active(r))
    BY <1>3, ActiveLeave DEF TaskDone, Counted, Busy, ThreadStates
  <2>2. /\ unfinished' = [unfinished EXCEPT ![q] = @ - 1]
        /\ queue' = queue
    BY <1>3 DEF TaskDone
  <2> QED
    BY <2>1, <2>2, <1>q, <1>s DEF TypeOK, Accounting, Counts
<1>4. CASE PushInto(w)
  <2>1. \A r \in Queues : Active(r)' = Active(r)
    BY <1>4, ActiveSame DEF PushInto, Succeed, Counted, Busy, ThreadStates
  <2>2. PushTask(task[w].image) \in Task
    BY <1>4, TaskFacts DEF PushInto, Runs, Holding, Busy
  <2>3. Put("push", PushTask(task[w].image))
    BY <1>4 DEF PushInto
  <2>4. "push" \in Queues
    BY DEF Queues
  <2> QED
    BY <2>1, <2>2, <2>3, <2>4, PutCounts
<1>5. CASE PutFollowup(w)
  <2>1. \A r \in Queues : Active(r)' = Active(r)
    BY <1>5, ActiveSame DEF PutFollowup, Counted, Busy, ThreadStates
  <2>2. PICK t \in pending[w] : Put(q, t)
    BY <1>5 DEF PutFollowup
  <2>3. t \in Task
    BY <2>2 DEF TypeOK
  <2> QED
    BY <1>q, <2>1, <2>2, <2>3, PutCounts
<1>6. CASE \/ CheckStop(w) \/ BeginAttempt(w)
           \/ SkipBuild(w) \/ FailForParent(w) \/ StartBuild(w)
           \/ BuildOK(w) \/ BuildFails(w) \/ BuildRaises(w) \/ ReadStatus(w)
           \/ FinishPush(w) \/ LeaveAttempts(w)
  <2>1. UNCHANGED queueVars
    BY <1>6 DEF CheckStop, BeginAttempt, SkipBuild, FailForParent, StartBuild, BuildOK,
                BuildFails, BuildRaises, ReadStatus, FinishPush, LeaveAttempts,
                queueVars
  <2>2. \E from, to \in ThreadStates :
           Goto(w, from, to) /\ (from \in Counted <=> to \in Counted)
    BY <1>6 DEF CheckStop, BeginAttempt, SkipBuild, FailForParent, StartBuild, BuildOK,
                BuildFails, BuildRaises, ReadStatus, FinishPush, LeaveAttempts,
                TryAgain, Succeed, ThreadStates, Counted, Busy
  <2>3. \A r \in Queues : Active(r)' = Active(r)
    BY <2>2, ActiveSame
  <2> QED
    <3>1. queue' = queue /\ unfinished' = unfinished
      BY <2>1 DEF queueVars
    <3>2. \A r \in Queues : Cardinality(Active(r))' = Cardinality(Active(r))
      BY <2>3
    <3> QED
      BY <3>1, <3>2 DEF Accounting, Counts
<1> QED
  BY <1>1, <1>2, <1>3, <1>4, <1>5, <1>6 DEF Worker

(* The main thread only ever adds tombstones, and starting a thread leaves it *)
(* outside the account.                                                     *)
LEMMA MainCounts ==
    ASSUME TypeOK, Accounting, Main \/ JoinTimesOut \/ Interrupt
    PROVE  Accounting'
<1>1. CASE PutTombstone
  <2>1. \A r \in Queues : Active(r)' = Active(r)
    BY <1>1 DEF PutTombstone, threadVars, Active
  <2>2. PICK q \in Queues : Put(q, Tombstone)
    BY <1>1 DEF PutTombstone, Queues
  <2> QED
    BY <2>1, <2>2, PutCounts
<1>2. CASE ~PutTombstone
  <2>1. queue' = queue /\ unfinished' = unfinished
    BY <1>2 DEF Main, StartThread, ListThread, PollBuild, PollPush, Join, StopWorker,
                StoppedAll, Summarise, Cleanup, JoinTimesOut, Interrupt, queueVars
  <2>2. \A r \in Queues : Active(r)' = Active(r)
    <3>1. CASE \E w \in Workers : StartThread(w)
      BY <3>1 DEF StartThread, TypeOK, Active, Counted, Busy
    <3>2. CASE pc' = pc
      BY <3>2 DEF Active
    <3> QED
      BY <1>2, <3>1, <3>2
         DEF Main, ListThread, PollBuild, PollPush, Join, StopWorker, StoppedAll,
             Summarise, Cleanup, JoinTimesOut, Interrupt, threadVars
  <2>3. \A r \in Queues : Cardinality(Active(r))' = Cardinality(Active(r))
    BY <2>2
  <2> QED
    BY <2>1, <2>3 DEF Accounting, Counts
<1> QED
  BY <1>1, <1>2

LEMMA StartCounts ==
    ASSUME NEW plan \in Plan, Starts(plan)
    PROVE  Accounting
<1> SUFFICES ASSUME NEW q \in Queues PROVE Counts(q)
  BY DEF Accounting
<1>1. InitFrom(plan) /\ ThreadInit
  BY DEF Starts
<1>2. plan.roots \in Seq(Images)
  BY DEF Plan
<1>3. Active(q) = {}
  BY <1>1 DEF ThreadInit, Active, Counted, Busy
<1>4. Cardinality(Active(q)) = 0
  BY <1>3, FS_EmptySet
<1>5. CASE q = "build"
  <2>1. queue[q] = [k \in 1 .. Len(plan.roots) |-> BuildTask(plan.roots[k])]
    BY <1>1, <1>2, <1>5 DEF InitFrom
  <2>2. Len(queue[q]) = Len(plan.roots) /\ unfinished[q] = Len(plan.roots)
    BY <1>1, <1>2, <1>5, <2>1 DEF InitFrom
  <2> QED
    BY <1>2, <1>4, <2>2 DEF Counts
<1>6. CASE q = "push"
  BY <1>1, <1>4, <1>6 DEF InitFrom, Counts
<1> QED
  BY <1>5, <1>6 DEF Queues

-----------------------------------------------------------------------------
(* Quiet *)

(* A worker of an idle queue can only leave its loop: it finds should_stop    *)
(* set, or a tombstone, which it puts back.                                 *)
LEMMA IdleWorker ==
    ASSUME TypeOK, NEW w \in Workers, Worker(w), Idle(Served(w))
    PROVE  CheckStop(w) \/ GetTombstone(w)
<1> DEFINE q == Served(w)
<1>1. pc[w] \notin Busy
  BY DEF Idle, BusyAt
<1>2. ~GetTask(w)
  <2> SUFFICES ASSUME GetTask(w) PROVE FALSE
    OBVIOUS
  <2>1. queue[q] # <<>> /\ Head(queue[q]) # Tombstone
    BY DEF GetTask
  <2>2. queue[q] \in Seq(Task \cup {Tombstone})
    BY ServedQueue DEF TypeOK
  <2>3. 1 \in DOMAIN queue[q] /\ Head(queue[q]) = queue[q][1]
    BY <2>1, <2>2
  <2> QED
    BY <2>1, <2>3 DEF Idle, QueuedTasks
<1> QED
  BY <1>1, <1>2
     DEF Worker, Goto, Runs, BeginAttempt, SkipBuild, FailForParent, StartBuild,
         BuildOK, BuildFails, BuildRaises, ReadStatus, PushInto, FinishPush,
         LeaveAttempts, PutFollowup, TaskDone, Busy, TryAgain, Succeed

LEMMA TombstonesOnly ==
    ASSUME NEW s \in Seq(Task \cup {Tombstone}),
           \A k \in DOMAIN s : s[k] = Tombstone
    PROVE  /\ \A k \in DOMAIN Append(s, Tombstone) : Append(s, Tombstone)[k] = Tombstone
           /\ s # <<>> => \A k \in DOMAIN Append(Tail(s), Tombstone) :
                             Append(Tail(s), Tombstone)[k] = Tombstone
OBVIOUS

(* Such a step leaves every idle queue idle. *)
LEMMA IdleWorkerStable ==
    ASSUME TypeOK, NEW w \in Workers, Worker(w), Idle(Served(w)),
           NEW r \in Queues, Idle(r)
    PROVE  Idle(r)'
<1>1. CheckStop(w) \/ GetTombstone(w)
  BY IdleWorker
<1>2. BusyAt(r)' = {}
  BY <1>1 DEF TypeOK, CheckStop, GetTombstone, Goto, Idle, BusyAt, Busy
<1>3. QueuedTasks(r)' = {}
  <2>1. CASE queue'[r] = queue[r]
    BY <2>1 DEF Idle, QueuedTasks
  <2>2. CASE GetTombstone(w) /\ r = Served(w)
    <3>1. /\ queue[r] \in Seq(Task \cup {Tombstone})
          /\ queue[r] # <<>>
          /\ \A k \in DOMAIN queue[r] : queue[r][k] = Tombstone
      BY <2>2 DEF TypeOK, GetTombstone, Idle, QueuedTasks
    <3>2. queue'[r] = Append(Tail(queue[r]), Tombstone)
      BY <2>2 DEF TypeOK, GetTombstone
    <3> QED
      BY <3>1, <3>2, TombstonesOnly DEF QueuedTasks
  <2> QED
    BY <1>1, <2>1, <2>2 DEF TypeOK, CheckStop, GetTombstone, queueVars
<1> QED
  BY <1>2, <1>3 DEF Idle

(* A push worker never adds to the build queue. *)
LEMMA PusherKeepsBuildIdle ==
    ASSUME TypeOK, NEW w \in Workers, Worker(w), Served(w) = "push", Idle("build")
    PROVE  Idle("build")'
<1>1. queue'["build"] = queue["build"]
  <2>1. CASE GetTask(w) \/ GetTombstone(w)
    BY <2>1 DEF TypeOK, GetTask, GetTombstone, Queues
  <2>2. CASE PushInto(w) \/ PutFollowup(w)
    BY <2>2 DEF TypeOK, PushInto, PutFollowup, Put, Queues
  <2>3. CASE ~(GetTask(w) \/ GetTombstone(w) \/ PushInto(w) \/ PutFollowup(w))
    BY <2>3 DEF Worker, CheckStop, BeginAttempt, SkipBuild, FailForParent, StartBuild,
                BuildOK, BuildFails, BuildRaises, ReadStatus, FinishPush,
                LeaveAttempts, TaskDone, queueVars
  <2> QED
    BY <2>1, <2>2, <2>3
<1>2. \E to : pc' = [pc EXCEPT ![w] = to]
  BY DEF Worker, Goto, TryAgain, Succeed, CheckStop, GetTask, GetTombstone,
         BeginAttempt, SkipBuild, FailForParent, StartBuild, BuildOK, BuildFails,
         BuildRaises, ReadStatus, PushInto, FinishPush, LeaveAttempts, PutFollowup,
         TaskDone
<1>3. BusyAt("build")' = BusyAt("build")
  BY <1>2 DEF TypeOK, BusyAt
<1> QED
  BY <1>1, <1>3 DEF Idle, QueuedTasks

LEMMA WorkerQuiet ==
    ASSUME TypeOK, Quiet, NEW w \in Workers, Worker(w)
    PROVE  Quiet'
<1>1. mpc' = mpc /\ interrupts' = interrupts
  BY DEF Worker, CheckStop, GetTask, GetTombstone, BeginAttempt, SkipBuild,
         FailForParent, StartBuild, BuildOK, BuildFails, BuildRaises, ReadStatus,
         PushInto, FinishPush, LeaveAttempts, PutFollowup, TaskDone, mainVars
<1>2. ShuttingDown' = ShuttingDown
  BY <1>1 DEF ShuttingDown
<1>3. Idle("build") => Idle("build")'
  <2>1. CASE Served(w) = "build"
    BY <2>1, IdleWorkerStable DEF Queues
  <2>2. CASE Served(w) = "push"
    BY <2>2, PusherKeepsBuildIdle
  <2> QED
    BY <2>1, <2>2 DEF Served
<1>4. Idle("build") /\ Idle("push") => Idle("push")'
  BY IdleWorkerStable DEF Queues, Served
<1> QED
  BY <1>1, <1>2, <1>3, <1>4 DEF Quiet

(* A counter at zero means an idle queue: this is what the poll relies on. *)
LEMMA ZeroIsIdle ==
    ASSUME TypeOK, Accounting, NEW q \in Queues, unfinished[q] = 0
    PROVE  Idle(q)
<1>1. /\ queue[q] \in Seq(Task \cup {Tombstone})
      /\ Len(queue[q]) \in Nat
      /\ IsFiniteSet(Active(q))
      /\ Cardinality(Active(q)) \in Nat
  BY ActiveFinite, FS_CardinalityType DEF TypeOK
<1>2. Len(queue[q]) = 0 /\ Cardinality(Active(q)) = 0
  BY <1>1 DEF Accounting, Counts
<1>3. Active(q) = {}
  BY <1>1, <1>2, FS_EmptySet
<1>4. queue[q] = <<>>
  BY <1>1, <1>2
<1> QED
  BY <1>3, <1>4 DEF Idle, QueuedTasks, BusyAt, Active, Counted

LEMMA TombstoneKeepsIdle ==
    ASSUME TypeOK, PutTombstone, NEW r \in Queues, Idle(r)
    PROVE  Idle(r)'
<1>1. BusyAt(r)' = {}
  BY DEF PutTombstone, threadVars, Idle, BusyAt
<1>2. /\ queue[r] \in Seq(Task \cup {Tombstone})
      /\ \A k \in DOMAIN queue[r] : queue[r][k] = Tombstone
  BY DEF TypeOK, Idle, QueuedTasks
<1>3. PICK q \in Queues : Put(q, Tombstone)
  BY DEF PutTombstone, Queues
<1>4. queue'[r] = queue[r] \/ queue'[r] = Append(queue[r], Tombstone)
  BY <1>3 DEF Put, TypeOK
<1>5. \A k \in DOMAIN queue'[r] : queue'[r][k] = Tombstone
  BY <1>2, <1>4, TombstonesOnly
<1> QED
  BY <1>1, <1>5 DEF Idle, QueuedTasks

LEMMA MainQuiet ==
    ASSUME TypeOK, Accounting, Quiet, Main \/ JoinTimesOut \/ Interrupt
    PROVE  Quiet'
<1> SUFFICES ASSUME interrupts' = 0 PROVE Quiet'
  BY DEF Quiet
<1>i. CASE Interrupt
  BY <1>i DEF Interrupt, TypeOK
<1> SUFFICES ASSUME ~Interrupt PROVE Quiet'
  BY <1>i
<1>0. interrupts = 0
  BY DEF Main, StartThread, ListThread, PollBuild, PollPush, PutTombstone, Join,
         StopWorker, StoppedAll, Summarise, Cleanup, JoinTimesOut, mainVars
<1>1. \A r \in Queues : Idle(r) => Idle(r)'
  <2> SUFFICES ASSUME NEW r \in Queues, Idle(r) PROVE Idle(r)'
    OBVIOUS
  <2>1. CASE PutTombstone
    BY <2>1, TombstoneKeepsIdle
  <2>2. CASE \E w \in Workers : StartThread(w)
    BY <2>2 DEF StartThread, queueVars, TypeOK, Idle, QueuedTasks, BusyAt, Busy
  <2>3. CASE queue' = queue /\ pc' = pc
    BY <2>3 DEF Idle, QueuedTasks, BusyAt
  <2> QED
    BY <2>1, <2>2, <2>3
       DEF Main, ListThread, PollBuild, PollPush, Join, StopWorker, StoppedAll,
           Summarise, Cleanup, JoinTimesOut, queueVars, threadVars
<1>2. CASE PollBuild
  <2>1. Idle("build")
    BY <1>2, ZeroIsIdle DEF PollBuild, Queues
  <2> QED
    BY <1>1, <1>2, <2>1 DEF PollBuild, Quiet, ShuttingDown, Queues
<1>3. CASE PollPush
  <2>1. unfinished["push"] = 0 => Idle("push")
    BY ZeroIsIdle DEF Queues
  <2>2. Idle("build")
    BY <1>0, <1>3 DEF PollPush, MainGoto, Quiet
  <2> QED
    BY <1>1, <1>3, <2>1, <2>2 DEF PollPush, MainGoto, Quiet, ShuttingDown, Queues
<1>4. CASE \/ \E w \in Workers : StartThread(w)
           \/ ListThread \/ StopWorker \/ StoppedAll \/ JoinTimesOut
  BY <1>0, <1>4
     DEF Quiet, ShuttingDown, StartThread, ListThread, StopWorker, StoppedAll,
         JoinTimesOut, MainGoto, mainVars
<1>5. CASE PutTombstone \/ Join \/ Summarise \/ Cleanup
  <2>1. ShuttingDown /\ ShuttingDown' /\ mpc' # "poll_push"
    BY <1>0, <1>5
       DEF Quiet, ShuttingDown, PutTombstone, Join, Summarise, Cleanup, MainGoto
  <2>2. mpc' \notin {"stop_all", "stop_push", "stop_build", "join_timed"}
    BY <2>1 DEF ShuttingDown
  <2> QED
    BY <1>0, <1>1, <2>1, <2>2 DEF Quiet, Queues
<1> QED
  BY <1>2, <1>3, <1>4, <1>5 DEF Main

-----------------------------------------------------------------------------
(* The invariant, and what it implies. *)

LEMMA StartIInv == \A plan \in Plan : Starts(plan) => IInv
<1> SUFFICES ASSUME NEW plan \in Plan, Starts(plan) PROVE IInv
  OBVIOUS
<1>1. Quiet
  BY DEF Starts, Quiet, ShuttingDown
<1> QED
  BY <1>1, StartType, StartCounts DEF IInv

LEMMA InitIInv == Init => IInv
BY StartIInv, PoolAssumption DEF Init, Starts, PoolAssumption

LEMMA NextIInv == IInv /\ [Next]_vars => IInv'
<1> SUFFICES ASSUME IInv, [Next]_vars PROVE IInv'
  OBVIOUS
<1> USE DEF IInv
<1>1. CASE \E w \in Workers : Worker(w)
  BY <1>1, WorkerType, WorkerCounts, WorkerQuiet
<1>2. CASE Main \/ JoinTimesOut \/ Interrupt
  BY <1>2, MainType, MainCounts, MainQuiet
<1>3. CASE UNCHANGED vars
  <2> USE <1>3 DEF vars, queueVars, threadVars, mainVars, history
  <2>1. TypeOK' /\ Holding'
    BY DEF TypeOK, Holding
  <2>2. \A r \in Queues : Active(r)' = Active(r) /\ Idle(r)' = Idle(r)
    BY DEF Active, Idle, QueuedTasks, BusyAt
  <2>3. Accounting'
    BY <2>2 DEF Accounting, Counts
  <2>4. Quiet'
    BY <2>2 DEF Quiet, ShuttingDown, Queues
  <2> QED
    BY <2>1, <2>3, <2>4
<1> QED
  BY <1>1, <1>2, <1>3 DEF Next, Terminated

THEOREM Invariance == Spec => []IInv
BY InitIInv, NextIInv, PTL DEF Spec

(* The variables stay in their types: in particular no counter of a queue     *)
(* goes below zero, for any plan and any number of threads.                 *)
THEOREM TypeCorrect == Spec => []TypeOK
<1>1. IInv => TypeOK
  BY DEF IInv
<1> QED
  BY <1>1, Invariance, PTL

(* Queue.unfinished_tasks counts the queued entries, the tasks in the hands   *)
(* of a thread, and the threads that met a tombstone, whatever tasks fail,    *)
(* are retried or are cut short by Ctrl-C.                                  *)
THEOREM UnfinishedCounted == Spec => []UnfinishedCounts
<1>1. IInv => UnfinishedCounts
  <2> SUFFICES ASSUME IInv, NEW q \in Queues
               PROVE  unfinished[q] = Len(queue[q])
                                        + Cardinality(BusyAt(q) \cup BuriedAt(q))
    BY DEF UnfinishedCounts
  <2>1. Active(q) = BusyAt(q) \cup BuriedAt(q)
    BY DEF Active, Counted, BusyAt, BuriedAt
  <2> QED
    BY <2>1 DEF IInv, Accounting, Counts
<1> QED
  BY <1>1, Invariance, PTL

(* Without Ctrl-C, run_build puts the tombstones only when no task is queued  *)
(* or held by a thread, although it reads the two counters at two different   *)
(* moments.                                                                 *)
THEOREM NoEarlyShutdown == Spec => []ShutdownAfterWork
<1>1. IInv => ShutdownAfterWork
  BY DEF IInv, Quiet, ShutdownAfterWork, Queues
<1> QED
  BY <1>1, Invariance, PTL

-----------------------------------------------------------------------------
(* The report *)

(* Only a started thread is listed, and from the summary on, unless the exit  *)
(* was forced, every listed thread has ended.  Then no listed thread can      *)
(* change a status, whether the join was plain or followed a Ctrl-C.  Between *)
(* two starts every started thread is listed; after a Ctrl-C no thread is     *)
(* started any more.                                                        *)
Report ==
    /\ listed \subseteq Started
    /\ \A v, w \in Started \ listed : v = w
    /\ mpc = "start" => Started \subseteq listed
    /\ mpc \in {"summary", "cleanup", "exited"} /\ ~forced => AllJoined
    /\ ReportIsFinal

(* A thread takes steps when it was started, until it has ended. *)
LEMMA WorkerNotEnded ==
    ASSUME NEW w \in Workers, Worker(w)
    PROVE  pc[w] \notin Ended /\ pc[w] # "new"
BY DEF Worker, CheckStop, GetTask, GetTombstone, BeginAttempt, SkipBuild,
       FailForParent, StartBuild, BuildOK, BuildFails, BuildRaises, ReadStatus,
       PushInto, FinishPush, LeaveAttempts, PutFollowup, TaskDone, Goto, Runs,
       TryAgain, Succeed, Ended

(* A step of a worker moves its own pc, never back to "new", and leaves the   *)
(* main thread alone.                                                       *)
LEMMA WorkerMoves ==
    ASSUME NEW w \in Workers, Worker(w)
    PROVE  /\ \E to \in ThreadStates \ {"new"} : pc' = [pc EXCEPT ![w] = to]
           /\ UNCHANGED <<stop, mainVars>>
<1>1. UNCHANGED <<stop, mainVars>>
  BY DEF Worker, CheckStop, GetTask, GetTombstone, BeginAttempt, SkipBuild,
         FailForParent, StartBuild, BuildOK, BuildFails, BuildRaises, ReadStatus,
         PushInto, FinishPush, LeaveAttempts, PutFollowup, TaskDone
<1>2. \E to \in ThreadStates \ {"new"} : pc' = [pc EXCEPT ![w] = to]
  BY DEF Worker, CheckStop, GetTask, GetTombstone, BeginAttempt, SkipBuild,
         FailForParent, StartBuild, BuildOK, BuildFails, BuildRaises, ReadStatus,
         PushInto, FinishPush, LeaveAttempts, PutFollowup, TaskDone, Goto,
         TryAgain, Succeed, ThreadStates
<1> QED
  BY <1>1, <1>2

LEMMA WorkerReport ==
    ASSUME TypeOK, Report, NEW w \in Workers, Worker(w)
    PROVE  Report'
<1>1. PICK to \in ThreadStates \ {"new"} : pc' = [pc EXCEPT ![w] = to]
  BY WorkerMoves
<1>2. UNCHANGED <<mpc, listed, good, forced>>
  BY WorkerMoves DEF mainVars
<1>3. Started' = Started
  BY <1>1, WorkerNotEnded DEF Started, TypeOK
<1>4. w \in listed => mpc \notin {"summary", "cleanup", "exited"} \/ forced
  BY WorkerNotEnded DEF Report, AllJoined
<1>5. (mpc \in {"summary", "cleanup", "exited"} /\ ~forced => AllJoined)'
  BY <1>1, <1>2, <1>4 DEF Report, AllJoined, TypeOK
<1>6. w \in Started
  BY WorkerNotEnded DEF Started
<1>7. ReportIsFinal'
  BY <1>2, <1>3, <1>4, <1>6 DEF ReportIsFinal, Report
<1> QED
  BY <1>2, <1>3, <1>5, <1>7 DEF Report

LEMMA MainReport ==
    ASSUME TypeOK, Report, Main \/ JoinTimesOut \/ Interrupt
    PROVE  Report'
<1> USE DEF Report, ReportIsFinal, AllJoined, MainGoto, threadVars
<1>1. CASE \E w \in Workers : StartThread(w)
  BY <1>1 DEF StartThread, Started, TypeOK
<1>2. CASE ListThread
  BY <1>2 DEF ListThread, Started
<1>3. CASE PollBuild \/ PollPush \/ PutTombstone
  BY <1>3 DEF PollBuild, PollPush, PutTombstone, Started
<1>4. CASE Join
  BY <1>4 DEF Join, Started
<1>5. CASE StopWorker \/ StoppedAll
  BY <1>5 DEF StopWorker, StoppedAll, Started, mainVars
<1>6. CASE Summarise
  BY <1>6 DEF Summarise, Started
<1>7. CASE Cleanup
  BY <1>7 DEF Cleanup, Started
<1>8. CASE JoinTimesOut
  BY <1>8 DEF JoinTimesOut, Started
<1>9. CASE Interrupt
  BY <1>9 DEF Interrupt, InterruptTarget, Started, TypeOK, MainStates
<1> QED
  BY <1>1, <1>2, <1>3, <1>4, <1>5, <1>6, <1>7, <1>8, <1>9 DEF Main

LEMMA NextReport == TypeOK /\ Report /\ [Next]_vars => Report'
<1> SUFFICES ASSUME TypeOK, Report, [Next]_vars PROVE Report'
  OBVIOUS
<1>1. CASE UNCHANGED vars
  BY <1>1 DEF vars, threadVars, mainVars, Report, ReportIsFinal, AllJoined, Started
<1> QED
  BY <1>1, WorkerReport, MainReport DEF Next, Terminated

(* What the summary calls good stays exactly what is built, whenever the run  *)
(* was stopped, unless the exit was forced or the first Ctrl-C came between   *)
(* start() and append() of a thread, and then that thread alone is not        *)
(* waited for: for every plan, every number of threads and of Ctrl-C.         *)
THEOREM ReportFinal == Spec => []ReportIsFinal
<1>1. Init => Report
  BY DEF Init, ThreadInit, Report, ReportIsFinal, Started
<1>2. Report => ReportIsFinal
  BY DEF Report
<1> QED
  BY <1>1, <1>2, NextReport, TypeCorrect, PTL DEF Spec

-----------------------------------------------------------------------------
(***************************************************************************)
(* Plans that hand every image to the workers at most once, with Ctrl-C at   *)
(* any moment.                                                              *)
(***************************************************************************)

(* Where a task can be.  A BuildTask waits until its attempts are over and    *)
(* its followups are fixed.                                                 *)
InQueue(q, t) == \E k \in DOMAIN queue[q] : queue[q][k] = t

Waiting(i) == \/ InQueue("build", BuildTask(i))
              \/ \E w \in Workers : task[w] = BuildTask(i) /\ pc[w] # "putting"

PushUnderway(i) ==
    \/ InQueue("build", IntoTask(i)) \/ InQueue("push", PushTask(i))
    \/ \E w \in Workers : task[w] \in {IntoTask(i), PushTask(i)}

(* An image whose children and whose push may follow. *)
Fit(plan, i) == i \in built \/ plan.status[i] = "skipped"

-----------------------------------------------------------------------------
(* The invariant.  First what holds of each thread.                          *)

(* What it may hold, and when. *)
Shape(w) ==
    /\ pc[w] \in Busy <=> task[w] # NoTask
    /\ task[w].kind \in {"build", "into"} => w \in Builders
    /\ pc[w] \in {"building", "tail"} => task[w].kind = "build"
    /\ success[w] => pc[w] \in {"after", "putting"}
    /\ pending[w] # {} => pc[w] = "putting" /\ task[w].kind = "build"

(* Every build of an image is an attempt of the one thread that holds its     *)
(* task.                                                                    *)
Tries(w) ==
    /\ attempt[w] <= Retries + 1
    /\ pc[w] \in {"run", "building", "tail"} => attempt[w] <= Retries
    /\ task[w] = NoTask => attempt[w] = 0
    /\ task[w].kind = "build" /\ pc[w] \in {"attempt", "run"} =>
          builds[task[w].image] <= attempt[w]
    /\ task[w].kind = "build" /\ pc[w] \in {"building", "tail"} =>
          builds[task[w].image] <= attempt[w] + 1

AtWork(plan, w) ==
    task[w].kind = "build" =>
        /\ task[w].image \in handed
        /\ task[w].image \in built => pc[w] \in {"tail", "after", "putting"}
        /\ pc[w] = "building" => status[task[w].image] = "building"
        /\ success[w] => Fit(plan, task[w].image)

Followed(plan, w) ==
    \A t \in pending[w] :
        /\ t.kind \in {"build", "into"}
        /\ Fit(plan, task[w].image)
        /\ t.kind = "into" => Push /\ t.image = task[w].image
        /\ t.kind = "build" => /\ Parent[t.image] = task[w].image
                               /\ plan.status[t.image] # "unmatched"
                               /\ t.image \notin handed

Thread(plan, w) == Shape(w) /\ Tries(w) /\ AtWork(plan, w) /\ Followed(plan, w)

(* A build task exists once. *)
QueuedOnce ==
    \A j, k \in DOMAIN queue["build"] :
        queue["build"][j].kind = "build" /\ queue["build"][k] = queue["build"][j] => j = k

Once ==
    /\ QueuedOnce
    /\ \A w \in Workers : task[w].kind = "build" => ~InQueue("build", task[w])
    /\ \A v, w \in Workers : task[w].kind = "build" /\ task[v] = task[w] => v = w

(* An image comes from build_queue, or from its parent when that is done with *)
(* its attempts.                                                            *)
Handing(plan, R) ==
    /\ \A t \in Task : InQueue("build", t) => t.kind \in {"build", "into"}
    /\ \A t \in Task : InQueue("push", t) => t.kind = "push"
    /\ Roots(plan) \subseteq handed
    /\ handed \subseteq R
    /\ \A i \in Images : InQueue("build", BuildTask(i)) => i \in handed
    /\ \A i \in handed \ Roots(plan) : Parent[i] \in handed /\ ~Waiting(Parent[i])

(* What becomes of the status the plan gave an image. *)
Fresh(i) == i \notin handed \/ InQueue("build", BuildTask(i))

Fate(plan, i) ==
    /\ status[i] = "unmatched" <=> plan.status[i] = "unmatched"
    /\ status[i] = "skipped" => plan.status[i] = "skipped"
    /\ plan.status[i] # "matched" => builds[i] = 0 /\ i \notin built
    /\ plan.status[i] = "skipped" =>
          /\ status[i] \in {"skipped"} \cup PushErrors
          /\ i \notin handed \/ Waiting(i) => status[i] = "skipped"
    /\ plan.status[i] = "matched" /\ Fresh(i) =>
          status[i] = "matched" /\ builds[i] = 0 /\ i \notin built
    /\ i \in built => status[i] \in {"built"} \cup PushErrors
    /\ i \in built /\ status[i] # "built" => Push /\ ~Waiting(i)
    /\ status[i] = "built" => i \in built
    /\ builds[i] <= Retries + 1

(* A push never meets an unfinished build of the same image. *)
Pushing(plan, i) ==
    PushUnderway(i) => Push /\ Fit(plan, i) /\ i \in handed /\ ~Waiting(i)

ParentThere(plan, R, i) ==
    i \in handed /\ plan.status[i] = "matched" =>
        \/ Parent[i] = NoImage
        \/ Parent[i] \in built
        \/ plan.status[Parent[i]] = "skipped" /\ Parent[i] \notin R

ErrorOfParent(i) ==
    status[i] = "parent_error" =>
        Push /\ Parent[i] \in built /\ status[Parent[i]] \in PushErrors

Image(plan, R, i) ==
    Fate(plan, i) /\ Pushing(plan, i) /\ ParentThere(plan, R, i) /\ ErrorOfParent(i)

Hypotheses(plan, R) == plan \in Plan /\ Queued(plan) /\ R \subseteq Images /\ Reaches(plan, R)

PlanInv(plan, R) ==
    /\ Once
    /\ Handing(plan, R)
    /\ \A w \in Workers : Thread(plan, w)
    /\ \A i \in Images : Image(plan, R, i)

-----------------------------------------------------------------------------
LEMMA TaskKinds ==
    /\ \A i \in Images :
          /\ BuildTask(i) \in Task /\ BuildTask(i).kind = "build" /\ BuildTask(i).image = i
          /\ IntoTask(i) \in Task /\ IntoTask(i).kind = "into" /\ IntoTask(i).image = i
          /\ PushTask(i) \in Task /\ PushTask(i).kind = "push" /\ PushTask(i).image = i
    /\ \A t \in Task :
          /\ t.image \in Images
          /\ t.kind \in {"build", "into", "push"}
          /\ t.kind = "build" => t = BuildTask(t.image)
          /\ t.kind = "into" => t = IntoTask(t.image)
          /\ t.kind = "push" => t = PushTask(t.image)
    /\ Tombstone \notin Task /\ Tombstone.kind = "tombstone"
    /\ NoTask \notin Task /\ NoTask.kind = "none"
BY PoolAssumption DEF PoolAssumption, Task, Tombstone, NoTask, BuildTask, IntoTask, PushTask

(* Where an entry is after it was put, and where the first one is after it    *)
(* was taken.                                                               *)
LEMMA PutEntry ==
    ASSUME TypeOK, NEW q \in Queues, NEW e \in Task \cup {Tombstone}, Put(q, e)
    PROVE  /\ \A r \in Queues, t \in Task :
                 InQueue(r, t)' <=> InQueue(r, t) \/ (r = q /\ t = e)
           /\ QueuedOnce /\ (q = "build" /\ e.kind = "build" => ~InQueue(q, e)) => QueuedOnce'
<1>1. /\ queue[q] \in Seq(Task \cup {Tombstone})
      /\ Append(queue[q], e) \in Seq(Task \cup {Tombstone})
      /\ Len(Append(queue[q], e)) = Len(queue[q]) + 1
      /\ \A k \in 1 .. Len(queue[q]) : Append(queue[q], e)[k] = queue[q][k]
      /\ Append(queue[q], e)[Len(queue[q]) + 1] = e
      /\ DOMAIN queue[q] = 1 .. Len(queue[q])
      /\ DOMAIN Append(queue[q], e) = 1 .. (Len(queue[q]) + 1)
      /\ Len(queue[q]) \in Nat
  BY DEF TypeOK
<1>2. queue'[q] = Append(queue[q], e) /\ \A r \in Queues : r # q => queue'[r] = queue[r]
  BY DEF TypeOK, Put
<1>3. ASSUME NEW r \in Queues, NEW t \in Task
      PROVE  InQueue(r, t)' <=> InQueue(r, t) \/ (r = q /\ t = e)
  <2>1. CASE r # q
    BY <1>2, <2>1 DEF InQueue
  <2>2. CASE r = q
    <3>1. InQueue(q, t)' => InQueue(q, t) \/ t = e
      BY <1>1, <1>2 DEF InQueue
    <3>2. InQueue(q, t) => InQueue(q, t)'
      BY <1>1, <1>2 DEF InQueue
    <3>3. t = e => InQueue(q, t)'
      <4>1. Len(queue[q]) + 1 \in DOMAIN queue'[q]
        BY <1>1, <1>2
      <4> QED
        BY <1>1, <1>2, <4>1 DEF InQueue
    <3> QED
      BY <2>2, <3>1, <3>2, <3>3
  <2> QED
    BY <2>1, <2>2
<1>4. ASSUME QueuedOnce, q = "build" /\ e.kind = "build" => ~InQueue(q, e)
      PROVE  QueuedOnce'
  <2>1. CASE q # "build"
    BY <1>2, <1>4, <2>1 DEF QueuedOnce, Queues
  <2>2. CASE q = "build"
    <3> SUFFICES ASSUME NEW j \in 1 .. (Len(queue[q]) + 1), NEW k \in 1 .. (Len(queue[q]) + 1),
                        Append(queue[q], e)[j].kind = "build",
                        Append(queue[q], e)[k] = Append(queue[q], e)[j]
                 PROVE  j = k
      BY <1>1, <1>2, <2>2 DEF QueuedOnce
    <3>1. CASE j \in 1 .. Len(queue[q]) /\ k \in 1 .. Len(queue[q])
      BY <1>1, <1>4, <2>2, <3>1 DEF QueuedOnce
    <3>2. CASE j = Len(queue[q]) + 1 /\ k \in 1 .. Len(queue[q])
      BY <1>1, <1>4, <2>2, <3>2 DEF InQueue
    <3>3. CASE k = Len(queue[q]) + 1 /\ j \in 1 .. Len(queue[q])
      BY <1>1, <1>4, <2>2, <3>3 DEF InQueue
    <3> QED
      BY <1>1, <3>1, <3>2, <3>3
  <2> QED
    BY <2>1, <2>2
<1> QED
  BY <1>3, <1>4

LEMMA TakeEntry ==
    ASSUME TypeOK, QueuedOnce, NEW q \in Queues, queue[q] # <<>>,
           queue' = [queue EXCEPT ![q] = Tail(@)]
    PROVE  /\ InQueue(q, Head(queue[q]))
           /\ \A r \in Queues, t \in Task : InQueue(r, t)' => InQueue(r, t)
           /\ \A r \in Queues, t \in Task :
                 InQueue(r, t) => InQueue(r, t)' \/ (r = q /\ t = Head(queue[q]))
           /\ \A t \in Task :
                 q = "build" /\ t.kind = "build" /\ t = Head(queue[q]) => ~InQueue(q, t)'
           /\ QueuedOnce'
<1> DEFINE s == queue[q]
<1>1. /\ s \in Seq(Task \cup {Tombstone})
      /\ Len(s) \in Nat /\ Len(s) # 0
      /\ Head(s) = s[1]
      /\ DOMAIN s = 1 .. Len(s)
      /\ DOMAIN Tail(s) = 1 .. (Len(s) - 1)
      /\ \A k \in 1 .. (Len(s) - 1) : Tail(s)[k] = s[k + 1]
  BY DEF TypeOK
<1>2. queue'[q] = Tail(s) /\ \A r \in Queues : r # q => queue'[r] = queue[r]
  BY DEF TypeOK
<1> HIDE DEF s
<1>3. InQueue(q, Head(s))
  BY <1>1 DEF InQueue, s
<1>4. ASSUME NEW r \in Queues, NEW t \in Task, InQueue(r, t)' PROVE InQueue(r, t)
  <2>1. CASE r # q
    BY <1>2, <1>4, <2>1 DEF InQueue
  <2>2. CASE r = q
    <3>1. PICK k \in 1 .. (Len(s) - 1) : Tail(s)[k] = t
      BY <1>1, <1>2, <1>4, <2>2 DEF InQueue
    <3>2. k + 1 \in DOMAIN s /\ s[k + 1] = t
      BY <1>1, <3>1
    <3> QED
      BY <2>2, <3>2 DEF InQueue, s
  <2> QED
    BY <2>1, <2>2
<1>5. ASSUME NEW r \in Queues, NEW t \in Task, InQueue(r, t), ~(r = q /\ t = Head(s))
      PROVE  InQueue(r, t)'
  <2>1. CASE r # q
    BY <1>2, <1>5, <2>1 DEF InQueue
  <2>2. CASE r = q
    <3>1. PICK k \in 1 .. Len(s) : s[k] = t
      BY <1>1, <1>5, <2>2 DEF InQueue, s
    <3>2. k # 1
      BY <1>1, <1>5, <2>2, <3>1
    <3>3. k - 1 \in 1 .. (Len(s) - 1) /\ Tail(s)[k - 1] = t
      BY <1>1, <3>1, <3>2
    <3> QED
      BY <1>1, <1>2, <2>2, <3>3 DEF InQueue
  <2> QED
    BY <2>1, <2>2
<1>6. ASSUME q = "build"
      PROVE  /\ QueuedOnce'
             /\ \A t \in Task : t.kind = "build" /\ t = Head(s) => ~InQueue(q, t)'
  <2>1. \A j, k \in 1 .. Len(s) : s[j].kind = "build" /\ s[k] = s[j] => j = k
    BY <1>1, <1>6 DEF QueuedOnce, s
  <2>2. QueuedOnce'
    <3> SUFFICES ASSUME NEW j \in 1 .. (Len(s) - 1), NEW k \in 1 .. (Len(s) - 1),
                        Tail(s)[j].kind = "build", Tail(s)[k] = Tail(s)[j]
                 PROVE  j = k
      BY <1>1, <1>2, <1>6 DEF QueuedOnce
    <3>1. j + 1 = k + 1
      BY <1>1, <2>1
    <3> QED
      BY <3>1
  <2>3. ASSUME NEW t \in Task, t.kind = "build", t = Head(s), InQueue(q, t)' PROVE FALSE
    <3>1. PICK k \in 1 .. (Len(s) - 1) : Tail(s)[k] = t
      BY <1>1, <1>2, <2>3 DEF InQueue
    <3>2. k + 1 \in 1 .. Len(s) /\ 1 \in 1 .. Len(s) /\ s[k + 1] = s[1]
      BY <1>1, <2>3, <3>1
    <3>3. k + 1 = 1
      BY <1>1, <2>1, <2>3, <3>2
    <3> QED
      BY <3>1, <3>3
  <2> QED
    BY <2>2, <2>3
<1>7. q # "build" => QueuedOnce'
  BY <1>2 DEF QueuedOnce, Queues
<1> QED
  BY <1>3, <1>4, <1>5, <1>6, <1>7 DEF s

-----------------------------------------------------------------------------
(* Steps of a thread that move no task, no status and no history. *)

(* What the steps of a thread leave to the other threads. *)
Others(w) ==
    \A v \in Workers \ {w} :
        /\ pc'[v] = pc[v] /\ task'[v] = task[v] /\ attempt'[v] = attempt[v]
        /\ success'[v] = success[v] /\ pending'[v] = pending[v]

LEMMA OwnStep ==
    ASSUME NEW plan, NEW R, TypeOK, PlanInv(plan, R), NEW w \in Workers, Others(w),
           UNCHANGED <<status, queue, history>>,
           task'[w] \in {task[w], NoTask},
           task[w].kind = "build" /\ pc[w] = "putting" /\ task'[w] = task[w] =>
               pc'[w] = "putting",
           Thread(plan, w)'
    PROVE  PlanInv(plan, R)'
<1> USE DEF PlanInv, Others, history
<1>1. \A q, t : InQueue(q, t)' <=> InQueue(q, t)
  BY DEF InQueue
<1>2. \A v \in Workers, t \in Task : task'[v] = t => task[v] = t
  BY TaskKinds
<1>3. \A i \in Images : Waiting(i)' => Waiting(i)
  BY <1>1, <1>2, TaskKinds DEF Waiting
<1>4. \A i \in Images : PushUnderway(i)' => PushUnderway(i)
  BY <1>1, <1>2, TaskKinds DEF PushUnderway
<1>5. QueuedOnce'
  BY DEF Once, QueuedOnce
<1>6. Once'
  BY <1>1, <1>2, <1>5, TaskKinds DEF Once
<1>7. Handing(plan, R)'
  <2>1. handed \subseteq Images
    BY DEF TypeOK
  <2> QED
    BY <1>1, <1>3, <2>1, TaskKinds DEF Handing
<1>8. ASSUME NEW v \in Workers PROVE Thread(plan, v)'
  <2>1. CASE v = w
    BY <2>1
  <2>2. CASE v # w
    BY <2>2 DEF Thread, Shape, Tries, AtWork, Followed, Fit
  <2> QED
    BY <2>1, <2>2
<1>9. ASSUME NEW i \in Images PROVE Image(plan, R, i)'
  <2>1. Fate(plan, i)'
    BY <1>1, <1>3, <1>9 DEF Image, Fate, Fresh
  <2>2. Pushing(plan, i)'
    BY <1>3, <1>4, <1>9 DEF Image, Pushing, Fit
  <2> QED
    BY <1>9, <2>1, <2>2 DEF Image, ParentThere, ErrorOfParent
<1> QED
  BY <1>6, <1>7, <1>8, <1>9

(* The actions of this kind. *)
LEMMA OwnActions ==
    ASSUME NEW plan, NEW R, TypeOK, Hypotheses(plan, R), PlanInv(plan, R),
           NEW w \in Workers,
           \/ CheckStop(w) \/ BeginAttempt(w) \/ SkipBuild(w) \/ BuildRaises(w)
           \/ ReadStatus(w) \/ LeaveAttempts(w) \/ TaskDone(w)
    PROVE  PlanInv(plan, R)'
<1>1. Thread(plan, w)
  BY DEF PlanInv
<1> DEFINE i == task[w].image
<1>2. /\ task[w] \in Task \cup {NoTask}
      /\ task[w] # NoTask => i \in Images
      /\ attempt[w] \in Nat /\ Retries \in Nat
      /\ \A j \in Images : builds[j] \in Nat
  BY TaskKinds, PoolAssumption DEF TypeOK, PoolAssumption
<1>3. task[w] # NoTask => Image(plan, R, i)
  BY <1>2 DEF PlanInv
<1>wait. task[w].kind = "build" /\ pc[w] # "putting" => Waiting(i)
  BY <1>2, TaskKinds DEF Waiting
<1> HIDE DEF i
<1>w. /\ Others(w)
      /\ UNCHANGED <<status, queue, history>>
      /\ task'[w] \in {task[w], NoTask}
      /\ task[w].kind = "build" /\ pc[w] = "putting" /\ task'[w] = task[w] =>
               pc'[w] = "putting"
  BY TaskKinds DEF Others, TypeOK, CheckStop, BeginAttempt, SkipBuild, BuildRaises, ReadStatus, LeaveAttempts,
     TaskDone, Goto, TryAgain, Succeed, Runs, queueVars, history
<1> USE DEF TypeOK, Thread, Shape, Tries, AtWork, Followed, Fit, history, Goto, queueVars, Busy
<1>4. CASE CheckStop(w)
  <2>1. Thread(plan, w)'
    BY <1>1, <1>2, <1>4 DEF CheckStop
  <2> QED
    BY <1>w, <2>1, OwnStep
<1>5. CASE BeginAttempt(w)
  <2>1. Thread(plan, w)'
    BY <1>1, <1>2, <1>5 DEF BeginAttempt
  <2> QED
    BY <1>w, <2>1, OwnStep
<1>6. CASE SkipBuild(w)
  <2>1. Thread(plan, w)'
    BY <1>1, <1>2, <1>6 DEF SkipBuild, Runs
  <2> QED
    BY <1>w, <2>1, OwnStep
<1>7. CASE BuildRaises(w)
  <2>1. Thread(plan, w)'
    BY <1>1, <1>2, <1>7 DEF BuildRaises, TryAgain
  <2> QED
    BY <1>w, <2>1, OwnStep
<1>8. CASE ReadStatus(w)
  <2>1. Thread(plan, w)'
    <3>1. CASE status[i] \in {"built", "skipped"}
      BY <1>1, <1>2, <1>3, <1>8, <3>1 DEF ReadStatus, Succeed, Image, Fate, i
    <3>2. CASE status[i] \notin {"built", "skipped"}
      <4>1. task[w].kind = "build" /\ pc[w] = "tail" /\ task[w] \in Task
        BY <1>1, <1>2, <1>8, TaskKinds DEF ReadStatus
      <4>2. i \notin built
        BY <1>2, <1>3, <1>wait, <3>2, <4>1, TaskKinds DEF Image, Fate
      <4>3. TryAgain(w, "tail")
        BY <1>8, <3>2 DEF ReadStatus, i
      <4> QED
        BY <1>1, <1>2, <1>8, <4>1, <4>2, <4>3 DEF ReadStatus, TryAgain, i
    <3> QED
      BY <3>1, <3>2
  <2> QED
    BY <1>w, <2>1, OwnStep
<1>9. CASE LeaveAttempts(w)
  <2>1. ASSUME success[w], task[w].kind = "build", NEW c \in Images,
               Parent[c] = i, status[c] # "unmatched"
        PROVE  plan.status[c] # "unmatched" /\ c \notin handed
    <3>1. plan.status[c] # "unmatched"
      BY <2>1 DEF PlanInv, Image, Fate
    <3>2. i \in handed /\ Waiting(i) /\ handed \subseteq R
      BY <1>1, <1>9, <1>wait, <2>1 DEF LeaveAttempts, PlanInv, Handing, i
    <3>3. c \notin Roots(plan)
      BY <2>1, <3>2 DEF Hypotheses, Reaches
    <3> QED
      BY <2>1, <3>1, <3>2, <3>3 DEF PlanInv, Handing
  <2>2. pending'[w] # {} => success[w] /\ task[w].kind = "build"
    BY <1>2, <1>9 DEF LeaveAttempts, Followups
  <2>3. pending'[w] # {} => Fit(plan, i)
    BY <1>1, <2>2 DEF i
  <2>4. ASSUME NEW t \in pending'[w]
        PROVE  \/ t = IntoTask(i) /\ Push
               \/ \E c \in Images : t = BuildTask(c) /\ Parent[c] = i /\ status[c] # "unmatched"
    BY <1>9, <2>2, <2>4 DEF LeaveAttempts, Followups, i
  <2>5. Followed(plan, w)'
    <3> SUFFICES ASSUME NEW t \in pending'[w]
                 PROVE  /\ t.kind \in {"build", "into"}
                        /\ Fit(plan, i)
                        /\ t.kind = "into" => Push /\ t.image = i
                        /\ t.kind = "build" => /\ Parent[t.image] = i
                                               /\ plan.status[t.image] # "unmatched"
                                               /\ t.image \notin handed
      BY <1>9 DEF LeaveAttempts, i
    <3>1. i \in Images
      BY <1>2, <2>2, TaskKinds
    <3> QED
      BY <2>1, <2>2, <2>3, <2>4, <3>1, TaskKinds
  <2>6. Thread(plan, w)'
    BY <1>1, <1>2, <1>9, <2>2, <2>5, TaskKinds DEF LeaveAttempts
  <2> QED
    BY <1>w, <2>6, OwnStep
<1>10. CASE TaskDone(w)
  <2>1. Thread(plan, w)'
    BY <1>1, <1>2, <1>10, TaskKinds DEF TaskDone
  <2> QED
    BY <1>w, <2>1, OwnStep
<1> QED
  BY <1>4, <1>5, <1>6, <1>7, <1>8, <1>9, <1>10
-----------------------------------------------------------------------------
(* Steps that build: they change the status of one image, whose task no other *)
(* thread has.                                                              *)

LEMMA BuildStep ==
    ASSUME NEW plan, NEW R, TypeOK, PlanInv(plan, R), NEW w \in Workers, Others(w),
           NEW i \in Images, task[w] = BuildTask(i), i \notin built,
           pc[w] # "putting", pc'[w] # "putting",
           UNCHANGED <<queue, handed>>, task'[w] = task[w],
           \A j \in Images \ {i} : /\ status'[j] = status[j]
                                   /\ builds'[j] = builds[j]
                                   /\ j \in built' <=> j \in built,
           Thread(plan, w)', Fate(plan, i)', ErrorOfParent(i)'
    PROVE  PlanInv(plan, R)'
<1> USE DEF PlanInv, Others
<1>1. \A q, t : InQueue(q, t)' <=> InQueue(q, t)
  BY DEF InQueue
<1>2. /\ \A v \in Workers : task'[v] = task[v]
      /\ \A v \in Workers : pc'[v] = "putting" <=> pc[v] = "putting"
  OBVIOUS
<1>3. \A j \in Images : Waiting(j)' <=> Waiting(j)
  BY <1>1, <1>2 DEF Waiting
<1>4. \A j \in Images : PushUnderway(j)' <=> PushUnderway(j)
  BY <1>1, <1>2 DEF PushUnderway
<1>t. handed \subseteq Images /\ built \subseteq Images /\ \A v \in Workers : task[v] \in Task \cup {NoTask}
  BY DEF TypeOK
<1>5. QueuedOnce'
  BY DEF Once, QueuedOnce
<1>6. Once'
  BY <1>1, <1>2, <1>5 DEF Once
<1>7. Handing(plan, R)'
  BY <1>1, <1>3, <1>t, TaskKinds DEF Handing
<1>b. i \notin built /\ Waiting(i) /\ ~PushUnderway(i)
  <2>1. Waiting(i)
    BY DEF Waiting
  <2> QED
    BY <2>1 DEF Image, Pushing
<1>8. ASSUME NEW v \in Workers PROVE Thread(plan, v)'
  <2>1. CASE v = w
    BY <2>1
  <2>2. CASE v # w
    <3>1. task[v].kind = "build" => task[v].image # i /\ task[v].image \in Images
      BY <1>t, <2>2, TaskKinds DEF Once
    <3>2. Thread(plan, v) /\ Shape(v)' /\ Tries(v)'
      BY <2>2, <3>1 DEF Thread, Shape, Tries
    <3>3. AtWork(plan, v)'
      BY <1>b, <2>2, <3>1, <3>2 DEF Thread, AtWork, Fit
    <3>4. Followed(plan, v)'
      BY <1>b, <2>2, <3>1, <3>2 DEF Thread, Shape, Followed, Fit
    <3> QED
      BY <3>2, <3>3, <3>4 DEF Thread
  <2> QED
    BY <2>1, <2>2
<1>9. ASSUME NEW j \in Images PROVE Image(plan, R, j)'
  <2>1. Fate(plan, j)'
    BY <1>1, <1>3, <1>9 DEF Image, Fate, Fresh
  <2>2. Pushing(plan, j)'
    BY <1>3, <1>4, <1>9, <1>b DEF Image, Pushing, Fit
  <2>3. ParentThere(plan, R, j)'
    BY <1>b, <1>9, <1>t DEF Image, ParentThere
  <2>4. ErrorOfParent(j)'
    BY <1>b, <1>9, <1>t DEF Image, ErrorOfParent
  <2> QED
    BY <2>1, <2>2, <2>3, <2>4 DEF Image
<1> QED
  BY <1>6, <1>7, <1>8, <1>9

LEMMA BuildActions ==
    ASSUME NEW plan, NEW R, TypeOK, Hypotheses(plan, R), PlanInv(plan, R),
           NEW w \in Workers,
           FailForParent(w) \/ StartBuild(w) \/ BuildOK(w) \/ BuildFails(w)
    PROVE  PlanInv(plan, R)'
<1>1. /\ Thread(plan, w)
      /\ task[w].kind = "build"
      /\ pc[w] \in {"run", "building"}
  BY DEF PlanInv, Thread, Shape, FailForParent, StartBuild, BuildOK, BuildFails, Runs, Goto
<1>2. task[w] \in Task
  BY <1>1, TaskKinds DEF TypeOK
<1>3. PICK i \in Images : i = task[w].image /\ task[w] = BuildTask(i)
  BY <1>1, <1>2, TaskKinds
<1>4. i \notin built /\ i \in handed
  BY <1>1, <1>3 DEF Thread, AtWork
<1>5. Image(plan, R, i)
  BY DEF PlanInv
<1>6. Waiting(i) /\ ~InQueue("build", BuildTask(i))
  <2>1. Waiting(i)
    BY <1>1, <1>3 DEF Waiting
  <2>2. ~InQueue("build", task[w])
    BY <1>1 DEF PlanInv, Once
  <2> QED
    BY <1>3, <2>1, <2>2
<1>7. status[i] \notin {"skipped", "unmatched"}
  BY <1>1, <1>3 DEF FailForParent, StartBuild, BuildOK, BuildFails, Runs, Goto, Thread, AtWork
<1>8. plan.status[i] = "matched"
  BY <1>5, <1>6, <1>7 DEF Hypotheses, Queued, Image, Fate
<1>9. /\ builds[i] \in Nat /\ attempt[w] \in Nat /\ Retries \in Nat
      /\ attempt[w] <= Retries
      /\ pc[w] = "run" => builds[i] <= attempt[w]
      /\ pc[w] = "building" => builds[i] <= attempt[w] + 1
      /\ builds[i] <= Retries + 1
  BY <1>1, <1>3, <1>5, PoolAssumption DEF TypeOK, Thread, Tries, PoolAssumption, Image, Fate
<1>w. /\ Others(w)
      /\ UNCHANGED <<queue, handed>>
      /\ task'[w] = task[w]
      /\ pc[w] # "putting" /\ pc'[w] # "putting"
      /\ \A j \in Images \ {i} : /\ status'[j] = status[j]
                                 /\ builds'[j] = builds[j]
                                 /\ j \in built' <=> j \in built
  BY <1>1, <1>3 DEF Others, TypeOK, FailForParent, StartBuild, BuildOK, BuildFails, Goto,
     queueVars, history
<1>q. ~InQueue("build", BuildTask(i))'
  BY <1>6, <1>w DEF InQueue
<1> USE DEF TypeOK, Goto, queueVars, history
<1>10. CASE FailForParent(w)
  <2>1. /\ status'[i] = "parent_error" /\ pc'[w] = "tail"
        /\ UNCHANGED <<builds, built, attempt, success, pending>>
    BY <1>3, <1>10 DEF FailForParent
  <2>2. Thread(plan, w)'
    BY <1>1, <1>2, <1>3, <1>4, <1>9, <1>w, <2>1, TaskKinds
       DEF Thread, Shape, Tries, AtWork, Followed, Fit, Busy
  <2>3. Fate(plan, i)'
    BY <1>4, <1>5, <1>6, <1>8, <1>q, <1>w, <2>1 DEF Image, Fate, Fresh
  <2>4. ErrorOfParent(i)'
    <3> DEFINE p == Parent[i]
    <3>1. p # NoImage /\ status[p] \in Errors /\ p \in Images
      BY <1>3, <1>10, PoolAssumption DEF FailForParent, ParentFailed, PoolAssumption
    <3>2. Image(plan, R, p)
      BY <3>1 DEF PlanInv
    <3>3. p \in built
      BY <1>4, <1>5, <1>8, <3>1, <3>2
         DEF Image, ParentThere, Fate, Errors, PlanInv, Handing
    <3>4. Push /\ status[p] \in PushErrors
      BY <3>1, <3>2, <3>3 DEF Image, Fate, Errors
    <3> QED
      BY <1>4, <1>w, <2>1, <3>1, <3>3, <3>4 DEF ErrorOfParent
  <2> QED
    BY <1>3, <1>4, <1>w, <2>2, <2>3, <2>4, BuildStep
<1>11. CASE StartBuild(w)
  <2>1. /\ status'[i] = "building" /\ builds'[i] = builds[i] + 1 /\ pc'[w] = "building"
        /\ pc[w] = "run" /\ UNCHANGED <<built, attempt, success, pending>>
    BY <1>3, <1>11 DEF StartBuild, Runs
  <2>2. Thread(plan, w)'
    BY <1>1, <1>2, <1>3, <1>4, <1>9, <1>w, <2>1, TaskKinds
       DEF Thread, Shape, Tries, AtWork, Followed, Fit, Busy
  <2>3. Fate(plan, i)'
    BY <1>4, <1>5, <1>6, <1>8, <1>9, <1>q, <1>w, <2>1 DEF Image, Fate, Fresh
  <2>4. ErrorOfParent(i)'
    BY <2>1 DEF ErrorOfParent
  <2> QED
    BY <1>3, <1>4, <1>w, <2>2, <2>3, <2>4, BuildStep
<1>12. CASE BuildOK(w)
  <2>1. /\ status'[i] = "built" /\ i \in built' /\ pc'[w] = "tail"
        /\ pc[w] = "building" /\ UNCHANGED <<builds, attempt, success, pending>>
    BY <1>3, <1>12 DEF BuildOK
  <2>2. Thread(plan, w)'
    BY <1>1, <1>2, <1>3, <1>4, <1>9, <1>w, <2>1, TaskKinds
       DEF Thread, Shape, Tries, AtWork, Followed, Fit, Busy
  <2>3. Fate(plan, i)'
    BY <1>4, <1>5, <1>6, <1>8, <1>9, <1>q, <1>w, <2>1 DEF Image, Fate, Fresh
  <2>4. ErrorOfParent(i)'
    BY <2>1 DEF ErrorOfParent
  <2> QED
    BY <1>3, <1>4, <1>w, <2>2, <2>3, <2>4, BuildStep
<1>13. CASE BuildFails(w)
  <2>1. /\ status'[i] \in BuildErrors /\ pc'[w] = "tail"
        /\ pc[w] = "building" /\ UNCHANGED <<builds, built, attempt, success, pending>>
    BY <1>3, <1>13 DEF BuildFails
  <2>e. status'[i] \in {"error", "connection_error"}
    BY <2>1, PoolAssumption DEF PoolAssumption
  <2>2. Thread(plan, w)'
    BY <1>1, <1>2, <1>3, <1>4, <1>9, <1>w, <2>1, TaskKinds
       DEF Thread, Shape, Tries, AtWork, Followed, Fit, Busy
  <2>3. Fate(plan, i)'
    BY <1>4, <1>5, <1>6, <1>8, <1>9, <1>q, <1>w, <2>1, <2>e DEF Image, Fate, Fresh
  <2>4. ErrorOfParent(i)'
    BY <2>e DEF ErrorOfParent
  <2> QED
    BY <1>3, <1>4, <1>w, <2>2, <2>3, <2>4, BuildStep
<1> QED
  BY <1>10, <1>11, <1>12, <1>13
-----------------------------------------------------------------------------
(* Pushing *)

LEMMA FinishPushStep ==
    ASSUME NEW plan, NEW R, TypeOK, PlanInv(plan, R), NEW w \in Workers, FinishPush(w)
    PROVE  PlanInv(plan, R)'
<1>1. Thread(plan, w) /\ task[w].kind = "push" /\ pc[w] = "run"
  BY DEF PlanInv, FinishPush, Runs
<1>2. task[w] \in Task
  BY <1>1, TaskKinds DEF TypeOK
<1>3. PICK i \in Images : i = task[w].image /\ task[w] = PushTask(i)
  BY <1>1, <1>2, TaskKinds
<1>4. PushUnderway(i)
  BY <1>3 DEF PushUnderway
<1>5. Push /\ Fit(plan, i) /\ i \in handed /\ ~Waiting(i)
  BY <1>4 DEF PlanInv, Image, Pushing
<1>6. /\ Others(w)
      /\ UNCHANGED <<queue, handed, builds, built, pending>>
      /\ task' = task
      /\ pc'[w] \in {"after", "attempt"}
      /\ \/ pc'[w] = "after" /\ success'[w] /\ attempt'[w] = attempt[w]
         \/ pc'[w] = "attempt" /\ ~success'[w] /\ attempt'[w] = attempt[w] + 1
      /\ \A j \in Images \ {i} : status'[j] = status[j]
      /\ status'[i] \in {status[i]} \cup PushErrors
  <2>1. \/ Succeed(w, "run") \/ TryAgain(w, "run")
    BY DEF FinishPush
  <2> QED
    BY <1>3, <2>1 DEF FinishPush, Succeed, TryAgain, Goto, Others, TypeOK, queueVars
<1> USE DEF PlanInv
<1>7. \A q, t : InQueue(q, t)' <=> InQueue(q, t)
  BY <1>6 DEF InQueue
<1>8. \A j \in Images : Waiting(j)' => Waiting(j)
  <2> SUFFICES ASSUME NEW j \in Images, NEW v \in Workers, task[v] = BuildTask(j),
                      pc'[v] # "putting"
               PROVE  pc[v] # "putting"
    BY <1>6, <1>7 DEF Waiting
  <2>1. v # w
    BY <1>1, TaskKinds
  <2> QED
    BY <1>6, <2>1 DEF Others
<1>9. \A j \in Images : PushUnderway(j)' <=> PushUnderway(j)
  BY <1>6, <1>7 DEF PushUnderway
<1>10. Once'
  <2>1. QueuedOnce'
    BY <1>6 DEF Once, QueuedOnce
  <2> QED
    BY <1>6, <1>7, <2>1 DEF Once
<1>11. Handing(plan, R)'
  <2>1. handed \subseteq Images
    BY DEF TypeOK
  <2> QED
    BY <1>6, <1>7, <1>8, <2>1, TaskKinds DEF Handing
<1>e. PushErrors \subseteq {"error", "connection_error", "push_error"} /\ Retries \in Nat /\ attempt[w] \in Nat
  BY PoolAssumption DEF PoolAssumption, TypeOK
<1>12. ASSUME NEW v \in Workers PROVE Thread(plan, v)'
  <2>1. CASE v = w
    BY <1>1, <1>6, <1>e, <2>1 DEF Thread, Shape, Tries, AtWork, Followed, Busy
  <2>2. CASE v # w
    <3>1. Thread(plan, v) /\ Shape(v)' /\ Tries(v)' /\ Followed(plan, v)'
      BY <1>6, <2>2 DEF Thread, Shape, Tries, Followed, Fit, Others
    <3>2. AtWork(plan, v)'
      <4> SUFFICES ASSUME task[v].kind = "build" PROVE AtWork(plan, v)'
        BY <1>6 DEF AtWork
      <4>1. task[v].image \in Images /\ task[v] = BuildTask(task[v].image)
        BY TaskKinds DEF TypeOK
      <4>2. pc[v] = "building" => task[v].image # i
        BY <1>5, <4>1 DEF Waiting
      <4> QED
        BY <1>6, <2>2, <3>1, <4>1, <4>2 DEF Others, Thread, AtWork, Fit
    <3> QED
      BY <3>1, <3>2 DEF Thread
  <2> QED
    BY <2>1, <2>2
<1>13. ASSUME NEW j \in Images PROVE Image(plan, R, j)'
  <2>1. Fate(plan, j)'
    <3>1. CASE j # i
      BY <1>6, <1>7, <1>8, <1>13, <3>1 DEF Image, Fate, Fresh
    <3>2. CASE j = i
      <4>1. ~Waiting(i)' /\ ~Fresh(i)'
        <5>1. ~Waiting(i)'
          BY <1>5, <1>8
        <5> QED
          BY <1>5, <1>6, <5>1 DEF Fresh, Waiting
      <4>2. Fate(plan, i)
        BY DEF Image
      <4> QED
        BY <1>5, <1>6, <1>e, <3>2, <4>1, <4>2 DEF Fate, Fit
    <3> QED
      BY <3>1, <3>2
  <2>2. Pushing(plan, j)'
    BY <1>6, <1>8, <1>9, <1>13 DEF Image, Pushing, Fit
  <2>3. ParentThere(plan, R, j)'
    BY <1>6, <1>13 DEF Image, ParentThere
  <2>4. ErrorOfParent(j)'
    <3> SUFFICES ASSUME status'[j] = "parent_error"
                 PROVE  Push /\ Parent[j] \in built /\ status'[Parent[j]] \in PushErrors
      BY <1>6 DEF ErrorOfParent
    <3>1. status[j] = "parent_error"
      BY <1>6, <1>e
    <3>2. Push /\ Parent[j] \in built /\ status[Parent[j]] \in PushErrors /\ built \subseteq Images
      BY <1>13, <3>1 DEF Image, ErrorOfParent, TypeOK
    <3> QED
      BY <1>6, <3>2
  <2> QED
    BY <2>1, <2>2, <2>3, <2>4 DEF Image
<1> QED
  BY <1>10, <1>11, <1>12, <1>13

-----------------------------------------------------------------------------
(* Steps that move entries of the queues. *)

(* Tombstones come and go without effect on the tasks. *)
LEMMA TasksStay ==
    ASSUME NEW plan, NEW R, TypeOK, PlanInv(plan, R),
           UNCHANGED <<status, history, task, attempt, success, pending>>,
           \A r \in Queues, t \in Task : InQueue(r, t)' <=> InQueue(r, t),
           QueuedOnce',
           \A w \in Workers : \/ pc'[w] = pc[w]
                              \/ task[w] = NoTask /\ pc'[w] \notin Busy
    PROVE  PlanInv(plan, R)'
<1> USE DEF PlanInv, history
<1>1. /\ \A i \in Images, r \in Queues :
            /\ InQueue(r, BuildTask(i))' <=> InQueue(r, BuildTask(i))
            /\ InQueue(r, IntoTask(i))' <=> InQueue(r, IntoTask(i))
            /\ InQueue(r, PushTask(i))' <=> InQueue(r, PushTask(i))
      /\ "build" \in Queues /\ "push" \in Queues
  BY TaskKinds DEF Queues
<1>2. \A i \in Images : Waiting(i)' <=> Waiting(i)
  BY <1>1, TaskKinds DEF Waiting
<1>3. \A i \in Images : PushUnderway(i)' <=> PushUnderway(i)
  BY <1>1 DEF PushUnderway
<1>4. \A w \in Workers : task[w] \in Task \cup {NoTask}
  BY DEF TypeOK
<1>5. Once'
  BY <1>1, <1>4, TaskKinds DEF Once
<1>6. Handing(plan, R)'
  <2>1. handed \subseteq Images
    BY DEF TypeOK
  <2> QED
    BY <1>1, <1>2, <2>1 DEF Handing
<1>7. ASSUME NEW w \in Workers PROVE Thread(plan, w)'
  <2>1. CASE pc'[w] = pc[w]
    BY <2>1 DEF Thread, Shape, Tries, AtWork, Followed, Fit
  <2>2. CASE task[w] = NoTask /\ pc'[w] \notin Busy
    BY <2>2, TaskKinds DEF Thread, Shape, Tries, AtWork, Followed, Fit, Busy
  <2> QED
    BY <2>1, <2>2
<1>8. ASSUME NEW i \in Images PROVE Image(plan, R, i)'
  <2>1. Fate(plan, i)'
    BY <1>1, <1>2, <1>8 DEF Image, Fate, Fresh
  <2>2. Pushing(plan, i)'
    BY <1>2, <1>3, <1>8 DEF Image, Pushing, Fit
  <2> QED
    BY <1>8, <2>1, <2>2 DEF Image, ParentThere, ErrorOfParent
<1> QED
  BY <1>5, <1>6, <1>7, <1>8

LEMMA GetTombstoneEntry ==
    ASSUME TypeOK, QueuedOnce, NEW w \in Workers, GetTombstone(w)
    PROVE  /\ \A r \in Queues, t \in Task : InQueue(r, t)' <=> InQueue(r, t)
           /\ QueuedOnce'
<1> DEFINE q == Served(w)
           s == queue[q]
           u == [queue EXCEPT ![q] = Append(Tail(@), Tombstone)]
<1>q. q \in Queues
  BY ServedQueue
<1>1. /\ s \in Seq(Task \cup {Tombstone})
      /\ s # <<>> /\ s[1] = Tombstone
      /\ Len(s) \in Nat /\ Len(s) # 0
      /\ DOMAIN s = 1 .. Len(s)
  BY <1>q DEF TypeOK, GetTombstone
<1>2. queue' = u
  BY DEF GetTombstone
<1>3. /\ u[q] = Append(Tail(s), Tombstone)
      /\ \A r \in Queues : r # q => u[r] = queue[r]
  BY <1>q DEF TypeOK
<1>4. /\ DOMAIN u[q] = 1 .. Len(s)
      /\ \A k \in 1 .. (Len(s) - 1) : u[q][k] = s[k + 1]
      /\ u[q][Len(s)] = Tombstone
  <2>1. /\ Tail(s) \in Seq(Task \cup {Tombstone})
        /\ Len(Tail(s)) = Len(s) - 1
        /\ \A k \in 1 .. (Len(s) - 1) : Tail(s)[k] = s[k + 1]
    BY <1>1
  <2>2. ASSUME NEW v \in Seq(Task \cup {Tombstone}), Len(v) = Len(s) - 1
        PROVE  /\ DOMAIN Append(v, Tombstone) = 1 .. Len(s)
               /\ \A k \in 1 .. (Len(s) - 1) : Append(v, Tombstone)[k] = v[k]
               /\ Append(v, Tombstone)[Len(s)] = Tombstone
    BY <1>1, <2>2
  <2> QED
    BY <1>3, <2>1, <2>2
<1>l. Len(s) \in Nat
  BY <1>1
<1> HIDE DEF s, u
<1>5. ASSUME NEW r \in Queues, NEW t \in Task PROVE InQueue(r, t)' <=> InQueue(r, t)
  <2>1. CASE r # q
    BY <1>2, <1>3, <2>1 DEF InQueue
  <2>2. CASE r = q
    <3>1. ASSUME InQueue(q, t) PROVE InQueue(q, t)'
      <4>1. PICK k \in 1 .. Len(s) : s[k] = t
        BY <1>1, <3>1 DEF InQueue, s
      <4>2. k # 1
        BY <1>1, <4>1, TaskKinds
      <4>3. k - 1 \in DOMAIN u[q] /\ u[q][k - 1] = t
        BY <1>1, <1>4, <4>1, <4>2
      <4> QED
        BY <1>2, <4>3 DEF InQueue
    <3>2. ASSUME InQueue(q, t)' PROVE InQueue(q, t)
      <4>1. PICK k \in 1 .. Len(s) : u[q][k] = t
        BY <1>2, <1>4, <3>2 DEF InQueue
      <4>2. k # Len(s)
        BY <1>4, <4>1, TaskKinds
      <4>3. k \in 1 .. (Len(s) - 1) /\ k + 1 \in 1 .. Len(s)
        BY <1>l, <4>2
      <4>4. k + 1 \in DOMAIN s /\ s[k + 1] = t
        BY <1>1, <1>4, <4>1, <4>3
      <4> QED
        BY <4>4 DEF InQueue, s
    <3> QED
      BY <2>2, <3>1, <3>2
  <2> QED
    BY <2>1, <2>2
<1>6. QueuedOnce'
  <2>1. CASE q # "build"
    BY <1>2, <1>3, <2>1 DEF QueuedOnce, Queues
  <2>2. CASE q = "build"
    <3>1. \A j, k \in 1 .. Len(s) : s[j].kind = "build" /\ s[k] = s[j] => j = k
      BY <1>1, <2>2 DEF QueuedOnce, s
    <3> SUFFICES ASSUME NEW j \in 1 .. Len(s), NEW k \in 1 .. Len(s),
                        u[q][j].kind = "build", u[q][k] = u[q][j]
                 PROVE  j = k
      BY <1>2, <1>4, <2>2 DEF QueuedOnce
    <3>2. j # Len(s) /\ k # Len(s)
      BY <1>4, TaskKinds
    <3>3. /\ j \in 1 .. (Len(s) - 1) /\ j + 1 \in 1 .. Len(s)
          /\ k \in 1 .. (Len(s) - 1) /\ k + 1 \in 1 .. Len(s)
      BY <1>l, <3>2
    <3>4. s[j + 1].kind = "build" /\ s[k + 1] = s[j + 1]
      BY <1>4, <3>3
    <3>5. j + 1 = k + 1
      BY <3>1, <3>3, <3>4
    <3> QED
      BY <3>5
  <2> QED
    BY <2>1, <2>2
<1> QED
  BY <1>5, <1>6

LEMMA GetTombstoneStep ==
    ASSUME NEW plan, NEW R, TypeOK, PlanInv(plan, R), NEW w \in Workers, GetTombstone(w)
    PROVE  PlanInv(plan, R)'
<1>1. /\ UNCHANGED <<status, history, task, attempt, success, pending>>
      /\ pc[w] = "get" /\ pc' = [pc EXCEPT ![w] = "buried"]
  BY DEF GetTombstone, Goto
<1>2. \A v \in Workers : \/ pc'[v] = pc[v]
                         \/ task[v] = NoTask /\ pc'[v] \notin Busy
  <2>1. task[w] = NoTask
    BY <1>1 DEF PlanInv, Thread, Shape, Busy
  <2> QED
    BY <1>1, <2>1 DEF TypeOK, Busy
<1>3. QueuedOnce
  BY DEF PlanInv, Once
<1> QED
  BY <1>1, <1>2, <1>3, GetTombstoneEntry, TasksStay

(* A task changes from the queue to the thread. *)
LEMMA GetTaskStep ==
    ASSUME NEW plan, NEW R, TypeOK, Hypotheses(plan, R), PlanInv(plan, R),
           NEW w \in Workers, GetTask(w)
    PROVE  PlanInv(plan, R)'
<1> DEFINE q == Served(w)
<1>q. q \in Queues /\ "build" \in Queues /\ "push" \in Queues
  BY ServedQueue DEF Queues
<1>1. PICK t \in Task : t = Head(queue[q])
  <2>1. queue[q] \in Seq(Task \cup {Tombstone}) /\ queue[q] # <<>> /\ Head(queue[q]) # Tombstone
    BY <1>q DEF TypeOK, GetTask
  <2> QED
    BY <2>1
<1>2. /\ Others(w)
      /\ UNCHANGED <<status, history, attempt, success, pending>>
      /\ queue[q] # <<>>
      /\ queue' = [queue EXCEPT ![q] = Tail(@)]
      /\ task' = [task EXCEPT ![w] = t]
      /\ pc' = [pc EXCEPT ![w] = "attempt"]
      /\ pc[w] = "get" /\ pc'[w] = "attempt" /\ task'[w] = t
  BY <1>1 DEF GetTask, Goto, Others, TypeOK
<1> HIDE DEF q
<1> USE DEF PlanInv
<1>3. Thread(plan, w) /\ task[w] = NoTask /\ ~success[w] /\ pending[w] = {} /\ attempt[w] = 0
  BY <1>2 DEF Thread, Shape, Tries, Busy
<1>4. /\ InQueue(q, t)
      /\ \A r \in Queues, u \in Task : InQueue(r, u)' => InQueue(r, u)
      /\ \A r \in Queues, u \in Task : InQueue(r, u) => InQueue(r, u)' \/ u = t
      /\ q = "build" /\ t.kind = "build" => ~InQueue(q, t)'
      /\ QueuedOnce'
  BY <1>1, <1>2, <1>q, TakeEntry DEF Once, q
<1>5. /\ t.kind = "push" <=> q = "push"
      /\ t.kind \in {"build", "into"} <=> q = "build"
      /\ q = "build" => w \in Builders
  BY <1>4, <1>q DEF Handing, q, Served
<1>6. \A v \in Workers : task[v] # NoTask => task'[v] = task[v] /\ pc'[v] = pc[v]
  BY <1>2, <1>3 DEF TypeOK
<1>7. \A i \in Images : Waiting(i)' <=> Waiting(i)
  <2> SUFFICES ASSUME NEW i \in Images PROVE Waiting(i)' <=> Waiting(i)
    OBVIOUS
  <2>1. BuildTask(i) \in Task /\ BuildTask(i) # NoTask
    BY TaskKinds
  <2>2. Waiting(i) => Waiting(i)'
    BY <1>2, <1>4, <1>6, <1>q, <2>1 DEF Waiting
  <2>3. Waiting(i)' => Waiting(i)
    <3>1. ASSUME NEW v \in Workers, task'[v] = BuildTask(i), pc'[v] # "putting" PROVE Waiting(i)
      <4>1. CASE v = w
        BY <1>2, <1>4, <1>5, <3>1, <4>1, TaskKinds DEF Waiting
      <4>2. CASE v # w
        BY <1>2, <3>1, <4>2 DEF Waiting, Others
      <4> QED
        BY <4>1, <4>2
    <3> QED
      BY <1>4, <1>q, <2>1, <3>1 DEF Waiting
  <2> QED
    BY <2>2, <2>3
<1>8. \A i \in Images : PushUnderway(i)' => PushUnderway(i)
  <2> SUFFICES ASSUME NEW i \in Images, PushUnderway(i)' PROVE PushUnderway(i)
    OBVIOUS
  <2>1. IntoTask(i) \in Task /\ PushTask(i) \in Task
    BY TaskKinds
  <2>2. ASSUME NEW v \in Workers, task'[v] \in {IntoTask(i), PushTask(i)} PROVE PushUnderway(i)
    <3>1. CASE v = w
      BY <1>2, <1>4, <1>5, <2>2, <3>1, TaskKinds DEF PushUnderway
    <3>2. CASE v # w
      BY <1>2, <2>2, <3>2 DEF PushUnderway, Others
    <3> QED
      BY <3>1, <3>2
  <2> QED
    BY <1>4, <1>q, <2>1, <2>2 DEF PushUnderway
<1>9. Once'
  <2>1. ASSUME NEW v \in Workers, NEW u \in Task, task'[v] = u, u.kind = "build"
        PROVE  ~InQueue("build", u)'
    <3>1. CASE v = w
      BY <1>2, <1>4, <1>5, <2>1, <3>1
    <3>2. CASE v # w
      <4>1. ~InQueue("build", u)
        BY <1>2, <2>1, <3>2 DEF Others, Once
      <4> QED
        BY <1>4, <1>q, <4>1
    <3> QED
      BY <3>1, <3>2
  <2>2. ASSUME NEW v \in Workers, NEW x \in Workers, task'[v].kind = "build", task'[x] = task'[v]
        PROVE  v = x
    <3>1. t.kind = "build" => \A y \in Workers : task[y] # t
      BY <1>4, <1>5 DEF Once
    <3>2. CASE v # w /\ x # w
      BY <1>2, <2>2, <3>2 DEF Others, Once
    <3>3. CASE v = w /\ x # w
      BY <1>2, <2>2, <3>1, <3>3 DEF Others
    <3>4. CASE v # w /\ x = w
      BY <1>2, <2>2, <3>1, <3>4 DEF Others
    <3> QED
      BY <3>2, <3>3, <3>4
  <2>3. \A v \in Workers : task'[v] \in Task \cup {NoTask}
    BY <1>2 DEF TypeOK
  <2> QED
    BY <1>4, <2>1, <2>2, <2>3, TaskKinds DEF Once
<1>10. Handing(plan, R)'
  <2>1. handed \subseteq Images
    BY DEF TypeOK
  <2> QED
    BY <1>2, <1>4, <1>7, <1>q, <2>1, TaskKinds DEF Handing, history
<1>11. ASSUME NEW v \in Workers PROVE Thread(plan, v)'
  <2>1. CASE v # w
    BY <1>2, <2>1 DEF Others, history, Thread, Shape, Tries, AtWork, Followed, Fit
  <2>2. CASE v = w
    <3>1. t.kind = "build" => /\ t.image \in Images
                              /\ InQueue("build", BuildTask(t.image))
                              /\ t.image \in handed
      BY <1>4, <1>5, TaskKinds DEF Handing
    <3>2. t.kind = "build" => builds[t.image] = 0 /\ t.image \notin built
      BY <3>1 DEF Image, Fate, Fresh
    <3>3. Retries \in Nat
      BY PoolAssumption DEF PoolAssumption
    <3>4. t.kind \in {"build", "into", "push"} /\ t # NoTask
      BY TaskKinds
    <3> QED
      BY <1>2, <1>3, <1>5, <2>2, <3>1, <3>2, <3>3, <3>4
         DEF history, Thread, Shape, Tries, AtWork, Followed, Busy
  <2> QED
    BY <2>1, <2>2
<1>12. ASSUME NEW i \in Images PROVE Image(plan, R, i)'
  <2>1. InQueue("build", BuildTask(i))' => InQueue("build", BuildTask(i))
    BY <1>4, <1>q, TaskKinds
  <2>2. Fate(plan, i)'
    BY <1>2, <1>7, <1>12, <2>1 DEF history, Image, Fate, Fresh
  <2>3. Pushing(plan, i)'
    BY <1>2, <1>7, <1>8, <1>12 DEF history, Image, Pushing, Fit
  <2> QED
    BY <1>2, <1>12, <2>2, <2>3 DEF history, Image, ParentThere, ErrorOfParent
<1> QED
  BY <1>9, <1>10, <1>11, <1>12

(* The push is put into the other queue while the thread holds the task that  *)
(* asks for it.                                                             *)
LEMMA PushIntoStep ==
    ASSUME NEW plan, NEW R, TypeOK, PlanInv(plan, R), NEW w \in Workers, PushInto(w)
    PROVE  PlanInv(plan, R)'
<1> USE DEF PlanInv
<1>1. Thread(plan, w) /\ task[w].kind = "into" /\ task[w] \in Task /\ pc[w] = "run"
  BY TaskKinds DEF PushInto, Runs, TypeOK
<1>2. PICK i \in Images : task[w] = IntoTask(i) /\ task[w].image = i
  BY <1>1, TaskKinds
<1>3. /\ Others(w)
      /\ UNCHANGED <<status, history, pending>>
      /\ task' = task
      /\ pc'[w] = "after" /\ success'[w] = TRUE /\ attempt'[w] = attempt[w]
      /\ Put("push", PushTask(i))
  BY <1>2 DEF PushInto, Succeed, Goto, Others, TypeOK
<1>q. "build" \in Queues /\ "push" \in Queues /\ "build" # "push" /\ PushTask(i) \in Task
  BY TaskKinds DEF Queues
<1>4. /\ \A r \in Queues, t \in Task :
            InQueue(r, t)' <=> InQueue(r, t) \/ (r = "push" /\ t = PushTask(i))
      /\ QueuedOnce'
  BY <1>3, <1>q, PutEntry DEF Once
<1>5. \A j \in Images :
         /\ InQueue("build", BuildTask(j))' <=> InQueue("build", BuildTask(j))
         /\ InQueue("build", IntoTask(j))' <=> InQueue("build", IntoTask(j))
         /\ InQueue("push", PushTask(j))' => InQueue("push", PushTask(j)) \/ j = i
  BY <1>4, <1>q, TaskKinds
<1>6. \A j \in Images : Waiting(j)' => Waiting(j)
  <2>1. ASSUME NEW j \in Images, NEW v \in Workers, task[v] = BuildTask(j), pc'[v] # "putting"
        PROVE  pc[v] # "putting"
    <3>1. v # w
      BY <1>1, <2>1, TaskKinds
    <3> QED
      BY <1>3, <2>1, <3>1 DEF Others
  <2> QED
    BY <1>3, <1>5, <2>1 DEF Waiting
<1>7. \A j \in Images : PushUnderway(j)' => PushUnderway(j)
  BY <1>2, <1>3, <1>5 DEF PushUnderway
<1>8. Once'
  <2>1. \A v \in Workers : task[v] \in Task \cup {NoTask}
    BY DEF TypeOK
  <2>2. ASSUME NEW v \in Workers, task[v].kind = "build" PROVE ~InQueue("build", task[v])'
    <3>1. task[v] \in Task /\ ~InQueue("build", task[v])
      BY <2>1, <2>2, TaskKinds DEF Once
    <3> QED
      BY <1>3, <1>4, <1>q, <3>1
  <2> QED
    BY <1>3, <1>4, <2>2 DEF Once
<1>9. Handing(plan, R)'
  <2>1. handed \subseteq Images
    BY DEF TypeOK
  <2> QED
    BY <1>3, <1>4, <1>5, <1>6, <1>q, <2>1, TaskKinds DEF Handing, history
<1>10. ASSUME NEW v \in Workers PROVE Thread(plan, v)'
  <2>1. CASE v # w
    BY <1>3, <2>1 DEF Others, history, Thread, Shape, Tries, AtWork, Followed, Fit
  <2>2. CASE v = w
    BY <1>1, <1>3, <2>2 DEF history, Thread, Shape, Tries, AtWork, Followed, Busy
  <2> QED
    BY <2>1, <2>2
<1>11. ASSUME NEW j \in Images PROVE Image(plan, R, j)'
  <2>1. Fate(plan, j)'
    BY <1>3, <1>5, <1>6, <1>11 DEF history, Image, Fate, Fresh
  <2>2. Pushing(plan, j)'
    BY <1>3, <1>6, <1>7, <1>11 DEF history, Image, Pushing, Fit
  <2> QED
    BY <1>3, <1>11, <2>1, <2>2 DEF history, Image, ParentThere, ErrorOfParent
<1> QED
  BY <1>8, <1>9, <1>10, <1>11

(* The push of the image is put when its attempts are over... *)
LEMMA PutPushStep ==
    ASSUME NEW plan, NEW R, TypeOK, PlanInv(plan, R), NEW w \in Workers,
           NEW i \in Images, task[w] = BuildTask(i), Put("build", IntoTask(i)),
           IntoTask(i) \in pending[w], pc' = pc,
           pending' = [pending EXCEPT ![w] = @ \ {IntoTask(i)}],
           UNCHANGED <<status, task, attempt, success, history>>
    PROVE  PlanInv(plan, R)'
<1> USE DEF PlanInv, history
<1>q. "build" \in Queues /\ "push" \in Queues /\ "build" # "push" /\ IntoTask(i) \in Task
  BY TaskKinds DEF Queues
<1>4. /\ \A r \in Queues, t \in Task :
            InQueue(r, t)' <=> InQueue(r, t) \/ (r = "build" /\ t = IntoTask(i))
      /\ QueuedOnce'
  BY <1>q, PutEntry, TaskKinds DEF Once
<1>5. \A j \in Images :
         /\ InQueue("build", BuildTask(j))' <=> InQueue("build", BuildTask(j))
         /\ InQueue("build", IntoTask(j))' => InQueue("build", IntoTask(j)) \/ j = i
         /\ InQueue("push", PushTask(j))' <=> InQueue("push", PushTask(j))
  BY <1>4, <1>q, TaskKinds
<1>6. \A j \in Images : Waiting(j)' <=> Waiting(j)
  BY <1>5 DEF Waiting
<1>7. \A j \in Images : PushUnderway(j)' => PushUnderway(j) \/ j = i
  BY <1>5 DEF PushUnderway
<1>8. Once'
  <2>1. \A v \in Workers : task[v] \in Task \cup {NoTask}
    BY DEF TypeOK
  <2>2. \A v \in Workers : task[v].kind = "build" => ~InQueue("build", task[v])'
    BY <1>4, <1>q, <2>1, TaskKinds DEF Once
  <2> QED
    BY <1>4, <2>2 DEF Once
<1>9. Handing(plan, R)'
  <2>1. handed \subseteq Images
    BY DEF TypeOK
  <2> QED
    BY <1>4, <1>5, <1>6, <1>q, <2>1, TaskKinds DEF Handing
<1>10. ASSUME NEW v \in Workers PROVE Thread(plan, v)'
  <2>1. Thread(plan, v) /\ pending'[v] \subseteq pending[v]
    BY DEF TypeOK
  <2> QED
    BY <2>1 DEF Thread, Shape, Tries, AtWork, Followed, Fit
<1>11. ~Waiting(i) /\ Push /\ Fit(plan, i) /\ i \in handed
  <2>1. /\ task[w].kind = "build" /\ task[w].image = i
        /\ IntoTask(i).kind = "into"
    BY TaskKinds
  <2>2. /\ pc[w] = "putting" /\ Push /\ Fit(plan, i) /\ i \in handed
    BY <2>1 DEF Thread, Shape, AtWork, Followed
  <2>3. ~InQueue("build", BuildTask(i)) /\ \A v \in Workers : task[v] = BuildTask(i) => v = w
    BY <2>1 DEF Once
  <2> QED
    BY <2>2, <2>3 DEF Waiting
<1>12. ASSUME NEW j \in Images PROVE Image(plan, R, j)'
  <2>1. Fate(plan, j)'
    BY <1>5, <1>6, <1>12 DEF Image, Fate, Fresh
  <2>2. Pushing(plan, j)'
    BY <1>6, <1>7, <1>11, <1>12 DEF Image, Pushing, Fit
  <2> QED
    BY <1>12, <2>1, <2>2 DEF Image, ParentThere, ErrorOfParent
<1> QED
  BY <1>8, <1>9, <1>10, <1>12

(* ...and so are its children, which nobody was handed before. *)
LEMMA PutChildStep ==
    ASSUME NEW plan, NEW R, TypeOK, Hypotheses(plan, R), PlanInv(plan, R),
           NEW w \in Workers, NEW p \in Images, NEW c \in Images,
           task[w] = BuildTask(p), Put("build", BuildTask(c)),
           BuildTask(c) \in pending[w], pc' = pc,
           pending' = [pending EXCEPT ![w] = @ \ {BuildTask(c)}],
           handed' = handed \cup {c},
           UNCHANGED <<status, task, attempt, success, builds, built, pushed>>
    PROVE  PlanInv(plan, R)'
<1> USE DEF PlanInv
<1>1. /\ "build" \in Queues /\ "push" \in Queues /\ "build" # "push"
      /\ BuildTask(c) \in Task /\ BuildTask(c).kind = "build" /\ BuildTask(c).image = c
      /\ task[w].kind = "build" /\ task[w].image = p
  BY TaskKinds DEF Queues
<1>2. /\ pc[w] = "putting" /\ Fit(plan, p) /\ p \in handed
      /\ Parent[c] = p /\ plan.status[c] # "unmatched" /\ c \notin handed
  BY <1>1 DEF Thread, Shape, AtWork, Followed
<1>3. /\ handed \subseteq Images /\ handed \subseteq R
      /\ \A v \in Workers : task[v] \in Task \cup {NoTask} /\ pending[v] \subseteq Task
  BY DEF TypeOK, Handing
<1>4. c \in R /\ c \notin Roots(plan)
  BY <1>2, <1>3 DEF Hypotheses, Reaches
<1>5. ~InQueue("build", BuildTask(c)) /\ \A v \in Workers : task[v] # BuildTask(c)
  BY <1>1, <1>2 DEF Handing, Thread, AtWork
<1>6. ~InQueue("build", BuildTask(p)) /\ \A v \in Workers : task[v] = BuildTask(p) => v = w
  BY <1>1 DEF Once
<1>7. /\ \A r \in Queues, t \in Task :
            InQueue(r, t)' <=> InQueue(r, t) \/ (r = "build" /\ t = BuildTask(c))
      /\ QueuedOnce'
  BY <1>1, <1>5, PutEntry DEF Once
<1>8. \A j \in Images :
         /\ InQueue("build", BuildTask(j))' <=> InQueue("build", BuildTask(j)) \/ j = c
         /\ InQueue("build", IntoTask(j))' <=> InQueue("build", IntoTask(j))
         /\ InQueue("push", PushTask(j))' <=> InQueue("push", PushTask(j))
  BY <1>1, <1>7, TaskKinds
<1>9. \A j \in Images : Waiting(j)' <=> Waiting(j) \/ j = c
  BY <1>8 DEF Waiting
<1>10. \A j \in Images : PushUnderway(j)' <=> PushUnderway(j)
  BY <1>8 DEF PushUnderway
<1>11. ~Waiting(p) /\ p # c
  BY <1>2, <1>6 DEF Waiting
<1>12. Once'
  <2>1. ASSUME NEW v \in Workers, task[v].kind = "build" PROVE ~InQueue("build", task[v])'
    <3>1. task[v] \in Task /\ ~InQueue("build", task[v]) /\ task[v] # BuildTask(c)
      BY <1>3, <1>5, <2>1, TaskKinds DEF Once
    <3> QED
      BY <1>7, <1>1, <3>1
  <2> QED
    BY <1>7, <2>1 DEF Once
<1>13. Handing(plan, R)'
  <2>1. \A t \in Task : /\ InQueue("build", t)' => t.kind \in {"build", "into"}
                        /\ InQueue("push", t)' => t.kind = "push"
    BY <1>1, <1>7 DEF Handing
  <2>2. Roots(plan) \subseteq handed' /\ handed' \subseteq R
    BY <1>3, <1>4 DEF Handing
  <2>3. \A i \in Images : InQueue("build", BuildTask(i))' => i \in handed'
    BY <1>8 DEF Handing
  <2>4. ASSUME NEW i \in handed' \ Roots(plan)
        PROVE  Parent[i] \in handed' /\ Parent[i] \in Images /\ Parent[i] # c /\ ~Waiting(Parent[i])
    <3>1. CASE i = c
      BY <1>2, <1>11, <3>1
    <3>2. CASE i # c
      BY <1>2, <1>3, <2>4, <3>2 DEF Handing
    <3> QED
      BY <3>1, <3>2
  <2>5. \A i \in handed' \ Roots(plan) : Parent[i] \in handed' /\ ~Waiting(Parent[i])'
    BY <1>9, <2>4
  <2> HIDE DEF PlanInv
  <2> QED
    BY <2>1, <2>2, <2>3, <2>5 DEF Handing
<1>14. ASSUME NEW v \in Workers PROVE Thread(plan, v)'
  <2>1. Thread(plan, v) /\ pending'[v] \subseteq pending[v]
    BY DEF TypeOK
  <2>2. Shape(v)' /\ Tries(v)' /\ AtWork(plan, v)'
    BY <2>1 DEF Thread, Shape, Tries, AtWork, Fit
  <2>3. ASSUME NEW t \in pending'[v], t.kind = "build" PROVE t.image # c
    <3>1. t \in Task /\ t = BuildTask(t.image)
      BY <1>3, <2>1, <2>3, TaskKinds
    <3>2. CASE v = w
      <4>1. t # BuildTask(c)
        BY <2>3, <3>2 DEF TypeOK
      <4> QED
        BY <3>1, <4>1
    <3>3. CASE v # w
      <4>1. task[v].kind = "build" /\ Parent[t.image] = task[v].image
        BY <2>1, <2>3 DEF Thread, Shape, Followed
      <4>2. task[v] = BuildTask(task[v].image)
        BY <1>3, <4>1, TaskKinds
      <4>3. task[v].image # p
        BY <1>6, <3>3, <4>2
      <4> QED
        BY <1>2, <4>1, <4>3
    <3> QED
      BY <3>2, <3>3
  <2>4. Followed(plan, v)'
    BY <2>1, <2>3 DEF Thread, Followed, Fit
  <2> QED
    BY <2>2, <2>4 DEF Thread
<1>15. ASSUME NEW j \in Images PROVE Image(plan, R, j)'
  <2>1. CASE j # c
    <3>1. Fate(plan, j)'
      BY <1>8, <1>9, <1>15, <2>1 DEF Image, Fate, Fresh
    <3>2. Pushing(plan, j)'
      BY <1>9, <1>10, <1>15, <2>1 DEF Image, Pushing, Fit
    <3> QED
      BY <1>15, <2>1, <3>1, <3>2 DEF Image, ParentThere, ErrorOfParent
  <2>2. CASE j = c
    <3>1. Fate(plan, c) /\ Fresh(c)
      BY <1>2 DEF Image, Fresh
    <3>2. Fate(plan, c)'
      BY <1>2, <3>1 DEF Fate, Fresh
    <3>3. Pushing(plan, c)'
      BY <1>2, <1>10 DEF Image, Pushing
    <3>4. ParentThere(plan, R, c)'
      <4>1. plan.status[c] = "matched" => plan.status[p] # "skipped"
        BY <1>2, <1>4 DEF Hypotheses, Queued
      <4> QED
        BY <1>2, <4>1 DEF Fit, ParentThere
    <3>5. ErrorOfParent(c)'
      BY <2>2 DEF Image, ErrorOfParent
    <3> QED
      BY <2>2, <3>2, <3>3, <3>4, <3>5 DEF Image
  <2> QED
    BY <2>1, <2>2
<1> QED
  BY <1>12, <1>13, <1>14, <1>15

LEMMA PutFollowupStep ==
    ASSUME NEW plan, NEW R, TypeOK, Hypotheses(plan, R), PlanInv(plan, R),
           NEW w \in Workers, PutFollowup(w)
    PROVE  PlanInv(plan, R)'
<1>1. PICK t \in pending[w] :
         /\ Put(Served(w), t)
         /\ pending' = [pending EXCEPT ![w] = @ \ {t}]
         /\ handed' = handed \cup {i \in {t.image} : t.kind = "build"}
         /\ pc[w] = "putting" /\ pc' = [pc EXCEPT ![w] = "putting"]
         /\ UNCHANGED <<status, task, attempt, success, builds, built, pushed>>
  BY DEF PutFollowup, Goto
<1>2. pc' = pc
  BY <1>1 DEF TypeOK
<1>3. Thread(plan, w) /\ t \in Task /\ task[w] \in Task \cup {NoTask}
  BY <1>1 DEF PlanInv, TypeOK
<1>4. task[w].kind = "build" /\ task[w] \in Task /\ w \in Builders
  BY <1>1, <1>3, TaskKinds DEF Thread, Shape
<1>5. PICK p \in Images : task[w] = BuildTask(p) /\ task[w].image = p
  BY <1>4, TaskKinds
<1>6. Put("build", t)
  BY <1>1, <1>4 DEF Served
<1>7. CASE t.kind = "into"
  <2>1. t = IntoTask(p)
    BY <1>3, <1>5, <1>7, TaskKinds DEF Thread, Followed
  <2>2. handed' = handed
    BY <1>1, <1>7
  <2> QED
    BY <1>1, <1>2, <1>5, <1>6, <2>1, <2>2, PutPushStep DEF history
<1>8. CASE t.kind = "build"
  <2>1. PICK c \in Images : t = BuildTask(c) /\ t.image = c
    BY <1>3, <1>8, TaskKinds
  <2>2. handed' = handed \cup {c}
    BY <1>1, <1>8, <2>1
  <2> QED
    BY <1>1, <1>2, <1>5, <1>6, <2>1, <2>2, PutChildStep
<1> QED
  BY <1>3, <1>7, <1>8 DEF Thread, Followed

-----------------------------------------------------------------------------
(* The main thread puts tombstones and starts threads; the rest of what it    *)
(* does is no concern of the plan.                                          *)
LEMMA MainPlan ==
    ASSUME NEW plan, NEW R, TypeOK, PlanInv(plan, R), Main \/ JoinTimesOut \/ Interrupt
    PROVE  PlanInv(plan, R)'
<1>1. UNCHANGED <<status, history, task, attempt, success, pending>>
  BY DEF Main, StartThread, ListThread, PollBuild, PollPush, PutTombstone, Join, StopWorker,
         StoppedAll, Summarise, Cleanup, JoinTimesOut, Interrupt, threadVars
<1>2. /\ \A r \in Queues, t \in Task : InQueue(r, t)' <=> InQueue(r, t)
      /\ QueuedOnce'
  <2>1. CASE PutTombstone
    <3>1. PICK q \in Queues : Put(q, Tombstone)
      BY <2>1 DEF PutTombstone, Queues
    <3> QED
      BY <3>1, PutEntry, TaskKinds DEF PlanInv, Once
  <2>2. CASE ~PutTombstone
    <3>1. queue' = queue
      BY <2>2 DEF Main, StartThread, ListThread, PollBuild, PollPush, Join, StopWorker,
                  StoppedAll, Summarise, Cleanup, JoinTimesOut, Interrupt, queueVars
    <3> QED
      BY <3>1 DEF InQueue, QueuedOnce, PlanInv, Once
  <2> QED
    BY <2>1, <2>2
<1>3. \A w \in Workers :
         \/ pc'[w] = pc[w]
         \/ task[w] = NoTask /\ pc'[w] \notin Busy
  <2>1. CASE \E v \in Workers : StartThread(v)
    <3>1. PICK v \in Workers : pc[v] = "new" /\ pc' = [pc EXCEPT ![v] = "check"]
      BY <2>1 DEF StartThread
    <3>2. task[v] = NoTask
      BY <3>1 DEF PlanInv, Thread, Shape, Busy
    <3> QED
      BY <3>1, <3>2 DEF TypeOK, Busy
  <2>2. CASE pc' = pc
    BY <2>2
  <2> QED
    BY <2>1, <2>2
       DEF Main, ListThread, PollBuild, PollPush, PutTombstone, Join, StopWorker,
           StoppedAll, Summarise, Cleanup, JoinTimesOut, Interrupt, threadVars
<1> QED
  BY <1>1, <1>2, <1>3, TasksStay

-----------------------------------------------------------------------------
(* The invariant holds from the plan on. *)

LEMMA InitPlan ==
    ASSUME NEW plan, NEW R, Hypotheses(plan, R), InitFrom(plan), ThreadInit
    PROVE  PlanInv(plan, R)
<1>1. /\ plan.roots \in Seq(Images) /\ Len(plan.roots) \in Nat
      /\ DOMAIN plan.roots = 1 .. Len(plan.roots)
      /\ \A k \in DOMAIN plan.roots : plan.roots[k] \in Images
  BY DEF Hypotheses, Plan
<1>2. /\ queue["build"] = [k \in DOMAIN plan.roots |-> BuildTask(plan.roots[k])]
      /\ queue["push"] = <<>>
      /\ status = plan.status
      /\ handed = Roots(plan)
  BY DEF InitFrom, Queues, Roots
<1>3. /\ \A t \in Task : InQueue("build", t) <=> \E i \in Roots(plan) : t = BuildTask(i)
      /\ \A t \in Task : ~InQueue("push", t)
  BY <1>2 DEF InQueue, Roots
<1>4. Roots(plan) \subseteq Images
  BY <1>1 DEF Roots
<1>5. \A i \in Images : /\ InQueue("build", BuildTask(i)) <=> i \in Roots(plan)
                        /\ ~InQueue("build", IntoTask(i))
                        /\ ~InQueue("push", PushTask(i))
  BY <1>3, <1>4, TaskKinds
<1>6. \A w \in Workers : /\ task[w] = NoTask /\ attempt[w] = 0 /\ pending[w] = {}
                         /\ success[w] = FALSE /\ pc[w] = "new"
  BY DEF ThreadInit
<1>7. Once
  <2>1. QueuedOnce
    BY <1>1, <1>2, TaskKinds DEF QueuedOnce, Hypotheses, Queued
  <2> QED
    BY <1>6, <2>1, TaskKinds DEF Once
<1>8. Handing(plan, R)
  BY <1>2, <1>3, <1>4, <1>5, TaskKinds DEF Handing, Hypotheses, Reaches
<1>9. ASSUME NEW w \in Workers PROVE Thread(plan, w)
  BY <1>6, TaskKinds, PoolAssumption
     DEF PoolAssumption, Thread, Shape, Tries, AtWork, Followed, Busy
<1>10. ASSUME NEW i \in Images PROVE Image(plan, R, i)
  <2>1. builds[i] = 0 /\ i \notin built /\ Retries \in Nat
    BY PoolAssumption DEF ThreadInit, PoolAssumption
  <2>2. plan.status[i] \in {"unmatched", "matched", "skipped"}
    BY DEF Hypotheses, Queued
  <2>3. Fate(plan, i)
    BY <1>2, <2>1, <2>2 DEF Fate
  <2>4. Pushing(plan, i)
    BY <1>5, <1>6, TaskKinds DEF Pushing, PushUnderway
  <2>5. ParentThere(plan, R, i)
    BY <1>2 DEF ParentThere, Hypotheses, Queued, Reaches
  <2>6. ErrorOfParent(i)
    BY <1>2, <2>2 DEF ErrorOfParent
  <2> QED
    BY <2>3, <2>4, <2>5, <2>6 DEF Image
<1> QED
  BY <1>7, <1>8, <1>9, <1>10 DEF PlanInv

LEMMA NextPlan ==
    ASSUME NEW plan, NEW R, TypeOK, Hypotheses(plan, R), PlanInv(plan, R), [Next]_vars
    PROVE  PlanInv(plan, R)'
<1>1. CASE \E w \in Workers : Worker(w)
  <2>1. PICK w \in Workers : Worker(w)
    BY <1>1
  <2> QED
    BY <2>1, OwnActions, BuildActions, FinishPushStep, GetTaskStep, GetTombstoneStep,
       PushIntoStep, PutFollowupStep DEF Worker
<1>2. CASE Main \/ JoinTimesOut \/ Interrupt
  BY <1>2, MainPlan
<1>3. CASE UNCHANGED vars
  <2>1. /\ \A r \in Queues, t \in Task : InQueue(r, t)' <=> InQueue(r, t)
        /\ QueuedOnce'
    BY <1>3 DEF vars, queueVars, InQueue, QueuedOnce, PlanInv, Once
  <2>2. UNCHANGED <<status, history, task, attempt, success, pending, pc>>
    BY <1>3 DEF vars, threadVars
  <2> QED
    BY <2>1, <2>2, TasksStay
<1> QED
  BY <1>1, <1>2, <1>3 DEF Next, Terminated

OnPlan == \E plan \in Plan, R \in SUBSET Images : Hypotheses(plan, R) /\ PlanInv(plan, R)

LEMMA StartPlan == \A plan \in Plan : HandsOnce(plan) /\ Starts(plan) => OnPlan
<1> SUFFICES ASSUME NEW plan \in Plan, HandsOnce(plan), Starts(plan) PROVE OnPlan
  OBVIOUS
<1>1. PICK R \in SUBSET Images : Hypotheses(plan, R)
  BY DEF HandsOnce, Hypotheses
<1>2. PlanInv(plan, R)
  BY <1>1, InitPlan DEF Starts
<1> QED
  BY <1>1, <1>2 DEF OnPlan

LEMMA OnPlanNext == TypeOK /\ OnPlan /\ [Next]_vars => OnPlan'
<1> SUFFICES ASSUME TypeOK, OnPlan, [Next]_vars PROVE OnPlan'
  OBVIOUS
<1>1. PICK plan \in Plan, R \in SUBSET Images : Hypotheses(plan, R) /\ PlanInv(plan, R)
  BY DEF OnPlan
<1>2. PlanInv(plan, R)'
  BY <1>1, NextPlan
<1> QED
  BY <1>1, <1>2 DEF OnPlan

LEMMA OnPlanInvariant ==
    ASSUME \A plan \in Plans : HandsOnce(plan)
    PROVE  Spec => [](TypeOK /\ OnPlan)
<1>1. Init => OnPlan
  BY StartPlan, PoolAssumption DEF Init, Starts, PoolAssumption
<1> QED
  BY <1>1, OnPlanNext, TypeCorrect, PTL DEF Spec

-----------------------------------------------------------------------------
(* What the invariant implies.  The hypothesis of the theorems is what        *)
(* build_queue provides without the skip options, and with them as long as no *)
(* skipped image lies below a matched one; KollaBuildTwice shows that it is    *)
(* needed.                                                                  *)

(* No two threads ever hold the build task of the same image, whatever fails, *)
(* is retried, or is stopped by Ctrl-C.                                     *)
LEMMA OnPlanOneBuild == TypeOK /\ OnPlan => OneBuildAtATime
<1> SUFFICES ASSUME OnPlan, NEW i \in Images
             PROVE  Cardinality({w \in Workers : Building(w, i)}) <= 1
  BY DEF OneBuildAtATime
<1> DEFINE B == {w \in Workers : Building(w, i)}
<1>1. \A v, w \in B : v = w
  BY TaskKinds DEF OnPlan, PlanInv, Once, Building
<1>2. CASE B = {}
  BY <1>2, FS_EmptySet
<1>3. CASE B # {}
  <2>1. PICK v \in B : TRUE
    BY <1>3
  <2>2. B = {v}
    BY <1>1, <2>1
  <2>3. Cardinality({v}) = 1
    BY FS_Singleton
  <2> QED
    BY <2>2, <2>3
<1> QED
  BY <1>2, <1>3

THEOREM OneBuild ==
    ASSUME \A plan \in Plans : HandsOnce(plan)
    PROVE  Spec => []OneBuildAtATime
BY OnPlanOneBuild, OnPlanInvariant, PTL

(* Docker never builds on top of a parent that is neither built nor            *)
(* deliberately skipped, although a failing push changes statuses meanwhile.   *)
LEMMA OnPlanParentFirst == TypeOK /\ OnPlan => ParentBuiltFirst
<1> SUFFICES ASSUME TypeOK, OnPlan, NEW w \in Workers, pc[w] = "building"
             PROVE  LET p == Parent[task[w].image]
                    IN  p = NoImage \/ p \in built \/ status[p] = "skipped"
  BY DEF ParentBuiltFirst
<1>1. PICK plan \in Plan, R \in SUBSET Images : Hypotheses(plan, R) /\ PlanInv(plan, R)
  BY DEF OnPlan
<1>2. Thread(plan, w) /\ task[w].kind = "build" /\ task[w] \in Task
  <2>1. Thread(plan, w) /\ task[w].kind = "build"
    BY <1>1 DEF PlanInv, Thread, Shape
  <2> QED
    BY <2>1, TaskKinds DEF TypeOK
<1>3. PICK i \in Images : i = task[w].image /\ task[w] = BuildTask(i)
  BY <1>2, TaskKinds
<1>4. Waiting(i) /\ i \in handed /\ status[i] = "building"
  BY <1>2, <1>3 DEF Waiting, Thread, AtWork
<1>5. plan.status[i] = "matched"
  BY <1>1, <1>4 DEF PlanInv, Image, Fate, Hypotheses, Queued
<1>6. \/ Parent[i] = NoImage \/ Parent[i] \in built
      \/ plan.status[Parent[i]] = "skipped" /\ Parent[i] \notin R /\ Parent[i] \in Images
  BY <1>1, <1>4, <1>5, PoolAssumption DEF PlanInv, Image, ParentThere, PoolAssumption
<1>7. handed \subseteq R
  BY <1>1 DEF PlanInv, Handing
<1> QED
  BY <1>1, <1>3, <1>6, <1>7 DEF PlanInv, Image, Fate

THEOREM ParentFirst ==
    ASSUME \A plan \in Plans : HandsOnce(plan)
    PROVE  Spec => []ParentBuiltFirst
BY OnPlanParentFirst, OnPlanInvariant, PTL

(* An image gets "parent_error" only after its parent was built and the push   *)
(* of the parent failed.                                                    *)
THEOREM ErrorFromPush ==
    ASSUME \A plan \in Plans : HandsOnce(plan)
    PROVE  Spec => []ParentErrorOnlyFromPush
<1>1. OnPlan => ParentErrorOnlyFromPush
  BY DEF OnPlan, PlanInv, Image, ErrorOfParent, ParentErrorOnlyFromPush
<1> QED
  BY <1>1, OnPlanInvariant, PTL

(* Docker builds an image at most conf.retries + 1 times.                    *)
LEMMA OnPlanBounded == OnPlan => BuildsBounded
BY DEF OnPlan, PlanInv, Image, Fate, BuildsBounded

THEOREM Bounded ==
    ASSUME \A plan \in Plans : HandsOnce(plan)
    PROVE  Spec => []BuildsBounded
BY OnPlanBounded, OnPlanInvariant, PTL

(* Once built, an image is never built again: its status can only turn into a  *)
(* push failure.                                                            *)
THEOREM BuiltStays ==
    ASSUME \A plan \in Plans : HandsOnce(plan)
    PROVE  Spec => BuiltStaysBuilt
<1>1. ASSUME TypeOK, OnPlan, [Next]_vars, NEW i \in built
      PROVE  status'[i] \in {status[i]} \cup PushErrors
  <2>1. PICK plan \in Plan, R \in SUBSET Images : Hypotheses(plan, R) /\ PlanInv(plan, R)
    BY <1>1 DEF OnPlan
  <2>2. CASE \E w \in Workers : FinishPush(w)
    BY <1>1, <2>2 DEF FinishPush, TypeOK
  <2>3. ASSUME NEW w \in Workers,
               FailForParent(w) \/ StartBuild(w) \/ BuildOK(w) \/ BuildFails(w)
        PROVE  status'[i] = status[i]
    <3>1. Thread(plan, w) /\ pc[w] \in {"run", "building"} /\ task[w].kind = "build"
      BY <2>1, <2>3
         DEF PlanInv, Thread, Shape, FailForParent, StartBuild, BuildOK, BuildFails, Runs, Goto
    <3>2. task[w].image # i
      BY <1>1, <3>1 DEF Thread, AtWork
    <3> QED
      BY <1>1, <2>3, <3>2 DEF FailForParent, StartBuild, BuildOK, BuildFails, TypeOK
  <2>4. CASE UNCHANGED status
    BY <2>4
  <2> QED
    BY <1>1, <2>2, <2>3, <2>4
       DEF Next, Worker, CheckStop, GetTask, GetTombstone, BeginAttempt, SkipBuild,
           BuildRaises, ReadStatus, PushInto, LeaveAttempts, PutFollowup, TaskDone,
           Main, StartThread, ListThread, PollBuild, PollPush, PutTombstone, Join,
           StopWorker, StoppedAll, Summarise, Cleanup, JoinTimesOut, Interrupt,
           Terminated, vars
<1>2. TypeOK /\ OnPlan /\ [Next]_vars =>
         [\A i \in built : status'[i] \in {status[i]} \cup PushErrors]_vars
  BY <1>1
<1> QED
  BY <1>2, OnPlanInvariant, PTL DEF Spec, BuiltStaysBuilt

-----------------------------------------------------------------------------
(***************************************************************************)
(* What a run that nobody interrupts has achieved when it ends, for such     *)
(* plans: no image is forgotten, and what is reported good was built and,    *)
(* with --push, pushed.                                                     *)
(***************************************************************************)

(* Thread w has built i and is about to look at the result; is on its way to   *)
(* push i, for the first time; is about to queue i; has got i to build; and is *)
(* trying to build i, with every earlier attempt spent on a docker build.     *)
Finishes(w, i) == task[w] = BuildTask(i) /\ (pc[w] = "tail" \/ (pc[w] = "after" /\ success[w]))

Brings(w, i) ==
    \/ /\ task[w] \in {IntoTask(i), PushTask(i)}
       /\ pc[w] \in {"attempt", "run"}
       /\ attempt[w] = 0
    \/ IntoTask(i) \in pending[w]

Offers(w, i) == BuildTask(i) \in pending[w]

Begins(w, i) == task[w] = BuildTask(i) /\ pc[w] \in {"attempt", "run"} /\ attempt[w] = 0

Spends(w, i) ==
    /\ task[w] = BuildTask(i)
    /\ \/ pc[w] \in {"attempt", "run"} /\ builds[i] = attempt[w]
       \/ pc[w] \in {"building", "tail"} /\ builds[i] = attempt[w] + 1

(* The push of i is done or to come; i was queued by its parent, or will be;  *)
(* its build is to begin; its attempts are used up, or will be.              *)
OnItsWay(i) ==
    \/ i \in pushed
    \/ InQueue("build", IntoTask(i)) \/ InQueue("push", PushTask(i))
    \/ \E w \in Workers : Finishes(w, i) \/ Brings(w, i)

Offered(i) == i \in handed \/ \E w \in Workers : Finishes(w, Parent[i]) \/ Offers(w, i)

ToBegin(i) == InQueue("build", BuildTask(i)) \/ \E w \in Workers : Begins(w, i)

UsedUp(i) ==
    \/ builds[i] = Retries + 1
    \/ InQueue("build", BuildTask(i)) \/ \E w \in Workers : Spends(w, i)

(* What an image is owed, according to what has become of it.                *)
ToPush(i) == Push /\ status[i] = "built"
ToOffer(plan, i) == plan.status[i] = "matched" /\ Parent[i] \in built
Untried(i) == i \in handed /\ status[i] = "matched"
Unbuilt(plan, i) ==
    /\ i \in handed /\ i \notin built
    /\ plan.status[i] = "matched" /\ status[i] # "parent_error"

Owed(plan, i) ==
    /\ ToPush(i) => OnItsWay(i)
    /\ ToOffer(plan, i) => Offered(i)
    /\ Untried(i) => ToBegin(i)
    /\ Unbuilt(plan, i) => UsedUp(i)

(* As long as nobody presses Ctrl-C, no image is lost.                       *)
Unlost(plan) ==
    interrupts = 0 =>
        /\ \A w \in Workers : ~stop[w]
        /\ \A i \in Images : Owed(plan, i)
        /\ mpc \in {"cleanup", "exited"} => good = {i \in Images : status[i] = "built"}

-----------------------------------------------------------------------------
(* A step of thread w: what is owed to i is now provided by w, or was provided *)
(* elsewhere before and still is.                                           *)
Provides(plan, w, i) ==
    /\ ToPush(i)' => OnItsWay(i)' \/ (ToPush(i) /\ ~Finishes(w, i) /\ ~Brings(w, i))
    /\ ToOffer(plan, i)' =>
          Offered(i)' \/ (ToOffer(plan, i) /\ ~Finishes(w, Parent[i]) /\ ~Offers(w, i))
    /\ Untried(i)' => ToBegin(i)' \/ (Untried(i) /\ ~Begins(w, i))
    /\ Unbuilt(plan, i)' =>
          UsedUp(i)' \/ (Unbuilt(plan, i) /\ builds'[i] = builds[i] /\ ~Spends(w, i))

LEMMA OwedStep ==
    ASSUME NEW plan, NEW w \in Workers, NEW i \in Images, Owed(plan, i), Others(w),
           handed \subseteq handed', pushed \subseteq pushed',
           \A q \in Queues, t \in Task : InQueue(q, t) => InQueue(q, t)',
           Provides(plan, w, i)
    PROVE  Owed(plan, i)'
<1>1. /\ InQueue("build", IntoTask(i)) => InQueue("build", IntoTask(i))'
      /\ InQueue("push", PushTask(i)) => InQueue("push", PushTask(i))'
      /\ InQueue("build", BuildTask(i)) => InQueue("build", BuildTask(i))'
  BY TaskKinds DEF Queues
<1>2. \A v \in Workers \ {w} : /\ Finishes(v, i) => Finishes(v, i)'
                               /\ Finishes(v, Parent[i]) => Finishes(v, Parent[i])'
                               /\ Brings(v, i) => Brings(v, i)'
                               /\ Offers(v, i) => Offers(v, i)'
                               /\ Begins(v, i) => Begins(v, i)'
                               /\ builds'[i] = builds[i] /\ Spends(v, i) => Spends(v, i)'
  BY DEF Others, Finishes, Brings, Offers, Begins, Spends
<1>3. ToPush(i)' => OnItsWay(i)'
  BY <1>1, <1>2 DEF Provides, Owed, OnItsWay
<1>4. ToOffer(plan, i)' => Offered(i)'
  BY <1>1, <1>2 DEF Provides, Owed, Offered
<1>5. Untried(i)' => ToBegin(i)'
  BY <1>1, <1>2 DEF Provides, Owed, ToBegin
<1>6. Unbuilt(plan, i)' => UsedUp(i)'
  BY <1>1, <1>2 DEF Provides, Owed, UsedUp
<1> QED
  BY <1>3, <1>4, <1>5, <1>6 DEF Owed

(* The steps of a thread that change no status and no history.               *)
LEMMA OwnProvides ==
    ASSUME NEW plan, NEW R, TypeOK, Hypotheses(plan, R), PlanInv(plan, R),
           NEW w \in Workers, ~stop[w], NEW i \in Images,
           \/ CheckStop(w) \/ GetTombstone(w) \/ BeginAttempt(w) \/ SkipBuild(w)
           \/ BuildRaises(w) \/ ReadStatus(w) \/ LeaveAttempts(w) \/ TaskDone(w)
    PROVE  Provides(plan, w, i)
<1>1. /\ Shape(w) /\ Tries(w)
      /\ Fate(plan, i)
      /\ Parent[i] \in Images => Fate(plan, Parent[i])
      /\ attempt[w] \in Nat /\ Retries \in Nat /\ builds[i] \in Nat
      /\ Parent[i] \in built => Parent[i] \in Images
      /\ BuildTask(i) \in Task
  BY PoolAssumption, TaskKinds DEF PoolAssumption, PlanInv, Thread, Image, TypeOK
<1>2. UNCHANGED <<status, handed, builds, built, pushed>>
  BY DEF CheckStop, GetTombstone, BeginAttempt, SkipBuild, BuildRaises, ReadStatus,
         LeaveAttempts, TaskDone, history
<1>3. SUFFICES /\ ToPush(i) /\ (Finishes(w, i) \/ Brings(w, i)) => OnItsWay(i)'
               /\ ToOffer(plan, i) /\ (Finishes(w, Parent[i]) \/ Offers(w, i)) => Offered(i)'
               /\ Untried(i) /\ Begins(w, i) => ToBegin(i)'
               /\ Unbuilt(plan, i) /\ Spends(w, i) => UsedUp(i)'
  BY <1>2 DEF Provides, ToPush, ToOffer, Untried, Unbuilt
<1>4. \A j : task[w] = BuildTask(j) => task[w].kind = "build" /\ task[w].image = j
  BY DEF BuildTask
<1>5. \A j : task[w] \in {IntoTask(j), PushTask(j)} => task[w].kind # "build" /\ task[w] # NoTask
  BY DEF IntoTask, PushTask, NoTask
<1>6. CASE CheckStop(w) \/ GetTombstone(w) \/ TaskDone(w)
  <2>1. pending[w] = {} /\ (pc[w] = "putting" \/ task[w] = NoTask)
    BY <1>1, <1>6 DEF CheckStop, GetTombstone, TaskDone, Goto, Shape, Busy
  <2> QED
    BY <1>4, <1>5, <1>6, <2>1
       DEF Finishes, Brings, Offers, Begins, Spends, NoTask, CheckStop, GetTombstone, TaskDone, Goto
<1>7. CASE BeginAttempt(w)
  <2>1. /\ pc[w] = "attempt" /\ pending[w] = {}
        /\ UNCHANGED <<task, attempt, pending, builds, queue>>
        /\ pc'[w] = IF attempt[w] > Retries THEN "after" ELSE "run"
    BY <1>1, <1>7 DEF BeginAttempt, Goto, Shape, TypeOK, queueVars, history
  <2>2. CASE attempt[w] > Retries
    <3>1. attempt[w] = Retries + 1
      BY <1>1, <2>2 DEF Tries
    <3> QED
      BY <1>1, <2>1, <2>2, <3>1
         DEF Finishes, Brings, Offers, Begins, Spends, UsedUp
  <2>3. CASE ~(attempt[w] > Retries)
    BY <2>1, <2>3
       DEF Finishes, Brings, Offers, Begins, Spends, OnItsWay, ToBegin, UsedUp
  <2> QED
    BY <2>2, <2>3
<1>8. CASE SkipBuild(w)
  <2>1. /\ pc[w] = "run" /\ pending[w] = {} /\ task[w].kind = "build"
        /\ status[task[w].image] \in {"skipped", "unmatched"}
    BY <1>1, <1>8 DEF SkipBuild, Runs, Shape
  <2>2. Begins(w, i) \/ Spends(w, i) => status[i] \in {"skipped", "unmatched"}
    BY <1>4, <2>1 DEF Begins, Spends
  <2> QED
    BY <1>1, <1>5, <2>1, <2>2
       DEF Finishes, Brings, Offers, Untried, Unbuilt, Fate
<1>9. CASE BuildRaises(w)
  <2>1. /\ pc[w] = "building" /\ pending[w] = {} /\ task[w].kind = "build"
        /\ task'[w] = task[w] /\ pc'[w] = "attempt" /\ attempt'[w] = attempt[w] + 1
        /\ builds' = builds
    BY <1>1, <1>9 DEF BuildRaises, TryAgain, Goto, Shape, TypeOK, history
  <2> QED
    BY <1>5, <2>1
       DEF Finishes, Brings, Offers, Begins, Spends, UsedUp
<1>10. CASE ReadStatus(w)
  <2>1. /\ pc[w] = "tail" /\ pending[w] = {} /\ task[w].kind = "build"
        /\ task'[w] = task[w] /\ builds' = builds
        /\ IF status[task[w].image] \in {"built", "skipped"}
             THEN pc'[w] = "after" /\ success'[w]
             ELSE pc'[w] = "attempt" /\ attempt'[w] = attempt[w] + 1
    BY <1>1, <1>10 DEF ReadStatus, Succeed, TryAgain, Goto, Shape, TypeOK, history
  <2>2. ToPush(i) /\ Finishes(w, i) => OnItsWay(i)'
    BY <1>4, <2>1 DEF ToPush, Finishes, OnItsWay
  <2>3. ToOffer(plan, i) /\ Finishes(w, Parent[i]) => Offered(i)'
    <3> SUFFICES ASSUME ToOffer(plan, i), Finishes(w, Parent[i]) PROVE Offered(i)'
      OBVIOUS
    <3>1. Waiting(Parent[i])
      BY <2>1 DEF Finishes, Waiting
    <3>2. status[Parent[i]] = "built"
      BY <1>1, <3>1 DEF ToOffer, Fate
    <3> QED
      BY <1>4, <2>1, <3>2 DEF Finishes, Offered
  <2>4. Unbuilt(plan, i) /\ Spends(w, i) => UsedUp(i)'
    BY <1>1, <1>4, <2>1 DEF Unbuilt, Spends, UsedUp, Fate
  <2> QED
    BY <1>5, <2>1, <2>2, <2>3, <2>4
       DEF Brings, Offers, Begins
<1>11. CASE LeaveAttempts(w)
  <2>1. /\ pc[w] = "after" /\ pending[w] = {}
        /\ success[w] => pending'[w] = Followups(task[w])
    BY <1>1, <1>11 DEF LeaveAttempts, Goto, Shape, TypeOK
  <2>2. ToPush(i) /\ Finishes(w, i) => OnItsWay(i)'
    <3>1. Push /\ task[w] = BuildTask(i) => IntoTask(i) \in Followups(task[w])
      BY <1>4 DEF Followups
    <3> QED
      BY <2>1, <3>1 DEF ToPush, Finishes, OnItsWay, Brings
  <2>3. ToOffer(plan, i) /\ Finishes(w, Parent[i]) => Offered(i)'
    <3>1. status[i] # "unmatched" /\ task[w] = BuildTask(Parent[i])
             => BuildTask(i) \in Followups(task[w])
      BY <1>4 DEF Followups
    <3> QED
      BY <1>1, <2>1, <3>1 DEF ToOffer, Finishes, Offered, Offers, Fate
  <2> QED
    BY <2>1, <2>2, <2>3 DEF Brings, Offers, Begins, Spends
<1> QED
  BY <1>6, <1>7, <1>8, <1>9, <1>10, <1>11

(* The steps that build image x.                                             *)
LEMMA BuildProvides ==
    ASSUME NEW plan, NEW R, TypeOK, Hypotheses(plan, R), PlanInv(plan, R),
           NEW w \in Workers, NEW i \in Images, Owed(plan, i),
           FailForParent(w) \/ StartBuild(w) \/ BuildOK(w) \/ BuildFails(w)
    PROVE  Provides(plan, w, i)
<1>1. /\ Thread(plan, w)
      /\ task[w].kind = "build"
      /\ pc[w] \in {"run", "building"}
      /\ pending[w] = {} /\ ~success[w]
  BY DEF PlanInv, Thread, Shape, FailForParent, StartBuild, BuildOK, BuildFails, Runs, Goto
<1>2. PICK x \in Images : x = task[w].image /\ task[w] = BuildTask(x)
  BY <1>1, TaskKinds DEF TypeOK
<1>3. /\ x \notin built
      /\ attempt[w] \in Nat /\ attempt[w] <= Retries /\ Retries \in Nat
      /\ builds[x] \in Nat /\ builds[x] <= attempt[w] + 1
      /\ pc[w] = "run" => builds[x] <= attempt[w]
      /\ pc[w] = "building" => status[x] = "building"
  BY <1>1, <1>2, PoolAssumption DEF PoolAssumption, Thread, AtWork, Tries, TypeOK
<1>4. /\ UNCHANGED <<queue, handed, pushed>>
      /\ task'[w] = task[w] /\ attempt'[w] = attempt[w] /\ pending'[w] = pending[w]
      /\ \A j \in Images \ {x} : status'[j] = status[j] /\ builds'[j] = builds[j]
      /\ \A j : j # x => (j \in built' <=> j \in built)
  BY <1>2 DEF TypeOK, FailForParent, StartBuild, BuildOK, BuildFails, queueVars, history
<1>5. \A j : ~Finishes(w, j) /\ ~Brings(w, j) /\ ~Offers(w, j)
  BY <1>1 DEF Finishes, Brings, Offers, IntoTask, PushTask
<1>6. \A j : j # x => ~Begins(w, j) /\ ~Spends(w, j)
  BY <1>2 DEF Begins, Spends, BuildTask
<1>7. CASE i # x /\ ~(BuildOK(w) /\ Parent[i] = x)
  <2>1. Parent[i] \in built' => Parent[i] \in built
    <3>1. CASE BuildOK(w)
      BY <1>4, <1>7, <3>1
    <3>2. CASE ~BuildOK(w)
      BY <3>2 DEF FailForParent, StartBuild, BuildFails, history
    <3> QED
      BY <3>1, <3>2
  <2> QED
    BY <1>4, <1>5, <1>6, <1>7, <2>1
       DEF Provides, ToPush, ToOffer, Untried, Unbuilt
<1>8. CASE i # x /\ BuildOK(w) /\ Parent[i] = x
  <2>1. Finishes(w, x)'
    BY <1>2, <1>4, <1>8 DEF BuildOK, Goto, Finishes, TypeOK
  <2> QED
    BY <1>4, <1>5, <1>6, <1>8, <2>1
       DEF Provides, ToPush, ToOffer, Untried, Unbuilt, Offered
<1>9. CASE i = x
  <2>0. Parent[x] # x
    <3>1. x \in handed /\ Waiting(x)
      BY <1>1, <1>2 DEF Thread, AtWork, Waiting
    <3> QED
      BY <3>1 DEF PlanInv, Handing, Hypotheses, Reaches
  <2>1. ToOffer(plan, i)' => ToOffer(plan, i)
    BY <1>4, <1>9, <2>0 DEF ToOffer
  <2>2. CASE FailForParent(w)
    <3>1. status'[i] = "parent_error"
      BY <1>2, <1>9, <2>2 DEF FailForParent, TypeOK
    <3> QED
      BY <1>5, <2>1, <3>1 DEF Provides, ToPush, Untried, Unbuilt
  <2>3. CASE StartBuild(w)
    <3>1. /\ status'[i] = "building" /\ builds'[i] = builds[i] + 1
          /\ pc[w] = "run" /\ pc'[w] = "building" /\ built' = built
          /\ ~ParentFailed(i)
      BY <1>2, <1>9, <2>3 DEF StartBuild, Runs, Goto, TypeOK
    <3>2. status[i] # "parent_error"
      BY <1>9, <3>1, PoolAssumption
         DEF PoolAssumption, PlanInv, Image, ErrorOfParent, ParentFailed, Errors, TypeOK
    <3>3. ASSUME Unbuilt(plan, i)' PROVE Spends(w, i)'
      <4>1. UsedUp(i)
        BY <1>4, <3>1, <3>2, <3>3 DEF Owed, Unbuilt
      <4>2. ~InQueue("build", BuildTask(i)) /\ \A v \in Workers : Spends(v, i) => v = w
        BY <1>1, <1>2, <1>9 DEF PlanInv, Once, Spends
      <4>3. builds[i] # Retries + 1
        BY <1>3, <1>9, <3>1
      <4>4. builds[i] = attempt[w]
        BY <3>1, <4>1, <4>2, <4>3 DEF UsedUp, Spends
      <4> QED
        BY <1>2, <1>4, <1>9, <3>1, <4>4 DEF Spends
    <3>4. Unbuilt(plan, i)' => UsedUp(i)'
      BY <3>3 DEF UsedUp
    <3> QED
      BY <1>5, <2>1, <3>1, <3>4 DEF Provides, ToPush, Untried
  <2>4. CASE BuildOK(w)
    <3>1. /\ status'[i] = "built" /\ i \in built' /\ Finishes(w, i)'
      BY <1>2, <1>4, <1>9, <2>4 DEF BuildOK, Goto, TypeOK, Finishes
    <3>2. OnItsWay(i)'
      BY <3>1 DEF OnItsWay
    <3> QED
      BY <1>5, <2>1, <3>1, <3>2 DEF Provides, Untried, Unbuilt
  <2>5. CASE BuildFails(w)
    <3>1. /\ status'[i] \in BuildErrors /\ builds' = builds /\ built' = built
          /\ pc[w] = "building" /\ pc'[w] = "tail"
      BY <1>2, <1>9, <2>5 DEF BuildFails, Goto, TypeOK, history
    <3>2. BuildErrors \subseteq {"error", "connection_error"}
      BY PoolAssumption DEF PoolAssumption
    <3>3. Unbuilt(plan, i)' => Unbuilt(plan, i)
      BY <1>3, <1>4, <1>9, <3>1 DEF Unbuilt
    <3>4. Spends(w, i) => Spends(w, i)'
      BY <1>4, <3>1 DEF Spends
    <3>5. Unbuilt(plan, i)' /\ Spends(w, i) => UsedUp(i)'
      BY <3>4 DEF UsedUp
    <3> QED
      BY <1>5, <2>1, <3>1, <3>2, <3>3, <3>5 DEF Provides, ToPush, Untried
  <2> QED
    BY <2>2, <2>3, <2>4, <2>5
<1> QED
  BY <1>7, <1>8, <1>9

(* The answer of the registry.                                               *)
LEMMA PushProvides ==
    ASSUME NEW plan, NEW R, TypeOK, PlanInv(plan, R),
           NEW w \in Workers, NEW i \in Images, FinishPush(w)
    PROVE  Provides(plan, w, i)
<1>1. task[w].kind = "push" /\ task[w] \in Task /\ pending[w] = {}
  <2>1. task[w].kind = "push" /\ pending[w] = {}
    BY DEF FinishPush, Runs, PlanInv, Thread, Shape
  <2> QED
    BY <2>1, TaskKinds DEF TypeOK
<1>2. PICK x \in Images : x = task[w].image /\ task[w] = PushTask(x)
  BY <1>1, TaskKinds
<1>3. PICK answer \in {"ok"} \cup PushErrors :
           /\ status' = IF answer = "ok" THEN status ELSE [status EXCEPT ![x] = answer]
           /\ pushed' = IF answer = "ok" THEN pushed \cup {x} ELSE pushed
  BY <1>2 DEF FinishPush
<1>4. UNCHANGED <<handed, builds, built>>
  BY DEF FinishPush
<1>5. /\ \A j : j # x => ~Brings(w, j)
      /\ \A j : ~Finishes(w, j) /\ ~Offers(w, j) /\ ~Begins(w, j) /\ ~Spends(w, j)
  BY <1>1, <1>2
     DEF Finishes, Brings, Offers, Begins, Spends, BuildTask, IntoTask, PushTask
<1>6. x \in built \/ plan.status[x] = "skipped"
  <2>1. PushUnderway(x)
    BY <1>2 DEF PushUnderway
  <2> QED
    BY <2>1 DEF PlanInv, Image, Pushing, Fit
<1>7. PushErrors \subseteq {"error", "connection_error", "push_error"}
  BY PoolAssumption DEF PoolAssumption
<1>8. CASE answer = "ok"
  BY <1>3, <1>4, <1>5, <1>8
     DEF Provides, ToPush, ToOffer, Untried, Unbuilt, OnItsWay
<1>9. CASE answer # "ok"
  <2>1. status'[x] \in PushErrors /\ \A j \in Images \ {x} : status'[j] = status[j]
    BY <1>3, <1>9 DEF TypeOK
  <2>2. CASE i = x
    BY <1>4, <1>5, <1>6, <1>7, <2>1, <2>2
       DEF Provides, ToPush, ToOffer, Untried, Unbuilt
  <2>3. CASE i # x
    BY <1>4, <1>5, <2>1, <2>3 DEF Provides, ToPush, ToOffer, Untried, Unbuilt
  <2> QED
    BY <2>2, <2>3
<1> QED
  BY <1>8, <1>9

(* The followups go to the queues. *)
LEMMA PutProvides ==
    ASSUME NEW plan, NEW R, TypeOK, PlanInv(plan, R),
           NEW w \in Workers, NEW i \in Images, PushInto(w) \/ PutFollowup(w)
    PROVE  /\ Provides(plan, w, i)
           /\ \A q \in Queues, t \in Task : InQueue(q, t) => InQueue(q, t)'
<1>q. "build" \in Queues /\ "push" \in Queues
  BY DEF Queues
<1>i. BuildTask(i) \in Task /\ IntoTask(i) \in Task /\ PushTask(i) \in Task
  BY TaskKinds
<1>1. CASE PushInto(w)
  <2>1. /\ task[w].kind = "into" /\ task[w] \in Task /\ pending[w] = {}
        /\ UNCHANGED <<status, handed, builds, built, pushed>>
    <3>1. task[w].kind = "into" /\ pending[w] = {}
      BY <1>1 DEF PushInto, Runs, PlanInv, Thread, Shape
    <3> QED
      BY <1>1, <3>1, TaskKinds DEF TypeOK, PushInto, history
  <2>2. PICK x \in Images : x = task[w].image /\ task[w] = IntoTask(x)
    BY <2>1, TaskKinds
  <2>3. \A q \in Queues, t \in Task :
           InQueue(q, t)' <=> InQueue(q, t) \/ (q = "push" /\ t = PushTask(x))
    BY <1>1, <1>q, <2>2, PutEntry, TaskKinds DEF PushInto
  <2>4. /\ \A j : j # x => ~Brings(w, j)
        /\ \A j : ~Finishes(w, j) /\ ~Offers(w, j) /\ ~Begins(w, j) /\ ~Spends(w, j)
    BY <2>1, <2>2
       DEF Finishes, Brings, Offers, Begins, Spends, BuildTask, IntoTask, PushTask
  <2>5. InQueue("push", PushTask(x))'
    BY <1>q, <2>3, TaskKinds
  <2> QED
    BY <2>1, <2>3, <2>4, <2>5 DEF Provides, ToPush, ToOffer, Untried, Unbuilt, OnItsWay
<1>2. CASE PutFollowup(w)
  <2>1. PICK t \in pending[w] :
             /\ Put(Served(w), t)
             /\ pending' = [pending EXCEPT ![w] = @ \ {t}]
             /\ handed' = handed \cup {j \in {t.image} : t.kind = "build"}
    BY <1>2 DEF PutFollowup
  <2>2. /\ UNCHANGED <<status, builds, built, pushed>>
        /\ pc[w] = "putting" /\ pending'[w] = pending[w] \ {t}
    BY <1>2, <2>1 DEF PutFollowup, Goto, TypeOK
  <2>3. t \in Task /\ Served(w) = "build"
    BY <2>1, <2>2 DEF TypeOK, PlanInv, Thread, Shape, Served
  <2>4. \A q \in Queues, u \in Task :
           InQueue(q, u)' <=> InQueue(q, u) \/ (q = "build" /\ u = t)
    BY <1>q, <2>1, <2>3, PutEntry
  <2>5. ~Finishes(w, i) /\ ~Finishes(w, Parent[i]) /\ ~Begins(w, i) /\ ~Spends(w, i)
    BY <2>2 DEF Finishes, Begins, Spends
  <2>6. Brings(w, i) => OnItsWay(i)'
    <3>1. Brings(w, i) => IntoTask(i) \in pending[w]
      BY <2>2 DEF Brings
    <3>2. CASE t = IntoTask(i)
      BY <1>i, <1>q, <2>4, <3>2 DEF OnItsWay
    <3>3. CASE t # IntoTask(i)
      BY <2>2, <3>1, <3>3 DEF OnItsWay, Brings
    <3> QED
      BY <3>2, <3>3
  <2>7. CASE t = BuildTask(i)
    <3>1. i \in handed' /\ InQueue("build", BuildTask(i))'
      BY <1>i, <1>q, <2>1, <2>4, <2>7 DEF BuildTask
    <3> QED
      BY <2>2, <2>4, <2>5, <2>6, <3>1
         DEF Provides, ToPush, Offered, ToBegin, UsedUp
  <2>8. CASE t # BuildTask(i)
    <3>1. i \in handed' <=> i \in handed
      BY <2>1, <2>3, <2>8, TaskKinds
    <3>2. Offers(w, i) => Offered(i)'
      BY <2>2, <2>8 DEF Offered, Offers
    <3> QED
      BY <2>2, <2>4, <2>5, <2>6, <3>1, <3>2
         DEF Provides, ToPush, ToOffer, Untried, Unbuilt
  <2> QED
    BY <2>7, <2>8
<1> QED
  BY <1>1, <1>2

(* A task changes from the queue to the thread, for its first attempt.        *)
LEMMA GetTaskOwed ==
    ASSUME NEW plan, NEW R, TypeOK, PlanInv(plan, R),
           NEW w \in Workers, NEW i \in Images, Owed(plan, i), GetTask(w)
    PROVE  Owed(plan, i)'
<1> DEFINE t == Head(queue[Served(w)])
<1>1. /\ Others(w)
      /\ UNCHANGED <<status, handed, builds, built, pushed>>
      /\ attempt'[w] = attempt[w] /\ pending'[w] = pending[w]
      /\ task'[w] = t /\ pc'[w] = "attempt"
      /\ pc[w] = "get"
  BY DEF GetTask, Goto, Others, TypeOK, history
<1>2. task[w] = NoTask /\ pending[w] = {} /\ attempt[w] = 0
  BY <1>1 DEF PlanInv, Thread, Shape, Tries, Busy
<1>3. \A r \in Queues, u \in Task : InQueue(r, u) => InQueue(r, u)' \/ u = t
  <2>1. QueuedOnce /\ Served(w) \in Queues
    BY ServedQueue DEF PlanInv, Once
  <2> QED
    BY <2>1, TakeEntry DEF GetTask
<1> HIDE DEF t
<1>4. /\ InQueue("build", IntoTask(i)) => InQueue("build", IntoTask(i))' \/ IntoTask(i) = t
      /\ InQueue("push", PushTask(i)) => InQueue("push", PushTask(i))' \/ PushTask(i) = t
      /\ InQueue("build", BuildTask(i)) => InQueue("build", BuildTask(i))' \/ BuildTask(i) = t
  BY <1>3, TaskKinds DEF Queues
<1>5. \A j : ~Finishes(w, j) /\ ~Brings(w, j) /\ ~Offers(w, j) /\ ~Begins(w, j) /\ ~Spends(w, j)
  BY <1>1, <1>2 DEF Finishes, Brings, Offers, Begins, Spends
<1>6. \A v \in Workers \ {w} : /\ Finishes(v, i) => Finishes(v, i)'
                               /\ Finishes(v, Parent[i]) => Finishes(v, Parent[i])'
                               /\ Brings(v, i) => Brings(v, i)'
                               /\ Offers(v, i) => Offers(v, i)'
                               /\ Begins(v, i) => Begins(v, i)'
                               /\ Spends(v, i) => Spends(v, i)'
  BY <1>1 DEF Others, Finishes, Brings, Offers, Begins, Spends
<1>7. IntoTask(i) = t \/ PushTask(i) = t => Brings(w, i)'
  BY <1>1, <1>2 DEF Brings
<1>8. BuildTask(i) = t => Begins(w, i)'
  BY <1>1, <1>2 DEF Begins
<1>9. Unbuilt(plan, i) /\ InQueue("build", BuildTask(i)) /\ BuildTask(i) = t => Spends(w, i)'
  <2>1. Unbuilt(plan, i) /\ InQueue("build", BuildTask(i)) => builds[i] = 0
    BY DEF Unbuilt, PlanInv, Image, Fate, Fresh
  <2> QED
    BY <1>1, <1>2, <2>1 DEF Spends
<1>10. ToPush(i)' => OnItsWay(i)'
  BY <1>1, <1>4, <1>5, <1>6, <1>7 DEF Owed, ToPush, OnItsWay
<1>11. ToOffer(plan, i)' => Offered(i)'
  BY <1>1, <1>5, <1>6 DEF Owed, ToOffer, Offered
<1>12. Untried(i)' => ToBegin(i)'
  BY <1>1, <1>4, <1>5, <1>6, <1>8 DEF Owed, Untried, ToBegin
<1>13. Unbuilt(plan, i)' => UsedUp(i)'
  BY <1>1, <1>4, <1>5, <1>6, <1>9 DEF Owed, Unbuilt, UsedUp
<1> QED
  BY <1>10, <1>11, <1>12, <1>13 DEF Owed

(* Every step of a thread.                                                   *)
LEMMA WorkerOwed ==
    ASSUME NEW plan, NEW R, TypeOK, Hypotheses(plan, R), PlanInv(plan, R),
           NEW w \in Workers, Worker(w), ~stop[w],
           NEW i \in Images, Owed(plan, i)
    PROVE  Owed(plan, i)'
<1>1. CASE GetTask(w)
  BY <1>1, GetTaskOwed
<1>2. CASE ~GetTask(w)
  <2>1. Others(w)
    BY <1>2
       DEF Worker, Others, TypeOK, Goto, TryAgain, Succeed, CheckStop, GetTombstone,
           BeginAttempt, SkipBuild, FailForParent, StartBuild, BuildOK, BuildFails,
           BuildRaises, ReadStatus, PushInto, FinishPush, LeaveAttempts, PutFollowup,
           TaskDone
  <2>2. handed \subseteq handed' /\ pushed \subseteq pushed'
    BY <1>2
       DEF Worker, CheckStop, GetTombstone, BeginAttempt, SkipBuild, FailForParent,
           StartBuild, BuildOK, BuildFails, BuildRaises, ReadStatus, PushInto, FinishPush,
           LeaveAttempts, PutFollowup, TaskDone, history
  <2>3. CASE PushInto(w) \/ PutFollowup(w)
    BY <2>1, <2>2, <2>3, PutProvides, OwedStep
  <2>4. CASE ~(PushInto(w) \/ PutFollowup(w))
    <3>1. \A q \in Queues, t \in Task : InQueue(q, t) => InQueue(q, t)'
      <4>1. CASE GetTombstone(w)
        BY <4>1, GetTombstoneEntry DEF PlanInv, Once
      <4>2. CASE ~GetTombstone(w)
        <5>1. queue' = queue
          BY <1>2, <2>4, <4>2
             DEF Worker, CheckStop, BeginAttempt, SkipBuild, FailForParent, StartBuild,
                 BuildOK, BuildFails, BuildRaises, ReadStatus, FinishPush, LeaveAttempts,
                 TaskDone, queueVars
        <5> QED
          BY <5>1 DEF InQueue
      <4> QED
        BY <4>1, <4>2
    <3>2. Provides(plan, w, i)
      BY <1>2, <2>4, OwnProvides, BuildProvides, PushProvides DEF Worker
    <3> QED
      BY <2>1, <2>2, <3>1, <3>2, OwedStep
  <2> QED
    BY <2>3, <2>4
<1> QED
  BY <1>1, <1>2

(* The main thread starts threads and puts tombstones.                        *)
LEMMA MainOwed ==
    ASSUME NEW plan, NEW R, TypeOK, PlanInv(plan, R), Main,
           NEW i \in Images, Owed(plan, i)
    PROVE  Owed(plan, i)'
<1>1. UNCHANGED <<status, handed, builds, built, pushed, task, attempt, success, pending>>
  BY DEF Main, StartThread, ListThread, PollBuild, PollPush, PutTombstone, Join, StopWorker,
         StoppedAll, Summarise, Cleanup, threadVars, history
<1>2. \A r \in Queues, t \in Task : InQueue(r, t) => InQueue(r, t)'
  <2>1. CASE PutTombstone
    <3>1. PICK q \in Queues : Put(q, Tombstone)
      BY <2>1 DEF PutTombstone, Queues
    <3> QED
      BY <3>1, PutEntry
  <2>2. CASE ~PutTombstone
    <3>1. queue' = queue
      BY <2>2 DEF Main, StartThread, ListThread, PollBuild, PollPush, Join, StopWorker,
                  StoppedAll, Summarise, Cleanup, queueVars
    <3> QED
      BY <3>1 DEF InQueue
  <2> QED
    BY <2>1, <2>2
<1>3. \A w \in Workers : pc'[w] = pc[w] \/ (task[w] = NoTask /\ pending[w] = {})
  <2>1. CASE \E v \in Workers : StartThread(v)
    <3>1. PICK v \in Workers : pc[v] = "new" /\ pc' = [pc EXCEPT ![v] = "check"]
      BY <2>1 DEF StartThread
    <3>2. task[v] = NoTask /\ pending[v] = {}
      BY <3>1 DEF PlanInv, Thread, Shape, Busy
    <3> QED
      BY <3>1, <3>2 DEF TypeOK
  <2>2. CASE pc' = pc
    BY <2>2
  <2> QED
    BY <2>1, <2>2
       DEF Main, ListThread, PollBuild, PollPush, PutTombstone, Join, StopWorker,
           StoppedAll, Summarise, Cleanup, threadVars
<1>4. /\ InQueue("build", IntoTask(i)) => InQueue("build", IntoTask(i))'
      /\ InQueue("push", PushTask(i)) => InQueue("push", PushTask(i))'
      /\ InQueue("build", BuildTask(i)) => InQueue("build", BuildTask(i))'
  BY <1>2, TaskKinds DEF Queues
<1>5. \A v \in Workers : /\ \A j : Finishes(v, j) => Finishes(v, j)'
                         /\ Brings(v, i) => Brings(v, i)'
                         /\ Offers(v, i) => Offers(v, i)'
                         /\ Begins(v, i) => Begins(v, i)'
                         /\ Spends(v, i) => Spends(v, i)'
  BY <1>1, <1>3
     DEF Finishes, Brings, Offers, Begins, Spends, BuildTask, IntoTask, PushTask, NoTask
<1> QED
  BY <1>1, <1>4, <1>5
     DEF Owed, ToPush, ToOffer, Untried, Unbuilt, OnItsWay, Offered, ToBegin, UsedUp

-----------------------------------------------------------------------------
(* Nothing is lost from the start to the end. *)

LEMMA StartUnlost ==
    ASSUME NEW plan, NEW R, Hypotheses(plan, R), Starts(plan)
    PROVE  Unlost(plan)
<1>1. /\ InitFrom(plan) /\ ThreadInit /\ mpc = "start"
      /\ plan.roots \in Seq(Images)
  BY DEF Starts, Hypotheses, Plan
<1>2. /\ status = plan.status /\ built = {} /\ handed = Roots(plan)
      /\ \A i \in Images : status[i] \in {"unmatched", "matched", "skipped"}
  BY <1>1 DEF InitFrom, ThreadInit, Hypotheses, Queued, Roots
<1>3. queue["build"] = [k \in DOMAIN plan.roots |-> BuildTask(plan.roots[k])]
  BY <1>1 DEF InitFrom, Queues
<1>4. \A i \in handed : InQueue("build", BuildTask(i))
  BY <1>2, <1>3 DEF Roots, InQueue
<1>5. \A i \in Images : Owed(plan, i)
  BY <1>2, <1>4 DEF Owed, ToPush, ToOffer, Untried, Unbuilt, ToBegin, UsedUp
<1>6. \A w \in Workers : ~stop[w]
  BY <1>1 DEF ThreadInit
<1> QED
  BY <1>1, <1>5, <1>6 DEF Unlost

(* A thread changes no status once the main thread shuts the pool down.       *)
LEMMA IdleStatus ==
    ASSUME TypeOK, Quiet, interrupts = 0, ShuttingDown, NEW w \in Workers, Worker(w)
    PROVE  status' = status
<1>1. Idle(Served(w))
  BY ServedQueue DEF Quiet, Queues
<1> QED
  BY <1>1, IdleWorker DEF CheckStop, GetTombstone

LEMMA NextUnlost ==
    ASSUME NEW plan, NEW R, IInv, Hypotheses(plan, R), PlanInv(plan, R), Unlost(plan), [Next]_vars
    PROVE  Unlost(plan)'
<1> SUFFICES ASSUME interrupts' = 0
             PROVE  /\ \A w \in Workers : ~stop'[w]
                    /\ \A i \in Images : Owed(plan, i)'
                    /\ mpc' \in {"cleanup", "exited"} =>
                          good' = {i \in Images : status'[i] = "built"}
  BY DEF Unlost
<1>t. TypeOK /\ Quiet
  BY DEF IInv
<1>1. CASE \E w \in Workers : Worker(w)
  <2>1. PICK w \in Workers : Worker(w)
    BY <1>1
  <2>2. UNCHANGED <<stop, mpc, good, interrupts>>
    BY <2>1
       DEF Worker, CheckStop, GetTask, GetTombstone, BeginAttempt, SkipBuild, FailForParent,
           StartBuild, BuildOK, BuildFails, BuildRaises, ReadStatus, PushInto, FinishPush,
           LeaveAttempts, PutFollowup, TaskDone, mainVars
  <2>3. mpc \in {"cleanup", "exited"} => status' = status
    BY <1>t, <2>1, <2>2, IdleStatus DEF ShuttingDown
  <2>4. /\ \A v \in Workers : ~stop[v]
        /\ \A i \in Images : Owed(plan, i)
    BY <2>2 DEF Unlost
  <2>5. \A i \in Images : Owed(plan, i)'
    BY <1>t, <2>1, <2>4, WorkerOwed
  <2> QED
    BY <2>2, <2>3, <2>4, <2>5 DEF Unlost
<1>2. CASE Main
  <2>1. UNCHANGED <<status, interrupts>>
    BY <1>2 DEF Main, StartThread, ListThread, PollBuild, PollPush, PutTombstone, Join,
                StopWorker, StoppedAll, Summarise, Cleanup, mainVars
  <2>2. \A i \in Images : Owed(plan, i)'
    BY <1>t, <1>2, <2>1, MainOwed DEF Unlost
  <2>3. stop' = stop
    BY <1>t, <1>2, <2>1
       DEF Quiet, Main, StartThread, ListThread, PollBuild, PollPush, PutTombstone, Join,
           StopWorker, StoppedAll, Summarise, Cleanup
  <2>4. mpc' \in {"cleanup", "exited"} =>
           \/ good' = {i \in Images : status[i] = "built"}
           \/ mpc \in {"cleanup", "exited"} /\ good' = good
    BY <1>2 DEF Main, StartThread, ListThread, PollBuild, PollPush, PutTombstone, Join,
                StopWorker, StoppedAll, Summarise, Cleanup, MainGoto, mainVars
  <2> QED
    BY <2>1, <2>2, <2>3, <2>4 DEF Unlost
<1>3. CASE JoinTimesOut
  BY <1>t, <1>3 DEF JoinTimesOut, MainGoto, Quiet
<1>4. CASE Interrupt
  BY <1>t, <1>4 DEF Interrupt, TypeOK
<1>5. CASE UNCHANGED vars
  <2> USE <1>5 DEF vars, queueVars, threadVars, mainVars, history
  <2>1. \A i \in Images : Owed(plan, i)' <=> Owed(plan, i)
    BY DEF Owed, ToPush, ToOffer, Untried, Unbuilt, OnItsWay, Offered, ToBegin, UsedUp,
           InQueue, Finishes, Brings, Offers, Begins, Spends
  <2> QED
    BY <2>1 DEF Unlost
<1> QED
  BY <1>1, <1>2, <1>3, <1>4, <1>5 DEF Next, Terminated

(* At the end, when both queues are idle: an image that was handed out and is  *)
(* not built has used up its attempts or met a failed parent, an image that    *)
(* was not handed out lies below one that is not built, and what has the       *)
(* status "built" was pushed.                                               *)
LEMMA UnlostAtEnd ==
    ASSUME NEW plan \in Plan, NEW R, IInv, Hypotheses(plan, R), PlanInv(plan, R), Unlost(plan),
           mpc = "exited", interrupts = 0
    PROVE  /\ good = {i \in Images : status[i] = "built"}
           /\ \A i \in Images :
                 /\ ToPush(i) => i \in pushed
                 /\ i \in handed => status[i] # "matched"
                 /\ Unbuilt(plan, i) => builds[i] = Retries + 1
                 /\ plan.status[i] = "matched" /\ i \notin handed =>
                       /\ Parent[i] # NoImage
                       /\ Parent[i] \notin built
                       /\ plan.status[Parent[i]] # "skipped"
<1>1. Idle("build") /\ Idle("push")
  BY DEF IInv, Quiet, ShuttingDown
<1>2. \A w \in Workers : task[w] = NoTask /\ pending[w] = {}
  <2> SUFFICES ASSUME NEW w \in Workers PROVE task[w] = NoTask /\ pending[w] = {}
    OBVIOUS
  <2>1. pc[w] \notin Busy
    BY <1>1, ServedQueue DEF Idle, BusyAt, Queues
  <2> QED
    BY <2>1 DEF PlanInv, Thread, Shape, Busy
<1>3. \A q \in Queues, t \in Task : ~InQueue(q, t)
  BY <1>1, TaskKinds DEF Idle, QueuedTasks, InQueue, Queues
<1>4. \A i \in Images : /\ ~InQueue("build", BuildTask(i))
                        /\ ~InQueue("build", IntoTask(i))
                        /\ ~InQueue("push", PushTask(i))
  BY <1>3, TaskKinds DEF Queues
<1>5. \A w \in Workers : \A i : /\ ~Finishes(w, i) /\ ~Brings(w, i) /\ ~Offers(w, i)
                                /\ ~Begins(w, i) /\ ~Spends(w, i)
  BY <1>2
     DEF Finishes, Brings, Offers, Begins, Spends, BuildTask, IntoTask, PushTask, NoTask
<1>6. \A i \in Images : Owed(plan, i)
  BY DEF Unlost
<1>7. ASSUME NEW i \in Images, plan.status[i] = "matched", i \notin handed
      PROVE  /\ Parent[i] # NoImage
             /\ Parent[i] \notin built
             /\ plan.status[Parent[i]] # "skipped"
  <2>1. i \notin Roots(plan)
    BY <1>7 DEF PlanInv, Handing
  <2>2. Parent[i] # NoImage /\ plan.status[Parent[i]] # "skipped"
    BY <1>7, <2>1 DEF Hypotheses, Queued
  <2>3. Parent[i] \notin built
    BY <1>5, <1>6, <1>7 DEF Owed, ToOffer, Offered
  <2> QED
    BY <2>2, <2>3
<1> QED
  BY <1>4, <1>5, <1>6, <1>7
     DEF Unlost, Owed, ToPush, Untried, Unbuilt, OnItsWay, ToBegin, UsedUp

-----------------------------------------------------------------------------
(* The invariant for a plan, and what it implies. *)

On(plan, R) == Hypotheses(plan, R) /\ PlanInv(plan, R) /\ Unlost(plan)

LEMMA StartOn ==
    \A plan \in Plan : HandsOnce(plan) /\ Starts(plan) => \E R \in SUBSET Images : On(plan, R)
<1> SUFFICES ASSUME NEW plan \in Plan, HandsOnce(plan), Starts(plan)
             PROVE  \E R \in SUBSET Images : On(plan, R)
  OBVIOUS
<1>1. PICK R \in SUBSET Images : Hypotheses(plan, R)
  BY DEF HandsOnce, Hypotheses
<1>2. PlanInv(plan, R)
  BY <1>1, InitPlan DEF Starts
<1> QED
  BY <1>1, <1>2, StartUnlost DEF On

LEMMA NextOn ==
    \A plan \in Plan, R \in SUBSET Images :
        IInv /\ On(plan, R) /\ [Next]_vars => On(plan, R)'
<1> SUFFICES ASSUME NEW plan \in Plan, NEW R \in SUBSET Images,
                    IInv, On(plan, R), [Next]_vars
             PROVE  On(plan, R)'
  OBVIOUS
<1>1. PlanInv(plan, R)'
  BY NextPlan DEF IInv, On
<1>2. Unlost(plan)'
  BY NextUnlost DEF On
<1> QED
  BY <1>1, <1>2 DEF On, Hypotheses

(* Every matched image of a plan got its answer: it is built, or its own       *)
(* build failed, or its parent is not there.                                *)
LEMMA MatchedAnswered ==
    \A plan \in Plan, R \in SUBSET Images :
        IInv /\ On(plan, R) /\ mpc = "exited" /\ interrupts = 0 =>
            \A i \in Images : plan.status[i] = "matched" =>
                \/ i \in built \/ builds[i] > 0 \/ status[i] = "parent_error"
                \/ /\ Parent[i] # NoImage
                   /\ Parent[i] \notin built
                   /\ plan.status[Parent[i]] # "skipped"
<1> SUFFICES ASSUME NEW plan \in Plan, NEW R \in SUBSET Images,
                    IInv, On(plan, R), mpc = "exited", interrupts = 0,
                    NEW i \in Images, plan.status[i] = "matched"
             PROVE  \/ i \in built \/ builds[i] > 0 \/ status[i] = "parent_error"
                    \/ /\ Parent[i] # NoImage
                       /\ Parent[i] \notin built
                       /\ plan.status[Parent[i]] # "skipped"
  OBVIOUS
<1>1. Retries \in Nat
  BY PoolAssumption DEF PoolAssumption
<1> QED
  BY <1>1, UnlostAtEnd DEF On, Unbuilt

LEMMA OnInvariant ==
    ASSUME \A plan \in Plans : HandsOnce(plan)
    PROVE  Spec => [](IInv /\ \E plan \in Plan, R \in SUBSET Images : On(plan, R))
<1> DEFINE Inv == \E plan \in Plan, R \in SUBSET Images : On(plan, R)
<1>1. Init => Inv
  BY StartOn, PoolAssumption DEF Init, Starts, PoolAssumption
<1>2. IInv /\ Inv /\ [Next]_vars => Inv'
  BY NextOn
<1> HIDE DEF Inv
<1>3. Spec => [](IInv /\ Inv)
  BY <1>1, <1>2, Invariance, PTL DEF Spec
<1> QED
  BY <1>3 DEF Inv

(* When an uninterrupted run ends, an image that is still "matched" lies below *)
(* one that was not built, and a build that failed was tried as often as       *)
(* conf.retries allows: no thread can drop an image, whatever fails and in     *)
(* whatever order the threads run.                                          *)
THEOREM NothingLost ==
    ASSUME \A plan \in Plans : HandsOnce(plan)
    PROVE  Spec => []NothingAbandoned
<1>1. ASSUME NEW plan \in Plan, NEW R \in SUBSET Images, IInv, On(plan, R)
      PROVE  NothingAbandoned
  <2> SUFFICES ASSUME mpc = "exited", interrupts = 0, NEW i \in Images \ built
               PROVE  /\ status[i] = "matched" =>
                           /\ Parent[i] # NoImage
                           /\ Parent[i] \notin built
                           /\ status[Parent[i]] # "skipped"
                      /\ builds[i] > 0 /\ status[i] # "parent_error" =>
                           builds[i] = Retries + 1
    BY DEF NothingAbandoned
  <2>1. /\ i \in handed => status[i] # "matched"
        /\ Unbuilt(plan, i) => builds[i] = Retries + 1
        /\ plan.status[i] = "matched" /\ i \notin handed =>
              /\ Parent[i] # NoImage
              /\ Parent[i] \notin built
              /\ plan.status[Parent[i]] # "skipped"
    BY <1>1, UnlostAtEnd DEF On
  <2>2. /\ Fate(plan, i)
        /\ Parent[i] # NoImage => Parent[i] \in Images /\ Fate(plan, Parent[i])
        /\ PushErrors \subseteq {"error", "connection_error", "push_error"}
    BY <1>1, PoolAssumption DEF PoolAssumption, On, PlanInv, Image
  <2>3. plan.status[i] \in {"unmatched", "matched", "skipped"}
    BY <1>1 DEF On, Hypotheses, Queued
  <2>4. status[i] = "matched" => plan.status[i] = "matched"
    BY <2>2, <2>3 DEF Fate
  <2>5. builds[i] > 0 => plan.status[i] = "matched" /\ i \in handed
    BY <2>2, <2>3 DEF Fate, Fresh
  <2> QED
    BY <2>1, <2>2, <2>4, <2>5 DEF Unbuilt, Fate
<1>2. IInv /\ (\E plan \in Plan, R \in SUBSET Images : On(plan, R)) => NothingAbandoned
  BY <1>1
<1> QED
  BY <1>2, OnInvariant, PTL

(* What such a run reports as good was built and, with --push, the registry     *)
(* has it: the push threads are never stopped before they are through.         *)
THEOREM Delivered ==
    ASSUME \A plan \in Plans : HandsOnce(plan)
    PROVE  Spec => []GoodIsDelivered
<1>1. ASSUME NEW plan \in Plan, NEW R \in SUBSET Images, IInv, On(plan, R)
      PROVE  GoodIsDelivered
  <2> SUFFICES ASSUME mpc = "exited", interrupts = 0
               PROVE  good \subseteq built /\ (Push => good \subseteq pushed)
    BY DEF GoodIsDelivered
  <2>1. /\ good = {i \in Images : status[i] = "built"}
        /\ \A i \in Images : ToPush(i) => i \in pushed
    BY <1>1, UnlostAtEnd DEF On
  <2>2. \A i \in Images : status[i] = "built" => i \in built
    BY <1>1 DEF On, PlanInv, Image, Fate
  <2> QED
    BY <2>1, <2>2 DEF ToPush
<1>2. IInv /\ (\E plan \in Plan, R \in SUBSET Images : On(plan, R)) => GoodIsDelivered
  BY <1>1
<1> QED
  BY <1>2, OnInvariant, PTL
=============================================================================
