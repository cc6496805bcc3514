------------------------- MODULE KollaBuild_proofs --------------------------
(***************************************************************************)
(* What is proved of `kolla-build` from the options to the result: the       *)
(* planning keeps the promises of ImageFilter, the plan it launches hands     *)
(* every image to the workers once if no skip option is set, and the pool     *)
(* then keeps the promises of BuildPool.                                    *)
(***************************************************************************)
EXTENDS KollaBuild, ImageFilter_proofs, FiniteSetTheorems

P == INSTANCE BuildPool_proofs WITH Plans <- {}

(* The pool before it gets a plan.                                          *)
Untouched ==
    /\ P!ThreadInit
    /\ queue = [q \in P!Queues |-> <<>>]
    /\ unfinished = [q \in P!Queues |-> 0]
    /\ handed = {}
    /\ mpc = "planning"

(* The plan holds what was asked for, and the parents of what it holds.       *)
Requested(i) == ~conf.filter \/ i \in requested

Covers(plan) ==
    \A i \in Images :
        /\ Requested(i) => plan.status[i] = "matched"
        /\ plan.status[i] = "matched" /\ Parent[i] # NoImage =>
              plan.status[Parent[i]] = "matched"

Covered == \E plan \in P!Plan, R \in SUBSET Images : Covers(plan) /\ P!On(plan, R)

(* While the plan is made, the invariant of ImageFilter; afterwards that of    *)
(* the pool, and without the skip options the one for plans that hand every   *)
(* image out once.                                                          *)
KInv ==
    /\ phase # "launched" => PlanIInv /\ Untouched
    /\ phase = "launched" => P!IInv /\ (NoSkipOption => Covered)

LEMMA PoolParameters == P!PoolAssumption
BY Pool!PoolAssumption DEF P!PoolAssumption, Pool!PoolAssumption, P!IsFiniteSet, Pool!IsFiniteSet

-----------------------------------------------------------------------------
(* KollaBuild and the theorems about the pool each instantiate BuildPool: the  *)
(* two instances are the same.                                              *)

LEMMA SamePool ==
    /\ Pool!ThreadInit => P!ThreadInit
    /\ Pool!Queues = P!Queues
    /\ \A i \in Images : Pool!BuildTask(i) = P!BuildTask(i)
    /\ P!OneBuildAtATime => Pool!OneBuildAtATime
    /\ P!BuildsBounded => Pool!BuildsBounded
    /\ P!ParentBuiltFirst => Pool!ParentBuiltFirst
BY DEF Pool!ThreadInit, P!ThreadInit, Pool!Workers, P!Workers, Pool!NoTask, P!NoTask,
       Pool!Queues, P!Queues, Pool!BuildTask, P!BuildTask, Pool!OneBuildAtATime,
       P!OneBuildAtATime, Pool!Building, P!Building, Pool!BuildsBounded,
       P!BuildsBounded, Pool!ParentBuiltFirst, P!ParentBuiltFirst, Pool!Cardinality,
       P!Cardinality

LEMMA SameNext == Pool!Next => P!Next
BY DEF Pool!Next, P!Next, Pool!Main, P!Main, Pool!Worker, P!Worker, Pool!Workers,
       P!Workers, Pool!Queues, P!Queues, Pool!Errors, P!Errors, Pool!Alive, P!Alive,
       Pool!Goto, P!Goto, Pool!Runs, P!Runs, Pool!Served, P!Served, Pool!Put, P!Put,
       Pool!TryAgain, P!TryAgain, Pool!Succeed, P!Succeed, Pool!Tombstone,
       P!Tombstone, Pool!NoTask, P!NoTask, Pool!BuildTask, P!BuildTask,
       Pool!IntoTask, P!IntoTask, Pool!PushTask, P!PushTask, Pool!Followups,
       P!Followups, Pool!ParentFailed, P!ParentFailed, Pool!queueVars, P!queueVars,
       Pool!threadVars, P!threadVars, Pool!mainVars, P!mainVars, Pool!history,
       P!history, Pool!vars, P!vars, Pool!MainGoto, P!MainGoto, Pool!Started,
       P!Started, Pool!AllJoined, P!AllJoined, Pool!Ended, P!Ended,
       Pool!InterruptTarget, P!InterruptTarget, Pool!CheckStop, P!CheckStop,
       Pool!GetTask, P!GetTask, Pool!GetTombstone, P!GetTombstone, Pool!BeginAttempt,
       P!BeginAttempt, Pool!SkipBuild, P!SkipBuild, Pool!FailForParent,
       P!FailForParent, Pool!StartBuild, P!StartBuild, Pool!BuildOK, P!BuildOK,
       Pool!BuildFails, P!BuildFails, Pool!BuildRaises, P!BuildRaises,
       Pool!ReadStatus, P!ReadStatus, Pool!PushInto, P!PushInto, Pool!FinishPush,
       P!FinishPush, Pool!LeaveAttempts, P!LeaveAttempts, Pool!PutFollowup,
       P!PutFollowup, Pool!TaskDone, P!TaskDone, Pool!StartThread, P!StartThread,
       Pool!ListThread, P!ListThread, Pool!PollBuild, P!PollBuild, Pool!PollPush,
       P!PollPush, Pool!PutTombstone, P!PutTombstone, Pool!Join, P!Join,
       Pool!StopWorker, P!StopWorker, Pool!StoppedAll, P!StoppedAll, Pool!Summarise,
       P!Summarise, Pool!Cleanup, P!Cleanup, Pool!JoinTimesOut, P!JoinTimesOut,
       Pool!Interrupt, P!Interrupt, Pool!Terminated, P!Terminated

-----------------------------------------------------------------------------
(* The launch *)

(* The pool does nothing before it has a plan.                               *)
LEMMA UntouchedWaits == Untouched => ~P!Next
<1> SUFFICES ASSUME Untouched, P!Next PROVE FALSE
  OBVIOUS
<1>1. mpc = "planning" /\ \A w \in P!Workers : pc[w] = "new"
  BY DEF Untouched, P!ThreadInit
<1>2. ASSUME NEW w \in P!Workers, P!Worker(w) PROVE FALSE
  BY <1>1, <1>2
     DEF P!Worker, P!CheckStop, P!GetTask, P!GetTombstone, P!BeginAttempt, P!SkipBuild,
         P!FailForParent, P!StartBuild, P!BuildOK, P!BuildFails, P!BuildRaises,
         P!ReadStatus, P!PushInto, P!FinishPush, P!LeaveAttempts, P!PutFollowup,
         P!TaskDone, P!Goto, P!Runs, P!TryAgain
<1> QED
  BY <1>1, <1>2
     DEF P!Next, P!Main, P!StartThread, P!ListThread, P!PollBuild, P!PollPush,
         P!PutTombstone, P!Join, P!StopWorker, P!StoppedAll, P!Summarise, P!Cleanup,
         P!JoinTimesOut, P!Interrupt, P!Terminated, P!MainGoto

(* The plan build_queue returns. *)
Made == [status |-> status, roots |-> roots]

(* It is one: without the skip options, the roots are the matched images      *)
(* without a parent, and R is the set of all matched images.                *)
LEMMA MadeHandsOnce ==
    ASSUME PlanIInv, Planned, NoSkipOption
    PROVE  P!HandsOnce(Made)
<1>1. /\ Visited = Images /\ Considered = Images /\ Filtered
      /\ Parent \in [Images -> Images \cup {NoImage}] /\ NoImage \notin Images
  BY ParentAssumption DEF ParentAssumption, Planned, Visited, Considered, Filtered
<1>2. \A i \in Images : status[i] \in {"unmatched", "matched"}
  BY <1>1 DEF PlanIInv, Closure
<1>3. P!Roots(Made) = {i \in Images : IsRoot(i)}
  <2>1. \A k \in DOMAIN roots : roots[k] \in Images
    BY DEF PlanIInv, PlanTypeOK
  <2> QED
    BY <1>1, <2>1 DEF P!Roots, Made, PlanIInv, RootsSoFar, Planned
<1>4. P!Queued(Made)
  <2>1. \A j, k \in DOMAIN roots : roots[j] = roots[k] => j = k
    BY DEF PlanIInv, RootsSoFar
  <2> QED
    BY <1>1, <1>2, <1>3, <2>1 DEF P!Queued, Made, IsRoot
<1>5. P!Reaches(Made, Matched)
  <2>1. \A i \in Images : IsRoot(i) => i \in Matched /\ Parent[i] = NoImage
    BY <1>1, <1>2 DEF IsRoot, Matched
  <2> QED
    BY <1>1, <1>2, <1>3, <2>1 DEF P!Reaches, Made, Matched
<1>6. Matched \in SUBSET Images
  BY DEF Matched
<1> QED
  BY <1>4, <1>5, <1>6 DEF P!HandsOnce

LEMMA LaunchStarts ==
    ASSUME Untouched, Launch
    PROVE  P!Starts(Made)'
<1>1. P!ThreadInit'
  BY DEF Launch, Untouched, P!ThreadInit
<1>2. P!InitFrom(Made)'
  BY SamePool DEF Launch, Untouched, P!InitFrom, Made, P!Queues, Pool!Queues, P!BuildTask, Pool!BuildTask
<1> QED
  BY <1>1, <1>2 DEF P!Starts, Launch

LEMMA MadeCovers ==
    ASSUME PlanIInv, Planned, NoSkipOption
    PROVE  Covers(Made)
<1>1. Visited = Images /\ Filtered /\ PlanTypeOK /\ Closure /\ SeenWanted
  BY DEF PlanIInv, Planned, Visited, Filtered
<1>2. ASSUME NEW i \in Images, Requested(i) PROVE status[i] = "matched"
  <2>1. CASE conf.filter
    BY <1>1, <1>2, <2>1 DEF Requested, SeenWanted, Wanted, Closure, Planned
  <2>2. CASE ~conf.filter
    BY <1>1, <2>2 DEF Closure, Matched
  <2> QED
    BY <2>1, <2>2
<1>3. ASSUME NEW i \in Images, status[i] = "matched", Parent[i] # NoImage
      PROVE  status[Parent[i]] = "matched"
  BY <1>1, <1>3, MatchedUpwards DEF Matched
<1> QED
  BY <1>2, <1>3 DEF Covers, Made

LEMMA StartFacts ==
    \A plan \in P!Plan :
        /\ P!Starts(plan) => P!IInv
        /\ P!HandsOnce(plan) /\ P!Starts(plan) => \E R \in SUBSET Images : P!On(plan, R)
BY PoolParameters, P!StartIInv, P!StartOn

LEMMA LaunchKInv ==
    ASSUME KInv, Launch
    PROVE  KInv'
<1>1. PlanIInv /\ Untouched /\ Planned
  BY DEF KInv, Launch, Planned
<1>2. P!Starts(Made)' /\ Made' = Made
  BY <1>1, LaunchStarts DEF Launch, Made
<1>3. Made \in P!Plan
  BY <1>1 DEF Made, P!Plan, PlanIInv, PlanTypeOK, Statuses, Errors, P!Statuses, P!Errors
<1>4. (\A plan \in P!Plan :
          /\ P!Starts(plan) => P!IInv
          /\ P!HandsOnce(plan) /\ P!Starts(plan) => \E R \in SUBSET Images : P!On(plan, R))'
  BY StartFacts, PTL
<1>5. P!IInv'
  BY <1>2, <1>3, <1>4
<1>6. NoSkipOption => P!HandsOnce(Made) /\ Covers(Made)
  BY <1>1, MadeHandsOnce, MadeCovers
<1>7. phase' = "launched" /\ UNCHANGED inputs
  BY DEF Launch
<1>8. NoSkipOption => Covered'
  <2> SUFFICES ASSUME NoSkipOption PROVE Covered'
    OBVIOUS
  <2>1. PICK plan \in P!Plan : plan = Made
    BY <1>3
  <2>2. PICK R \in SUBSET Images : P!On(plan, R)'
    BY <1>2, <1>4, <1>6, <2>1
  <2>3. Covers(plan)'
    BY <1>6, <1>7, <2>1 DEF Covers, Requested, inputs
  <2> QED
    BY <2>2, <2>3 DEF Covered
<1> QED
  BY <1>5, <1>7, <1>8 DEF KInv, NoSkipOption, inputs

(* The pool's own steps. *)
LEMMA PoolKInv ==
    ASSUME P!IInv, NoSkipOption => Covered, [P!Next]_P!vars, UNCHANGED inputs
    PROVE  P!IInv' /\ (NoSkipOption' => Covered')
<1>1. P!IInv'
  BY PoolParameters, P!NextIInv
<1>2. ASSUME NoSkipOption PROVE Covered'
  <2>1. PICK plan \in P!Plan, R \in SUBSET Images : Covers(plan) /\ P!On(plan, R)
    BY <1>2 DEF Covered
  <2>2. P!On(plan, R)'
    BY <2>1, PoolParameters, P!NextOn
  <2>3. Covers(plan)'
    BY <2>1 DEF Covers, Requested, inputs
  <2> QED
    BY <2>2, <2>3 DEF Covered
<1> QED
  BY <1>1, <1>2 DEF NoSkipOption, inputs

-----------------------------------------------------------------------------
(* The invariant, and what it implies. *)

LEMMA InitKInv == Init => KInv
BY SamePool, PlanInitIInv DEF Init, KInv, Untouched, PlanInit

LEMMA NextKInv == KInv /\ [Next]_vars => KInv'
<1> SUFFICES ASSUME KInv, [Next]_vars PROVE KInv'
  OBVIOUS
<1>1. CASE Planning
  <2>1. phase # "launched" /\ phase' # "launched"
    BY <1>1 DEF Planning, PlanNext, FilterKeep, FilterRequested, FilterOther, NoFilter,
                FilterDone, QueueImage, QueueDone, Iterate
  <2>2. PlanIInv'
    BY <1>1, <2>1, PlanNextIInv DEF KInv, Planning
  <2>3. Untouched'
    BY <1>1, <2>1 DEF KInv, Planning, Untouched, poolVars, P!ThreadInit
  <2> QED
    BY <2>1, <2>2, <2>3 DEF KInv
<1>2. CASE Launch
  BY <1>2, LaunchKInv
<1>3. CASE Building
  <2>1. P!Next /\ UNCHANGED plannerVars
    BY <1>3, SameNext DEF Building
  <2>2. phase = "launched"
    BY <2>1, UntouchedWaits DEF KInv
  <2>3. UNCHANGED <<inputs, phase>>
    BY <2>1 DEF plannerVars, inputs
  <2> QED
    BY <2>1, <2>2, <2>3, PoolKInv DEF KInv
<1>4. CASE UNCHANGED vars
  <2>1. UNCHANGED P!vars /\ UNCHANGED planVars /\ UNCHANGED poolVars
    BY <1>4 DEF vars, plannerVars, poolVars, planVars, P!vars, P!queueVars,
                P!threadVars, P!mainVars, P!history
  <2>2. CASE phase # "launched"
    <3>1. PlanIInv'
      BY <2>1, <2>2, PlanNextIInv DEF KInv
    <3> QED
      BY <2>1, <2>2, <3>1 DEF KInv, planVars, poolVars, Untouched, P!ThreadInit
  <2>3. CASE phase = "launched"
    BY <2>1, <2>3, PoolKInv DEF KInv, planVars, inputs
  <2> QED
    BY <2>2, <2>3
<1> QED
  BY <1>1, <1>2, <1>3, <1>4 DEF Next

LEMMA KInvariance == Spec => []KInv
BY InitKInv, NextKInv, PTL DEF Spec

(* Without the skip options, and whatever is asked for, an image is never     *)
(* built by two threads at a time, never more often than conf.retries allows, *)
(* and never before its parent.                                             *)
THEOREM Disciplined == Spec => []BuildsDisciplined
<1>1. KInv => BuildsDisciplined
  <2> SUFFICES ASSUME KInv, NoSkipOption
               PROVE  P!OneBuildAtATime /\ P!BuildsBounded /\ P!ParentBuiltFirst
    BY SamePool DEF BuildsDisciplined
  <2>1. CASE phase = "launched"
    <3>1. P!TypeOK /\ P!OnPlan
      BY <2>1 DEF KInv, Covered, P!On, P!OnPlan, P!IInv
    <3> QED
      BY <3>1, PoolParameters, P!OnPlanOneBuild, P!OnPlanBounded, P!OnPlanParentFirst
  <2>2. CASE phase # "launched"
    <3>1. \A w \in P!Workers : pc[w] = "new" /\ task[w] = P!NoTask
      BY <2>2 DEF KInv, Untouched, P!ThreadInit
    <3>2. \A i \in Images : {w \in P!Workers : P!Building(w, i)} = {}
      BY <3>1 DEF P!Building, P!NoTask, P!BuildTask
    <3>3. P!Cardinality({}) = 0
      BY FS_EmptySet DEF P!Cardinality
    <3>4. P!OneBuildAtATime
      BY <3>2, <3>3 DEF P!OneBuildAtATime
    <3>5. P!BuildsBounded
      BY <2>2, PoolParameters
         DEF KInv, Untouched, P!ThreadInit, P!BuildsBounded, P!PoolAssumption
    <3>6. P!ParentBuiltFirst
      BY <3>1 DEF P!ParentBuiltFirst
    <3> QED
      BY <3>4, <3>5, <3>6
  <2> QED
    BY <2>1, <2>2
<1> QED
  BY <1>1, KInvariance, PTL

(* From the options to the result: without the skip options, when a run that   *)
(* nobody interrupts ends, every image the user asked for was built, or its    *)
(* own build failed, or that of an ancestor did.  (With the skip options the   *)
(* answer also depends on the order of the Dockerfiles.)                     *)
THEOREM AllAnswered == Spec => [](NoSkipOption => RequestedAnswered)
<1>1. KInv => (NoSkipOption => RequestedAnswered)
  <2> SUFFICES ASSUME KInv, NoSkipOption, Finished,
                      NEW k \in Images, Requested(k)
               PROVE  Answered(k)
    BY DEF RequestedAnswered, Requested
  <2>1. phase = "launched" /\ mpc = "exited" /\ interrupts = 0
    BY DEF KInv, Finished, Untouched
  <2>2. PICK plan \in P!Plan, R \in SUBSET Images : Covers(plan) /\ P!On(plan, R)
    BY <2>1 DEF KInv, Covered
  <2>3. \A i \in Images : plan.status[i] = "matched" =>
           \/ i \in built \/ Failed(i)
           \/ Parent[i] # NoImage /\ Parent[i] \notin built
    BY <2>1, <2>2, PoolParameters, P!MatchedAnswered DEF KInv, Failed
  <2>4. \A i \in Images : plan.status[i] = "matched" => status[i] # "skipped"
    BY <2>2 DEF P!On, P!PlanInv, P!Image, P!Fate
  <2> DEFINE S == {i \in Images : plan.status[i] = "matched" /\ ~Answered(i)}
  <2>5. CASE S # {}
    <3>1. PICK i \in S : Parent[i] \notin S
      BY <2>5, ParentAssumption DEF ParentAssumption
    <3>2. i \in Images /\ plan.status[i] = "matched" /\ i \notin built /\ ~Failed(i)
      BY <3>1 DEF Answered
    <3>3. Parent[i] \in Images /\ Parent[i] # NoImage /\ Parent[i] \notin built
      BY <2>3, <3>2, ParentAssumption DEF ParentAssumption
    <3>4. plan.status[Parent[i]] = "matched"
      BY <2>2, <3>2, <3>3 DEF Covers
    <3>5. PICK a \in Ancestors[Parent[i]] \cup {Parent[i]} : Failed(a)
      BY <2>4, <3>1, <3>3, <3>4 DEF Answered
    <3>6. a \in Ancestors[i]
      BY <3>2, <3>3, <3>5, AncestorsUnfold
    <3> QED
      BY <3>1, <3>5, <3>6 DEF Answered
  <2> QED
    BY <2>2, <2>5 DEF Covers
<1> QED
  BY <1>1, KInvariance, PTL

(* What ImageFilter promises of a plan holds of the one kolla-build launches:  *)
(* no requested image is dropped, and it is the closure of the request, hands *)
(* each image out once, and respects the docker cache.                      *)
THEOREM PlanKept ==
    Spec => [](RequestedNotDropped /\ PlanIsClosure /\ MatchedHandedOnce /\ CachedNotMatched)
<1>1. phase = "launched" => ~Filtered /\ ~Planned
  BY DEF Filtered, Planned
<1>2. KInv => RequestedNotDropped /\ PlanIsClosure /\ MatchedHandedOnce /\ CachedNotMatched
  BY <1>1, SeenIsKept, MatchedIsClosure, MatchedIsHanded, CacheIsKept
     DEF KInv, RequestedNotDropped, PlanIsClosure, MatchedHandedOnce, CachedNotMatched
<1> QED
  BY <1>2, KInvariance, PTL
=============================================================================
