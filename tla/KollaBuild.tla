---------------------------- MODULE KollaBuild -----------------------------
(***************************************************************************)
(* `kolla-build` from the command line options to the result: the plan made *)
(* by ImageFilter is handed to the thread pool of BuildPool.  Both work on   *)
(* the same image.status.  (run_build of kolla/image/build.py.)             *)
(***************************************************************************)
EXTENDS ImageFilter

CONSTANTS Builders, Pushers, Retries, Push,       \* see BuildPool
          BuildErrors, PushErrors, MaxInterrupts

VARIABLES queue, unfinished, pc, task, attempt, success, pending, stop,
          mpc, listed, good, interrupts, forced, handed, builds, built, pushed

plannerVars == <<images, conf, requested, cached, roots, n, phase>>
poolVars == <<queue, unfinished, pc, task, attempt, success, pending, stop,
              mpc, listed, good, interrupts, forced, handed, builds, built, pushed>>
vars == <<plannerVars, status, poolVars>>

Pool == INSTANCE BuildPool WITH Plans <- {}
ASSUME Pool!PoolAssumption

Init ==
    /\ PlanInit
    /\ Pool!ThreadInit
    /\ queue = [q \in Pool!Queues |-> <<>>]
    /\ unfinished = [q \in Pool!Queues |-> 0]
    /\ handed = {}
    /\ mpc = "planning"

Planning == PlanNext /\ UNCHANGED poolVars

(* build_queue returns: the queue holds a BuildTask for every root. *)
Launch ==
    /\ phase = "planned"
    /\ phase' = "launched"
    /\ mpc' = "start"
    /\ queue' = [queue EXCEPT !["build"] =
                   [k \in DOMAIN roots |-> Pool!BuildTask(roots[k])]]
    /\ unfinished' = [unfinished EXCEPT !["build"] = Len(roots)]
    /\ handed' = {roots[k] : k \in DOMAIN roots}
    /\ UNCHANGED <<inputs, roots, n, status, pc, task, attempt, success, pending, stop,
                   listed, good, interrupts, forced, builds, built, pushed>>

Building == Pool!Next /\ UNCHANGED plannerVars

Next == Planning \/ Launch \/ Building

Spec == Init /\ [][Next]_vars

-----------------------------------------------------------------------------
Finished == mpc = "exited" /\ interrupts = 0

(* An image's own build failed: it was tried and is not there. *)
Failed(i) == i \notin built /\ (builds[i] > 0 \/ status[i] = "parent_error")

(* From the options to the result: every image the user asked for gets an    *)
(* answer.  It was skipped or built, its own build failed, or that of an     *)
(* ancestor did.  (When the listing has parents first, or without the skip   *)
(* options.)                                                                *)
Answered(i) == \/ status[i] = "skipped"
               \/ i \in built
               \/ \E a \in Ancestors[i] \cup {i} : Failed(a)

RequestedAnswered ==
    Finished /\ (ParentsFirst \/ NoSkipOption) =>
        \A i \in Images : (~conf.filter \/ i \in requested) => Answered(i)

(* Without the skip options, an image is never built by two threads at a     *)
(* time, never more often than conf.retries allows, and never before its     *)
(* parent.                                                                  *)
BuildsDisciplined ==
    NoSkipOption =>
        /\ Pool!OneBuildAtATime
        /\ Pool!BuildsBounded
        /\ Pool!ParentBuiltFirst

-----------------------------------------------------------------------------
(* Claims of the option texts that the code does not keep, one per run. *)

(* "The number of times to retry while building" (config.py:102) bounds the  *)
(* builds of an image.  An image below a skipped one that is itself below a  *)
(* matched one is queued as a root and again as a followup.                 *)
BuildsBounded == Pool!BuildsBounded

(* "Build only images matching regex and its dependencies" (config.py:104):  *)
(* a requested image is at least tried.  When a child is listed before its   *)
(* parent, the parent it had marked skipped is marked unmatched later on,    *)
(* and nobody queues the child.                                             *)
RequestedTried ==
    Finished => \A i \in requested : Answered(i)
=============================================================================
