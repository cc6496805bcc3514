---------------------------- MODULE ImageFilter ----------------------------
(***************************************************************************)
(* What `kolla-build` decides to build: KollaWorker.find_parents,           *)
(* filter_images and build_queue of kolla/image/build.py.                   *)
(*                                                                         *)
(* Both loops run over self.images, whose order is the order in which       *)
(* os.walk found the Dockerfiles: a parent may come before or after its     *)
(* children.  One step is one iteration of a loop, because what an          *)
(* iteration does depends on the statuses the earlier ones left behind.     *)
(***************************************************************************)
EXTENDS Naturals, Sequences, FiniteSets

CONSTANTS
    Images,   \* the images found by find_dockerfiles
    NoImage,  \* "no parent": the FROM line names an image outside Images
    Parent,   \* image -> the image named by its FROM line, or NoImage
    Orders    \* the orders in which os.walk may list the images

(* FROM lines do not run in a circle: some image of any set of images is      *)
(* built on one outside the set.                                            *)
ParentAssumption ==
    /\ NoImage \notin Images
    /\ Parent \in [Images -> Images \cup {NoImage}]
    /\ \A S \in SUBSET Images : S # {} => \E i \in S : Parent[i] \notin S
ASSUME ParentAssumption

(* os.walk visits every directory once. *)
OrdersAssumption ==
    \A o \in Orders : /\ o \in Seq(Images)
                      /\ \A i \in Images : \E k \in DOMAIN o : o[k] = i
                      /\ \A j, k \in DOMAIN o : o[j] = o[k] => j = k
ASSUME OrdersAssumption

(* The image statuses.  Planning uses the first four. *)
Errors == {"connection_error", "push_error", "error", "parent_error"}
Statuses == {"unprocessed", "unmatched", "matched", "skipped", "building", "built"}
              \cup Errors

Ancestors[i \in Images] ==
    IF Parent[i] = NoImage THEN {} ELSE {Parent[i]} \cup Ancestors[Parent[i]]

VARIABLES
    images,     \* self.images, a sequence
    conf,       \* the options: is there a filter, skip_parents, skip_existing
    requested,  \* the images whose name matches the regex or the profile
    cached,     \* the images already in the docker cache
    status,     \* image.status, for every image
    roots,      \* the images build_queue puts a BuildTask for, in order
    n,          \* index of the current loop
    phase       \* "filter" (filter_images), "queue" (build_queue), "planned", and
                \* "launched" once the thread pool works on the plan

planVars == <<images, conf, requested, cached, status, roots, n, phase>>
inputs == <<images, conf, requested, cached>>

Conf == [filter : BOOLEAN, skip_parents : BOOLEAN, skip_existing : BOOLEAN]

PlanTypeOK ==
    /\ images \in Orders
    /\ conf \in Conf
    /\ requested \subseteq Images
    /\ cached \subseteq Images
    /\ status \in [Images -> Statuses]
    /\ roots \in Seq(Images)
    /\ n \in Nat \ {0}
    /\ phase \in {"filter", "queue", "planned", "launched"}

(* Without a filter there is nothing to match a name against. *)
PlanInit ==
    /\ images \in Orders
    /\ conf \in Conf
    /\ requested \in SUBSET Images
    /\ ~conf.filter => requested = {}
    /\ cached \in SUBSET Images
    /\ status = [i \in Images |-> "unprocessed"]
    /\ roots = <<>>
    /\ n = 1
    /\ phase = "filter"

-----------------------------------------------------------------------------
(* filter_images *)

(* The ancestors the `while` loop visits from image i: it climbs until the  *)
(* next parent already is matched or skipped.                               *)
Climbed(i) ==
    {a \in Ancestors[i] :
        \A b \in Ancestors[i] :
            (b = a \/ a \in Ancestors[b]) => status[b] \notin {"matched", "skipped"}}

AncestorStatus(a) ==
    IF conf.skip_parents \/ (conf.skip_existing /\ a \in cached)
      THEN "skipped" ELSE "matched"

(* Variant: a cached image is marked unmatched, which is not built either. *)
RequestedStatus_Unmatched(i) ==
    IF conf.skip_existing /\ i \in cached THEN "unmatched" ELSE "matched"

(* Variant: a requested image is not looked up in the docker cache. *)
RequestedStatus_NoCache(i) ==
    IF status[i] = "skipped" THEN "skipped" ELSE "matched"

RequestedStatus(i) ==
    IF status[i] = "skipped" \/ (conf.skip_existing /\ i \in cached)
      THEN "skipped" ELSE "matched"

Iterate(p) == /\ phase = p
              /\ n <= Len(images)
              /\ n' = n + 1
              /\ UNCHANGED <<inputs, phase>>

(* if image.status == STATUS_MATCHED: continue *)
FilterKeep ==
    /\ Iterate("filter")
    /\ conf.filter
    /\ status[images[n]] = "matched"
    /\ UNCHANGED <<status, roots>>

FilterRequested ==
    LET i == images[n]
        up == Climbed(i)
    IN /\ Iterate("filter")
       /\ conf.filter
       /\ status[i] # "matched"
       /\ i \in requested
       /\ status' = [j \in Images |-> IF j = i THEN RequestedStatus(i)
                                      ELSE IF j \in up THEN AncestorStatus(j)
                                      ELSE status[j]]
       /\ UNCHANGED roots

(* Variant: no `continue` for an image an earlier iteration matched. *)
FilterOther_NoContinue ==
    /\ Iterate("filter")
    /\ conf.filter
    /\ images[n] \notin requested
    /\ status' = [status EXCEPT ![images[n]] = "unmatched"]
    /\ UNCHANGED roots

(* "we do not care if it is skipped or not as we did not request it" *)
FilterOther ==
    LET i == images[n]
    IN /\ Iterate("filter")
       /\ conf.filter
       /\ status[i] # "matched"
       /\ i \notin requested
       /\ status' = [status EXCEPT ![i] = "unmatched"]
       /\ UNCHANGED roots

NoFilter ==
    /\ Iterate("filter")
    /\ ~conf.filter
    /\ status' = [status EXCEPT ![images[n]] = "matched"]
    /\ UNCHANGED roots

FilterDone ==
    /\ phase = "filter"
    /\ n > Len(images)
    /\ phase' = "queue"
    /\ n' = 1
    /\ UNCHANGED <<inputs, status, roots>>

-----------------------------------------------------------------------------
(* build_queue *)

(* Variants: every image is a root; only an image without a parent is. *)
IsRoot_Any(i) == status[i] \notin {"unmatched", "skipped"}
IsRoot_NoParentOnly(i) == IsRoot_Any(i) /\ Parent[i] = NoImage

IsRoot(i) ==
    /\ status[i] \notin {"unmatched", "skipped"}
    /\ Parent[i] = NoImage \/ status[Parent[i]] = "skipped"

(* Variant: the parent is queued in place of the image. *)
QueueImage_Parent ==
    /\ Iterate("queue")
    /\ roots' = IF IsRoot(images[n]) THEN Append(roots, Parent[images[n]]) ELSE roots
    /\ UNCHANGED status

QueueImage ==
    /\ Iterate("queue")
    /\ roots' = IF IsRoot(images[n]) THEN Append(roots, images[n]) ELSE roots
    /\ UNCHANGED status

QueueDone ==
    /\ phase = "queue"
    /\ n > Len(images)
    /\ phase' = "planned"
    /\ UNCHANGED <<inputs, status, roots, n>>

PlanNext == \/ FilterKeep \/ FilterRequested \/ FilterOther \/ NoFilter
            \/ FilterDone \/ QueueImage \/ QueueDone

PlanSpec == PlanInit /\ [][PlanNext]_planVars

-----------------------------------------------------------------------------
(* What the plan promises *)

Filtered == phase \in {"queue", "planned"}
Planned == phase = "planned"
NoSkipOption == ~conf.skip_parents /\ ~conf.skip_existing

(* self.images lists every parent before its children. *)
ParentsFirst ==
    \A j, k \in 1 .. Len(images) :
        images[j] \in Ancestors[images[k]] => j < k

(* How often the workers will be handed image i: once if build_queue queued *)
(* it, and once if its parent is handed out too, since BuildTask.followups   *)
(* adds every child that is not unmatched after a parent that is built or   *)
(* skipped.                                                                 *)
Handed[i \in Images] ==
    (IF \E k \in DOMAIN roots : roots[k] = i THEN 1 ELSE 0)
  + (IF status[i] # "unmatched" /\ Parent[i] # NoImage THEN Handed[Parent[i]] ELSE 0)

(* No order of the Dockerfiles and no earlier iteration can lose an image    *)
(* whose name was asked for: filter_images leaves it matched or skipped.    *)
RequestedNotDropped ==
    Filtered =>
        \A i \in requested : conf.filter => status[i] \in {"matched", "skipped"}

(* Without the skip options the plan is exactly the requested images and     *)
(* their ancestors, whatever the order ("Build only images matching regex    *)
(* and its dependencies", common/config.py:104).                            *)
PlanIsClosure ==
    Filtered /\ conf.filter /\ NoSkipOption =>
        {i \in Images : status[i] = "matched"}
          = requested \cup UNION {Ancestors[i] : i \in requested}

(* Without the skip options, every matched image is handed to the workers    *)
(* exactly once and no other image ever is.                                  *)
MatchedHandedOnce ==
    Planned /\ NoSkipOption =>
        \A i \in Images : Handed[i] = IF status[i] = "matched" THEN 1 ELSE 0

(* With a filter, --skip-existing keeps the cached images out of the plan,   *)
(* requested or ancestor.  (Without a filter the option has no effect:       *)
(* filter_images then marks every image matched.)                           *)
CachedNotMatched ==
    Filtered /\ conf.filter /\ conf.skip_existing =>
        \A i \in cached : status[i] # "matched"

=============================================================================
