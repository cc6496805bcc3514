------------------------- MODULE ImageFilter_proofs -------------------------
(***************************************************************************)
(* What is proved of ImageFilter for every set of images, every tree of      *)
(* parents and every order in which the Dockerfiles may be listed.           *)
(***************************************************************************)
EXTENDS ImageFilter, TLAPS

Wanted == {"matched", "skipped"}

(* A requested image is wanted from its own iteration on: a later iteration   *)
(* only ever raises an ancestor to matched or skipped, or drops an image that *)
(* was not requested.                                                       *)
SeenWanted ==
    conf.filter =>
        /\ phase = "filter" =>
             \A k \in 1 .. Len(images) :
                k < n /\ images[k] \in requested => status[images[k]] \in Wanted
        /\ phase # "filter" => \A i \in requested : status[i] \in Wanted

-----------------------------------------------------------------------------
(* The tree of images. *)

(* The ancestors of i without recursion: what is in every set of images that  *)
(* has the parent of i and the parents of its members.                      *)
Above == [i \in Images |->
            {a \in Images : /\ Parent[i] # NoImage
                            /\ \A U \in SUBSET Images :
                                  /\ Parent[i] \in U
                                  /\ \A b \in U : Parent[b] \in U \cup {NoImage}
                                  => a \in U}]

(* The right-hand side of the definition of Ancestors. *)
AncestorsOf(f) ==
    [i \in Images |-> IF Parent[i] = NoImage THEN {} ELSE {Parent[i]} \cup f[Parent[i]]]

(* It is a solution of the equation that defines Ancestors... *)
LEMMA AboveUnfolds == Above = AncestorsOf(Above)
<1> SUFFICES ASSUME NEW i \in Images
             PROVE  Above[i] = IF Parent[i] = NoImage THEN {}
                               ELSE {Parent[i]} \cup Above[Parent[i]]
  BY DEF Above, AncestorsOf
<1>1. CASE Parent[i] = NoImage
  BY <1>1 DEF Above
<1>2. CASE Parent[i] # NoImage
  <2> DEFINE p == Parent[i]
             Closed(U) == \A b \in U : Parent[b] \in U \cup {NoImage}
  <2>p. p \in Images
    BY <1>2, ParentAssumption DEF ParentAssumption
  <2>1. ASSUME NEW a \in {p} \cup Above[p] PROVE a \in Above[i]
    <3> SUFFICES ASSUME NEW U \in SUBSET Images, p \in U, Closed(U) PROVE a \in U
      BY <1>2, <2>p, <2>1 DEF Above
    <3> QED
      BY <2>p, <2>1 DEF Above
  <2>2. ASSUME NEW a \in Above[i], a # p PROVE a \in Above[p]
    <3>1. a \in Images /\ \A U \in SUBSET Images : p \in U /\ Closed(U) => a \in U
      BY <2>2 DEF Above
    <3>2. Parent[p] # NoImage
      <4>1. CASE Parent[p] = NoImage
        <5>1. Closed({p})
          BY <4>1
        <5> QED
          BY <3>1, <5>1, <2>2, <2>p
      <4> QED
        BY <4>1
    <3> SUFFICES ASSUME NEW U \in SUBSET Images, Parent[p] \in U, Closed(U) PROVE a \in U
      BY <3>1, <3>2, <2>p DEF Above
    <3>3. Closed(U \cup {p})
      OBVIOUS
    <3> HIDE DEF p
    <3> QED
      BY <3>1, <3>3, <2>2, <2>p
  <2> QED
    BY <1>2, <2>1, <2>2
<1> QED
  BY <1>1, <1>2

(* ...so there is one, and Ancestors satisfies its equation. *)
LEMMA AncestorsUnfold ==
    /\ DOMAIN Ancestors = Images
    /\ \A i \in Images :
        Ancestors[i] = IF Parent[i] = NoImage THEN {} ELSE {Parent[i]} \cup Ancestors[Parent[i]]
<1>1. Ancestors = CHOOSE f : f = AncestorsOf(f)
  BY DEF Ancestors, AncestorsOf
<1>2. \E f : f = AncestorsOf(f)
  BY AboveUnfolds
<1>3. Ancestors = AncestorsOf(Ancestors)
  BY <1>1, <1>2
<1> QED
  BY <1>3 DEF AncestorsOf

-----------------------------------------------------------------------------
(* What filter_images has done after the images before index n.              *)

(* The images of R and all that they are built on.                          *)
UpTo(R) == R \cup UNION {Ancestors[i] : i \in R}
Passed == {images[k] : k \in {j \in DOMAIN images : j < n}}
Visited == IF phase = "filter" THEN Passed ELSE Images
Considered == IF phase = "queue" THEN Passed ELSE Images
Matched == {i \in Images : status[i] = "matched"}

(* Without the skip options, the matched images are those requested so far    *)
(* and their ancestors; without a filter, all images so far.                *)
Closure ==
    NoSkipOption =>
        /\ \A i \in Images : status[i] \in {"unprocessed", "unmatched", "matched"}
        /\ \A i \in Visited : status[i] # "unprocessed"
        /\ conf.filter => Matched = UpTo(requested \cap Visited)
        /\ ~conf.filter => Visited \subseteq Matched

(* --skip-existing leaves no cached image matched, at any moment.            *)
CacheRespected ==
    conf.filter /\ conf.skip_existing => \A i \in cached : status[i] # "matched"

(* build_queue has queued the roots among the images so far, each once.      *)
RootsSoFar ==
    /\ phase = "filter" => roots = <<>>
    /\ phase # "filter" =>
           \A i \in Images : (\E k \in DOMAIN roots : roots[k] = i)
                                <=> i \in Considered /\ IsRoot(i)
    /\ \A j, k \in DOMAIN roots : roots[j] = roots[k] => j = k

LEMMA ListedImages ==
    ASSUME PlanTypeOK
    PROVE  /\ images \in Seq(Images)
           /\ Len(images) \in Nat
           /\ \A i \in Images : \E k \in 1 .. Len(images) : images[k] = i
           /\ n <= Len(images) => images[n] \in Images
BY OrdersAssumption DEF OrdersAssumption, PlanTypeOK

(* Every induction over the tree is an argument about an image whose parent   *)
(* is no counterexample.                                                    *)
LEMMA AncestorsAreImages == \A i \in Images : Ancestors[i] \subseteq Images
<1> DEFINE S == {i \in Images : ~(Ancestors[i] \subseteq Images)}
<1> SUFFICES ASSUME S # {} PROVE FALSE
  OBVIOUS
<1>1. PICK i \in S : Parent[i] \notin S
  BY ParentAssumption DEF ParentAssumption
<1> QED
  BY <1>1, AncestorsUnfold, ParentAssumption DEF ParentAssumption

(* The ancestors of an ancestor are ancestors.                               *)
LEMMA AncestorsTransitive ==
    \A c \in Images : \A b \in Ancestors[c] : Ancestors[b] \subseteq Ancestors[c]
<1> DEFINE S == {c \in Images : \E b \in Ancestors[c] : ~(Ancestors[b] \subseteq Ancestors[c])}
<1> SUFFICES ASSUME S # {} PROVE FALSE
  OBVIOUS
<1>1. PICK c \in S : Parent[c] \notin S
  BY ParentAssumption DEF ParentAssumption
<1>2. PICK b \in Ancestors[c] : ~(Ancestors[b] \subseteq Ancestors[c])
  BY <1>1
<1>3. /\ Parent[c] \in Images
      /\ Ancestors[c] = {Parent[c]} \cup Ancestors[Parent[c]]
  BY <1>1, <1>2, AncestorsUnfold, ParentAssumption DEF ParentAssumption
<1>4. b \in Ancestors[Parent[c]]
  BY <1>2, <1>3
<1> QED
  BY <1>1, <1>2, <1>3, <1>4

(* With an image, UpTo(R) has its ancestors.                                 *)
LEMMA UpToClosed ==
    ASSUME NEW R \in SUBSET Images, NEW b \in UpTo(R)
    PROVE  Ancestors[b] \subseteq UpTo(R)
BY AncestorsTransitive DEF UpTo

(* One more image in R adds it and its ancestors.                            *)
LEMMA UpToGrows ==
    ASSUME NEW R \in SUBSET Images, NEW i \in Images
    PROVE  UpTo(R \cup {i}) = UpTo(R) \cup {i} \cup Ancestors[i]
BY DEF UpTo

(* At the end of a loop every image has had its iteration.                   *)
LEMMA AllPassed ==
    ASSUME PlanTypeOK, n > Len(images)
    PROVE  Passed = Images
<1>1. Passed \subseteq Images
  BY ListedImages DEF Passed
<1>2. ASSUME NEW i \in Images PROVE i \in Passed
  <2>1. PICK k \in 1 .. Len(images) : images[k] = i
    BY ListedImages
  <2>2. k < n /\ k \in DOMAIN images
    BY <2>1, ListedImages DEF PlanTypeOK
  <2> QED
    BY <2>1, <2>2 DEF Passed
<1> QED
  BY <1>1, <1>2

(* An iteration passes one image more.                                      *)
LEMMA OneMore ==
    ASSUME PlanTypeOK, NEW p \in {"filter", "queue"}, Iterate(p)
    PROVE  /\ images[n] \in Images
           /\ images[n] \notin Passed
           /\ Passed' = Passed \cup {images[n]}
<1>1. n \in DOMAIN images /\ n \in Nat /\ images[n] \in Images
  BY ListedImages DEF PlanTypeOK, Iterate
<1>2. images' = images /\ n' = n + 1
  BY DEF Iterate, inputs
<1>3. \A j \in DOMAIN images : j < n + 1 <=> j < n \/ j = n
  BY <1>1, ListedImages
<1>4. \A j, k \in DOMAIN images : images[j] = images[k] => j = k
  BY OrdersAssumption DEF OrdersAssumption, PlanTypeOK
<1>5. images[n] \notin Passed
  BY <1>1, <1>4 DEF Passed
<1> QED
  BY <1>1, <1>2, <1>3, <1>5 DEF Passed

(* Nothing is matched, and nothing queued, at first.                         *)
LEMMA InitClosure == PlanInit => Closure /\ CacheRespected /\ RootsSoFar
<1> SUFFICES ASSUME PlanInit PROVE Closure /\ CacheRespected /\ RootsSoFar
  OBVIOUS
<1> USE DEF PlanInit
<1>1. Passed = {}
  <2>1. DOMAIN images \subseteq Nat \ {0}
    BY OrdersAssumption DEF OrdersAssumption
  <2> QED
    BY <2>1 DEF Passed
<1>2. Visited = {} /\ Matched = {} /\ UpTo({}) = {}
  BY <1>1 DEF Visited, Matched, UpTo
<1>3. Closure
  BY <1>2 DEF Closure
<1>4. CacheRespected
  BY DEF CacheRespected
<1>5. RootsSoFar
  BY DEF RootsSoFar
<1> QED
  BY <1>3, <1>4, <1>5

-----------------------------------------------------------------------------
(* One iteration. *)

LEMMA PlanTypeStep ==
    ASSUME PlanTypeOK, PlanNext
    PROVE  PlanTypeOK'
<1> USE DEF PlanTypeOK, inputs, Iterate, Statuses
<1>1. CASE FilterKeep
  BY <1>1 DEF FilterKeep
<1>2. CASE FilterRequested
  <2>1. \A i \in Images : /\ RequestedStatus(i) \in Statuses
                          /\ AncestorStatus(i) \in Statuses
    BY DEF RequestedStatus, AncestorStatus
  <2>2. status' \in [Images -> Statuses]
    BY <1>2, <2>1, ListedImages DEF FilterRequested
  <2> QED
    BY <1>2, <2>2 DEF FilterRequested
<1>3. CASE FilterOther
  <2>1. status' \in [Images -> Statuses]
    BY <1>3 DEF FilterOther
  <2> QED
    BY <1>3, <2>1 DEF FilterOther
<1>4. CASE NoFilter
  <2>1. status' \in [Images -> Statuses]
    BY <1>4 DEF NoFilter
  <2> QED
    BY <1>4, <2>1 DEF NoFilter
<1>5. CASE FilterDone
  BY <1>5 DEF FilterDone
<1>6. CASE QueueImage
  BY <1>6, ListedImages DEF QueueImage
<1>7. CASE QueueDone
  BY <1>7 DEF QueueDone
<1> QED
  BY <1>1, <1>2, <1>3, <1>4, <1>5, <1>6, <1>7 DEF PlanNext

(* An iteration over image images[n] that keeps wanted images wanted, and     *)
(* makes images[n] wanted if it was requested, keeps SeenWanted.            *)
LEMMA IterationKeepsSeen ==
    ASSUME PlanTypeOK, SeenWanted, Iterate("filter"),
           \A i \in Images : status[i] \in Wanted /\ i \in requested
                               => status'[i] \in Wanted,
           conf.filter /\ images[n] \in requested => status'[images[n]] \in Wanted
    PROVE  SeenWanted'
<1> SUFFICES ASSUME conf.filter, NEW k \in 1 .. Len(images), k < n + 1,
                    images[k] \in requested
             PROVE  status'[images[k]] \in Wanted
  BY DEF SeenWanted, Iterate, inputs, PlanTypeOK
<1>1. CASE k < n
  BY <1>1 DEF SeenWanted, Iterate, PlanTypeOK
<1>2. CASE k = n
  BY <1>2
<1> QED
  BY <1>1, <1>2 DEF PlanTypeOK

LEMMA SeenStep ==
    ASSUME PlanTypeOK, SeenWanted, PlanNext
    PROVE  SeenWanted'
<1>1. CASE FilterKeep
  <2>1. status' = status /\ status[images[n]] \in Wanted /\ Iterate("filter")
    BY <1>1 DEF FilterKeep, Wanted
  <2> QED
    BY <2>1, IterationKeepsSeen
<1>2. CASE FilterRequested
  <2>1. \A i \in Images : RequestedStatus(i) \in Wanted /\ AncestorStatus(i) \in Wanted
    BY DEF RequestedStatus, AncestorStatus, Wanted
  <2>2. /\ Iterate("filter")
        /\ images[n] \in Images
        /\ \A j \in Images : status'[j] = IF j = images[n] THEN RequestedStatus(images[n])
                                 ELSE IF j \in Climbed(images[n]) THEN AncestorStatus(j)
                                 ELSE status[j]
    BY <1>2, ListedImages DEF FilterRequested, Iterate
  <2>3. \A i \in Images : status[i] \in Wanted => status'[i] \in Wanted
    BY <2>1, <2>2
  <2>4. status'[images[n]] \in Wanted
    BY <2>1, <2>2
  <2> QED
    BY <2>2, <2>3, <2>4, IterationKeepsSeen
<1>3. CASE FilterOther
  <2>1. /\ Iterate("filter")
        /\ images[n] \notin requested
        /\ \A i \in Images : i # images[n] => status'[i] = status[i]
    BY <1>3 DEF FilterOther, PlanTypeOK
  <2> QED
    BY <2>1, IterationKeepsSeen
<1>4. CASE NoFilter
  BY <1>4 DEF NoFilter, Iterate, inputs, SeenWanted
<1>5. CASE FilterDone
  <2> SUFFICES ASSUME conf.filter, NEW i \in requested PROVE status[i] \in Wanted
    BY <1>5 DEF FilterDone, inputs, SeenWanted
  <2>1. PICK k \in 1 .. Len(images) : images[k] = i
    BY ListedImages DEF PlanTypeOK
  <2>2. k < n /\ phase = "filter"
    BY <1>5, ListedImages DEF FilterDone, PlanTypeOK
  <2> QED
    BY <2>1, <2>2 DEF SeenWanted
<1>6. CASE QueueImage \/ QueueDone
  BY <1>6 DEF QueueImage, QueueDone, Iterate, inputs, SeenWanted
<1> QED
  BY <1>1, <1>2, <1>3, <1>4, <1>5, <1>6 DEF PlanNext

(* The step that matters is FilterRequested: the climb stops at a matched     *)
(* ancestor, and is right to, because the ancestors of that one are matched. *)
LEMMA ClosureStep ==
    ASSUME PlanTypeOK, Closure, PlanNext
    PROVE  Closure'
<1> SUFFICES ASSUME NoSkipOption PROVE Closure'
  BY DEF Closure, NoSkipOption, PlanNext, FilterKeep, FilterRequested, FilterOther, NoFilter,
         FilterDone, QueueImage, QueueDone, Iterate, inputs
<1>c. conf' = conf /\ requested' = requested /\ NoSkipOption'
  BY DEF NoSkipOption, PlanNext, FilterKeep, FilterRequested, FilterOther, NoFilter,
         FilterDone, QueueImage, QueueDone, Iterate, inputs
<1>r. requested \subseteq Images /\ Passed \subseteq Images
  BY ListedImages DEF PlanTypeOK, Passed
<1>f. ASSUME Iterate("filter")
      PROVE  /\ Visited = Passed
             /\ Visited' = Passed \cup {images[n]}
             /\ images[n] \in Images
  BY <1>f, OneMore DEF Visited, Iterate
<1>1. CASE FilterKeep
  <2> DEFINE i == images[n]
  <2>1. Visited' = Visited \cup {i} /\ i \in Matched /\ status' = status
    BY <1>1, <1>f DEF FilterKeep, Matched
  <2>2. Matched' = Matched /\ conf.filter /\ Matched = UpTo(requested \cap Visited)
    BY <1>1, <2>1 DEF FilterKeep, Closure, Matched
  <2>3. UpTo(requested \cap Visited') = UpTo(requested \cap Visited)
    <3>1. CASE i \in requested
      <4>1. requested \cap Visited' = (requested \cap Visited) \cup {i}
        BY <2>1, <3>1
      <4> DEFINE R == requested \cap Visited
      <4>2. i \in UpTo(R) /\ R \in SUBSET Images /\ i \in Images
        BY <2>1, <2>2, <1>r DEF Matched
      <4> HIDE DEF i, R
      <4>3. Ancestors[i] \subseteq UpTo(R)
        BY <4>2, UpToClosed
      <4>4. UpTo(R \cup {i}) = UpTo(R)
        BY <4>2, <4>3, UpToGrows
      <4> QED
        BY <4>1, <4>4 DEF R
    <3>2. CASE i \notin requested
      <4>1. requested \cap Visited' = requested \cap Visited
        BY <2>1, <3>2
      <4> QED
        BY <4>1
    <3> QED
      BY <3>1, <3>2
  <2> QED
    BY <1>c, <2>1, <2>2, <2>3 DEF Closure, Matched
<1>2. CASE FilterRequested
  <2> DEFINE i == images[n]
             R == requested \cap Visited
  <2>1. /\ conf.filter /\ Iterate("filter") /\ i \in requested
        /\ i \in Images /\ Visited' = Visited \cup {i}
        /\ Matched = UpTo(R) /\ R \in SUBSET Images
    BY <1>2, <1>f, <1>r DEF FilterRequested, Closure
  <2>2. RequestedStatus(i) = "matched" /\ \A a \in Images : AncestorStatus(a) = "matched"
    BY <2>1 DEF RequestedStatus, AncestorStatus, NoSkipOption, Closure
  <2>3. Climbed(i) \subseteq Images
    BY <2>1, AncestorsAreImages DEF Climbed
  <2>4. status' = [j \in Images |-> IF j \in {i} \cup Climbed(i) THEN "matched" ELSE status[j]]
    BY <1>2, <2>1, <2>2 DEF FilterRequested
  <2>5. Matched' = Matched \cup {i} \cup Climbed(i)
    BY <2>1, <2>3, <2>4 DEF Matched
  <2>6. Ancestors[i] \subseteq Matched \cup Climbed(i)
    <3> SUFFICES ASSUME NEW a \in Ancestors[i], a \notin Matched PROVE a \in Climbed(i)
      OBVIOUS
    <3> SUFFICES ASSUME NEW b \in Ancestors[i], b = a \/ a \in Ancestors[b]
                 PROVE  status[b] \notin {"matched", "skipped"}
      BY DEF Climbed
    <3>1. a \in Images /\ b \in Images
      BY <2>1, AncestorsAreImages
    <3>2. b \notin Matched
      BY <2>1, <3>1, UpToClosed
    <3> QED
      BY <3>1, <3>2 DEF Matched, Closure
  <2>7. Matched' = UpTo(R \cup {i})
    <3>1. Climbed(i) \subseteq Ancestors[i]
      BY DEF Climbed
    <3> HIDE DEF i, R
    <3> QED
      BY <2>1, <2>5, <2>6, <3>1, UpToGrows
  <2>8. requested' \cap Visited' = R \cup {i}
    BY <1>c, <2>1
  <2>9. \A j \in Images : status'[j] \in {"unprocessed", "unmatched", "matched"}
    BY <2>4 DEF Closure
  <2>10. \A j \in Visited' : status'[j] # "unprocessed"
    BY <2>1, <2>4, <1>r, <1>f DEF Closure
  <2> QED
    BY <1>c, <2>1, <2>7, <2>8, <2>9, <2>10 DEF Closure
<1>3. CASE FilterOther
  <2> DEFINE i == images[n]
  <2>1. /\ conf.filter /\ i \in Images /\ i \notin requested /\ i \notin Matched
        /\ Visited' = Visited \cup {i}
        /\ status' = [status EXCEPT ![i] = "unmatched"]
    BY <1>3, <1>f DEF FilterOther, Matched
  <2>2. Matched' = Matched
    BY <2>1 DEF Matched, PlanTypeOK
  <2>3. requested' \cap Visited' = requested \cap Visited
    BY <1>c, <2>1
  <2>4. \A j \in Visited' : status'[j] # "unprocessed"
    BY <1>3, <2>1, <1>r, <1>f DEF Closure, PlanTypeOK, FilterOther
  <2>5. \A j \in Images : status'[j] \in {"unprocessed", "unmatched", "matched"}
    BY <2>1 DEF Closure, PlanTypeOK
  <2> QED
    BY <1>c, <2>1, <2>2, <2>3, <2>4, <2>5 DEF Closure
<1>4. CASE NoFilter
  <2> DEFINE i == images[n]
  <2>1. /\ ~conf.filter /\ i \in Images
        /\ Visited = Passed /\ Visited' = Visited \cup {i}
        /\ status' = [status EXCEPT ![i] = "matched"]
    BY <1>4, <1>f DEF NoFilter
  <2>2. Matched' = Matched \cup {i}
    BY <2>1 DEF Matched, PlanTypeOK
  <2>3. \A j \in Images : status'[j] \in {"unprocessed", "unmatched", "matched"}
    BY <2>1 DEF Closure, PlanTypeOK
  <2>4. Visited' \subseteq Matched'
    BY <2>1, <2>2 DEF Closure
  <2>5. \A j \in Visited' : status'[j] # "unprocessed"
    BY <2>4 DEF Matched
  <2> QED
    BY <1>c, <2>1, <2>3, <2>4, <2>5 DEF Closure
<1>5. CASE FilterDone
  <2>1. Visited = Images /\ Visited' = Images /\ status' = status
    BY <1>5, AllPassed DEF FilterDone, Visited
  <2> QED
    BY <1>c, <2>1 DEF Closure, Matched
<1>6. CASE QueueImage \/ QueueDone
  <2>1. Visited = Images /\ Visited' = Images /\ status' = status
    BY <1>6 DEF QueueImage, QueueDone, Visited, Iterate
  <2> QED
    BY <1>c, <2>1 DEF Closure, Matched
<1> QED
  BY <1>1, <1>2, <1>3, <1>4, <1>5, <1>6 DEF PlanNext

(* Both ways to become matched look into the cache.                          *)
LEMMA CacheStep ==
    ASSUME PlanTypeOK, CacheRespected, PlanNext
    PROVE  CacheRespected'
<1> SUFFICES ASSUME conf.filter, conf.skip_existing, NEW i \in cached, status'[i] = "matched"
             PROVE  FALSE
  BY DEF CacheRespected, PlanNext, FilterKeep, FilterRequested, FilterOther, NoFilter,
         FilterDone, QueueImage, QueueDone, Iterate, inputs
<1>1. i \in Images /\ status[i] # "matched"
  BY DEF CacheRespected, PlanTypeOK
<1>2. CASE FilterRequested
  BY <1>1, <1>2 DEF FilterRequested, RequestedStatus, AncestorStatus
<1>3. CASE FilterOther
  BY <1>1, <1>3 DEF FilterOther, PlanTypeOK
<1> QED
  BY <1>1, <1>2, <1>3
     DEF PlanNext, FilterKeep, NoFilter, FilterDone, QueueImage, QueueDone

(* A status does not change while the roots are queued.                      *)
LEMMA RootsStep ==
    ASSUME PlanTypeOK, RootsSoFar, PlanNext
    PROVE  RootsSoFar'
<1>1. CASE FilterKeep \/ FilterRequested \/ FilterOther \/ NoFilter
  BY <1>1 DEF FilterKeep, FilterRequested, FilterOther, NoFilter, Iterate, RootsSoFar
<1>2. CASE FilterDone
  <2>1. roots' = <<>> /\ roots = <<>>
    BY <1>2 DEF FilterDone, RootsSoFar
  <2>2. Considered' = {}
    <3>1. n' = 1 /\ phase' = "queue" /\ images' = images
      BY <1>2 DEF FilterDone, inputs
    <3>2. DOMAIN images \subseteq Nat \ {0}
      BY ListedImages
    <3> QED
      BY <3>1, <3>2 DEF Considered, Passed
  <2> QED
    BY <1>2, <2>1, <2>2 DEF RootsSoFar, FilterDone
<1>3. CASE QueueImage
  <2> DEFINE i == images[n]
  <2>1. /\ Considered = Passed /\ Considered' = Passed \cup {i}
        /\ i \in Images /\ i \notin Passed
        /\ phase = "queue" /\ phase' = "queue"
    BY <1>3, OneMore DEF QueueImage, Iterate, Considered
  <2>2. \A j \in Images : IsRoot(j)' <=> IsRoot(j)
    BY <1>3 DEF QueueImage, IsRoot
  <2>3. roots \in Seq(Images) /\ Len(roots) \in Nat
    BY DEF PlanTypeOK
  <2>4. CASE IsRoot(i)
    <3>1. roots' = Append(roots, i)
      BY <1>3, <2>4 DEF QueueImage
    <3>2. \A k \in DOMAIN roots : roots[k] # i
      BY <2>1 DEF RootsSoFar
    <3>3. /\ DOMAIN roots' = DOMAIN roots \cup {Len(roots) + 1}
          /\ roots'[Len(roots) + 1] = i
          /\ \A k \in DOMAIN roots : k # Len(roots) + 1 /\ roots'[k] = roots[k]
      BY <2>3, <3>1, <2>1
    <3> QED
      BY <2>1, <2>2, <2>4, <3>2, <3>3 DEF RootsSoFar
  <2>5. CASE ~IsRoot(i)
    <3>1. roots' = roots
      BY <1>3, <2>5 DEF QueueImage
    <3> QED
      BY <2>1, <2>2, <2>5, <3>1 DEF RootsSoFar
  <2> QED
    BY <2>4, <2>5
<1>4. CASE QueueDone
  <2>1. Considered = Images /\ Considered' = Images
    BY <1>4, AllPassed DEF QueueDone, Considered
  <2> QED
    BY <1>4, <2>1 DEF QueueDone, RootsSoFar, IsRoot
<1> QED
  BY <1>1, <1>2, <1>3, <1>4 DEF PlanNext

(* The right-hand side of the definition of Handed. *)
HandedOf(f) ==
    [i \in Images |->
        (IF \E k \in DOMAIN roots : roots[k] = i THEN 1 ELSE 0)
      + (IF status[i] # "unmatched" /\ Parent[i] # NoImage THEN f[Parent[i]] ELSE 0)]

(* The parent of a matched image is matched.                                 *)
LEMMA MatchedUpwards ==
    ASSUME PlanTypeOK, Closure, Filtered, NoSkipOption, NEW i \in Matched, Parent[i] # NoImage
    PROVE  Parent[i] \in Matched
<1>1. Visited = Images /\ i \in Images /\ Parent[i] \in Images
  BY ParentAssumption DEF ParentAssumption, Visited, Filtered, Matched
<1>2. CASE conf.filter
  <2>1. Parent[i] \in Ancestors[i]
    BY <1>1, AncestorsUnfold
  <2>2. requested \cap Visited \in SUBSET Images
    BY DEF PlanTypeOK
  <2>3. Matched = UpTo(requested \cap Visited)
    BY <1>2 DEF Closure
  <2> QED
    BY <2>1, <2>2, <2>3, UpToClosed
<1>3. CASE ~conf.filter
  BY <1>1, <1>3 DEF Closure
<1> QED
  BY <1>2, <1>3

(* Handed satisfies its equation, since "one for every matched image" does;   *)
(* and no other function satisfies it, by induction over the tree.          *)
LEMMA HandedMatched ==
    ASSUME PlanTypeOK, Closure, RootsSoFar, Planned, NoSkipOption
    PROVE  \A i \in Images : Handed[i] = IF status[i] = "matched" THEN 1 ELSE 0
<1> DEFINE once == [i \in Images |-> IF status[i] = "matched" THEN 1 ELSE 0]
<1>1. \A i \in Images : (\E k \in DOMAIN roots : roots[k] = i)
                           <=> status[i] = "matched" /\ Parent[i] = NoImage
  <2>1. \A i \in Images : (\E k \in DOMAIN roots : roots[k] = i) <=> IsRoot(i)
    BY DEF RootsSoFar, Planned, Considered
  <2>2. \A i \in Images : status[i] \in {"unmatched", "matched"}
    BY DEF Closure, Planned, Visited
  <2>3. \A i \in Images : Parent[i] # NoImage => Parent[i] \in Images
    BY ParentAssumption DEF ParentAssumption
  <2> QED
    BY <2>1, <2>2, <2>3 DEF IsRoot
<1>2. once = HandedOf(once)
  <2> SUFFICES ASSUME NEW i \in Images
               PROVE  once[i] = (IF \E k \in DOMAIN roots : roots[k] = i THEN 1 ELSE 0)
                        + (IF status[i] # "unmatched" /\ Parent[i] # NoImage
                           THEN once[Parent[i]] ELSE 0)
    BY DEF HandedOf
  <2>1. status[i] \in {"unmatched", "matched"}
    BY DEF Closure, Planned, Visited
  <2>2. CASE status[i] = "unmatched"
    BY <1>1, <2>2
  <2>3. CASE status[i] = "matched" /\ Parent[i] = NoImage
    BY <1>1, <2>3
  <2>4. CASE status[i] = "matched" /\ Parent[i] # NoImage
    <3>1. Parent[i] \in Images /\ status[Parent[i]] = "matched"
      BY <2>4, MatchedUpwards DEF Matched, Filtered, Planned
    <3> QED
      BY <1>1, <2>4, <3>1
  <2> QED
    BY <2>1, <2>2, <2>3, <2>4
<1>3. Handed = HandedOf(Handed)
  <2>1. Handed = CHOOSE f : f = HandedOf(f)
    BY DEF Handed, HandedOf
  <2>2. \E f : f = HandedOf(f)
    BY <1>2
  <2> QED
    BY <2>1, <2>2
<1> DEFINE S == {i \in Images : Handed[i] # once[i]}
<1>4. CASE S # {}
  <2>1. PICK i \in S : Parent[i] \notin S
    BY <1>4, ParentAssumption DEF ParentAssumption
  <2>2. Parent[i] # NoImage => Handed[Parent[i]] = once[Parent[i]]
    BY <2>1, ParentAssumption DEF ParentAssumption
  <2>3. HandedOf(Handed)[i] = HandedOf(once)[i]
    BY <2>2 DEF HandedOf
  <2> HIDE DEF once
  <2> QED
    BY <1>2, <1>3, <2>1, <2>3
<1> QED
  BY <1>4

-----------------------------------------------------------------------------
(* The invariant, and what it implies. *)

PlanIInv == PlanTypeOK /\ SeenWanted /\ Closure /\ CacheRespected /\ RootsSoFar

LEMMA PlanInitIInv == PlanInit => PlanIInv
<1> SUFFICES ASSUME PlanInit PROVE PlanTypeOK /\ SeenWanted
  BY InitClosure DEF PlanIInv
<1> QED
  BY OrdersAssumption
     DEF PlanInit, PlanTypeOK, SeenWanted, Statuses, Conf, OrdersAssumption

LEMMA PlanNextIInv == PlanIInv /\ [PlanNext]_planVars => PlanIInv'
<1>1. ASSUME PlanIInv, PlanNext PROVE PlanIInv'
  BY <1>1, PlanTypeStep, SeenStep, ClosureStep, CacheStep, RootsStep DEF PlanIInv
<1>2. ASSUME PlanIInv, UNCHANGED planVars PROVE PlanIInv'
  <2> USE <1>2 DEF PlanIInv, planVars
  <2>1. PlanTypeOK' /\ SeenWanted' /\ CacheRespected'
    BY DEF PlanTypeOK, SeenWanted, CacheRespected
  <2>2. Visited' = Visited /\ Considered' = Considered /\ Matched' = Matched
    BY DEF Visited, Considered, Passed, Matched
  <2>3. Closure' /\ RootsSoFar'
    BY <2>2 DEF Closure, NoSkipOption, RootsSoFar, IsRoot
  <2> QED
    BY <2>1, <2>3
<1> QED
  BY <1>1, <1>2

THEOREM PlanInvariance == PlanSpec => []PlanIInv
BY PlanInitIInv, PlanNextIInv, PTL DEF PlanSpec

(* Statuses, the queue of roots and the loop index keep their types: every    *)
(* root queued is an image.                                                 *)
THEOREM PlanTypeCorrect == PlanSpec => []PlanTypeOK
<1>1. PlanIInv => PlanTypeOK
  BY DEF PlanIInv
<1> QED
  BY <1>1, PlanInvariance, PTL

(* filter_images never drops an image whose name was asked for, whatever the  *)
(* order of the Dockerfiles and the skip options.                           *)
LEMMA SeenIsKept == PlanIInv => RequestedNotDropped
BY DEF PlanIInv, SeenWanted, Wanted, RequestedNotDropped, Filtered

THEOREM RequestedKept == PlanSpec => []RequestedNotDropped
BY SeenIsKept, PlanInvariance, PTL

(* Without the skip options, filter_images matches exactly the requested      *)
(* images and their ancestors, for every tree and every order in which        *)
(* os.walk may list it, although it climbs from an image only as far as the    *)
(* first ancestor that is matched by then.                                  *)
LEMMA MatchedIsClosure == PlanIInv => PlanIsClosure
<1> SUFFICES ASSUME PlanIInv, Filtered, conf.filter, NoSkipOption
             PROVE  Matched = UpTo(requested)
  BY DEF PlanIsClosure, Matched, UpTo
<1>1. requested \cap Visited = requested
  BY DEF PlanIInv, PlanTypeOK, Visited, Filtered
<1> QED
  BY <1>1 DEF PlanIInv, Closure

THEOREM ClosureOfRequest == PlanSpec => []PlanIsClosure
BY MatchedIsClosure, PlanInvariance, PTL

(* Without the skip options, build_queue and the followups together hand every *)
(* matched image to the workers once, and no other image.                    *)
LEMMA MatchedIsHanded == PlanIInv => MatchedHandedOnce
BY HandedMatched DEF PlanIInv, MatchedHandedOnce

THEOREM HandedOnce == PlanSpec => []MatchedHandedOnce
BY MatchedIsHanded, PlanInvariance, PTL

(* With a filter and --skip-existing, no image of the docker cache is ever     *)
(* left to be built, requested, ancestor of a request, or both.              *)
LEMMA CacheIsKept == PlanIInv => CachedNotMatched
BY DEF PlanIInv, CacheRespected, CachedNotMatched

THEOREM CacheKept == PlanSpec => []CachedNotMatched
BY CacheIsKept, PlanInvariance, PTL
=============================================================================
