------------------------- MODULE CephRollout_proofs -------------------------
(***************************************************************************)
(* Proofs about CephRollout: what a play does to the daemons, for any hosts,   *)
(* daemons and files, and any number of plays, edits and faults.               *)
(*                                                                         *)
(* What a play still has to do is the rest of the sequence PlayTasks[kinds],    *)
(* so the position of its next task tells what it has done.  The first part     *)
(* shows of that sequence, made by concatenation, what the order of its tasks   *)
(* is; the invariant RInv then says, for the position the play is at, what it   *)
(* knows of each daemon ahead and what it has achieved for each behind.         *)
(***************************************************************************)
EXTENDS CephRollout, MergeConfigs_proofs

TaskNames == {"json", "conf", "look", "probe", "unset", "set", "health", "flush"}
TaskSet == [task : TaskNames, on : Ids]
Task(name, id) == [task |-> name, on |-> id]

KindOf(id) == Of(id).kind
HostOf(id) == Of(id).host
Osd(id) == KindOf(id) = "ceph-osd"
Mds(id) == KindOf(id) = "ceph-mds"

-----------------------------------------------------------------------------
(* What the tasks of a play are like.                                        *)

(* The tasks before the flush of a daemon, the last first.                     *)
Before(id) ==
    IF Osd(id) THEN IF Of(id).lvm
                    THEN <<"set", "health", "unset", "probe", "look", "health">>
                    ELSE <<"set", "unset", "probe", "look", "health">>
    ELSE IF Mds(id) THEN <<"look">> ELSE <<"health", "look">>

(* How long before its flush a daemon is looked at and probed, and the last    *)
(* question for the health is asked.                                         *)
LookDist(id) == IF Osd(id) THEN (IF Of(id).lvm THEN 5 ELSE 4) ELSE IF Mds(id) THEN 1 ELSE 2
ProbeDist(id) == IF Of(id).lvm THEN 4 ELSE 3
HealthDist(id) == IF Osd(id) THEN (IF Of(id).lvm THEN 2 ELSE 5) ELSE 1

Flushes(s) == {f \in DOMAIN s : s[f].task = "flush"}

Led(s) ==
    \A f \in Flushes(s) : \A e \in DOMAIN Before(s[f].on) :
        f > e /\ s[f - e] = Task(Before(s[f].on)[e], s[f].on)

(* The flags are set for one flush and taken back after it.                    *)
Enclosed(s) ==
    \A i \in DOMAIN s : s[i].task = "set" =>
        /\ i + 2 <= Len(s)
        /\ s[i + 1].task = "flush" /\ s[i + 2].task = "unset"

SameGroup(x, y) == HostOf(x) = HostOf(y) /\ KindOf(x) = KindOf(y)

(* The flush at f is for the files written at b and b + 1.                     *)
Group(s, b, f) ==
    /\ b \in DOMAIN s /\ b + 1 < f
    /\ s[b].task = "json" /\ s[b + 1].task = "conf" /\ s[b + 1].on = s[b].on
    /\ SameGroup(s[b].on, s[f].on)
    /\ \A k \in b + 2 .. f : s[k].task \notin {"json", "conf"}

Grouped(s) ==
    /\ \A f \in Flushes(s) : \E b \in DOMAIN s : Group(s, b, f)
    /\ \A b \in DOMAIN s : s[b].task = "json" =>
          \A x \in Ids : SameGroup(s[b].on, x) =>
              \E f \in Flushes(s) : s[f].on = x /\ Group(s, b, f)
    /\ \A c \in DOMAIN s : s[c].task = "conf" => c > 1 /\ s[c - 1] = Task("json", s[c].on)

Proper == {s \in Seq(TaskSet) : Led(s) /\ Enclosed(s) /\ Grouped(s)}

-----------------------------------------------------------------------------
(* Sequences                                                                *)

(* What holds of the empty sequence and of all concatenations holds of a       *)
(* sequence made by FlattenSeq.                                             *)
LEMMA FlattenIn ==
    ASSUME NEW G, <<>> \in G, \A s, t \in G : s \o t \in G, NEW ss \in Seq(G)
    PROVE  FlattenSeq(ss) \in G
<1> DEFINE N == Len(ss)
           f == Flat(ss)
           S == {n \in Nat : n \in 1 .. N => f[n] \in G}
<1>1. N \in Nat /\ \A i \in 1 .. N : ss[i] \in G
  OBVIOUS
<1>2. \A i \in 1 .. N : i > 1 => f[i] = f[i - 1] \o ss[i]
  BY <1>1, FlatStep
<1>6. N > 0 => f[1] = ss[1]
  BY <1>1, FlatStep
<1>3. Nat \subseteq S
  <2> HIDE DEF f, N
  <2>1. 0 \in S
    OBVIOUS
  <2>2. ASSUME NEW n \in Nat, n \in S, n + 1 \in 1 .. N PROVE f[n + 1] \in G
    <3>1. CASE n = 0
      <4>1. n + 1 = 1 /\ 1 \in 1 .. N
        BY <3>1, <2>2
      <4>2. f[1] = ss[1] /\ ss[1] \in G
        BY <4>1, <1>1, <1>6
      <4> QED
        BY <4>1, <4>2
    <3>2. CASE n # 0
      <4>1. n \in 1 .. N /\ (n + 1) - 1 = n /\ n + 1 > 1
        BY <3>2, <2>2, <1>1
      <4>2. f[n] \in G /\ ss[n + 1] \in G
        BY <4>1, <2>2, <1>1
      <4>3. f[n + 1] = f[n] \o ss[n + 1]
        BY <4>1, <2>2, <1>2
      <4> QED
        BY <4>2, <4>3
    <3> QED
      BY <3>1, <3>2
  <2>3. \A n \in Nat : n \in S => n + 1 \in S
    BY <2>2
  <2> QED
    BY <2>1, <2>3, SetInduction
<1>4. CASE N = 0
  <2>1. ss = <<>>
    BY <1>4, EmptySeq
  <2> QED
    BY <1>4, <2>1, FlattenIsFlat
<1>5. CASE N # 0
  <2>1. f[N] \in G
    BY <1>5, <1>3, <1>1
  <2> QED
    BY <1>5, <2>1, <1>1, FlattenIsFlat
<1> QED
  BY <1>4, <1>5

(* Every element of every part is there.                                     *)
LEMMA FlattenHas ==
    ASSUME NEW T, NEW ss \in Seq(Seq(T)), NEW i \in DOMAIN ss, NEW k \in DOMAIN ss[i]
    PROVE  \E j \in DOMAIN FlattenSeq(ss) : FlattenSeq(ss)[j] = ss[i][k]
<1> DEFINE N == Len(ss)
           f == Flat(ss)
           Has(n) == f[n] \in Seq(T) /\ (i <= n => \E j \in DOMAIN f[n] : f[n][j] = ss[i][k])
           S == {n \in Nat : n \in 1 .. N => Has(n)}
<1>0. i \in 1 .. N
  OBVIOUS
<1>1. N \in Nat /\ \A m \in 1 .. N : ss[m] \in Seq(T)
  OBVIOUS
<1>2. \A m \in 1 .. N : m > 1 => f[m] = f[m - 1] \o ss[m]
  BY <1>1, FlatStep
<1>8. N > 0 => f[1] = ss[1]
  BY <1>1, FlatStep
<1>3. \A n \in 1 .. N : Has(n)
  <2> HIDE DEF f, N
  <2>1. ASSUME NEW n \in Nat, n + 1 \in 1 .. N, n # 0 => Has(n) PROVE Has(n + 1)
    <3>1. CASE n = 0
      <4>1. n + 1 = 1 /\ 1 \in 1 .. N
        BY <3>1, <2>1
      <4>2. f[1] = ss[1] /\ ss[1] \in Seq(T)
        BY <4>1, <1>1, <1>8
      <4>3. Has(1)
        BY <4>2, <1>0
      <4> QED
        BY <4>1, <4>3
    <3>2. CASE n # 0
      <4>1. /\ n \in 1 .. N /\ (n + 1) - 1 = n /\ n + 1 > 1
            /\ Has(n) /\ ss[n + 1] \in Seq(T)
        BY <3>2, <2>1, <1>1
      <4>2. f[n + 1] = f[n] \o ss[n + 1]
        BY <4>1, <2>1, <1>2
      <4>3. f[n + 1] \in Seq(T)
        BY <4>1, <4>2
      <4> DEFINE s == f[n]
                 t == ss[n + 1]
      <4>6. s \in Seq(T) /\ t \in Seq(T) /\ f[n + 1] = s \o t
        BY <4>1, <4>2
      <4>4. ASSUME i <= n PROVE \E j \in DOMAIN f[n + 1] : f[n + 1][j] = ss[i][k]
        <5>1. PICK j \in DOMAIN f[n] : f[n][j] = ss[i][k]
          BY <4>1, <4>4
        <5>2. j \in DOMAIN f[n + 1] /\ f[n + 1][j] = f[n][j]
          <6> HIDE DEF s, t
          <6>1. j \in 1 .. Len(s)
            BY <5>1, <4>6 DEF s
          <6>2. j \in DOMAIN (s \o t) /\ (s \o t)[j] = s[j]
            BY <6>1, <4>6, ConcatAt
          <6> QED
            BY <6>2, <4>6 DEF s
        <5> QED
          BY <5>1, <5>2
      <4>5. ASSUME i = n + 1 PROVE \E j \in DOMAIN f[n + 1] : f[n + 1][j] = ss[i][k]
        <5>1. k \in 1 .. Len(ss[n + 1]) /\ Len(f[n]) \in Nat
          BY <4>1, <4>5
        <5>2. Len(f[n]) + k \in DOMAIN f[n + 1] /\ f[n + 1][Len(f[n]) + k] = ss[n + 1][k]
          <6> HIDE DEF s, t
          <6>1. k \in 1 .. Len(t) /\ Len(s) \in Nat
            BY <5>1 DEF s, t
          <6>3. \A m \in 1 .. Len(t) : /\ Len(s) + m \in DOMAIN (s \o t)
                                       /\ (s \o t)[Len(s) + m] = t[m]
            BY <4>6, ConcatAt
          <6>2. Len(s) + k \in DOMAIN (s \o t) /\ (s \o t)[Len(s) + k] = t[k]
            BY <6>1, <6>3
          <6> QED
            BY <6>2, <4>6 DEF s, t
        <5> QED
          BY <5>2, <4>5
      <4> QED
        BY <4>3, <4>4, <4>5, <1>0
    <3> QED
      BY <3>1, <3>2
  <2>2. 0 \in S
    BY <1>1
  <2>3. \A n \in Nat : n \in S => n + 1 \in S
    BY <2>1, <1>1
  <2>4. Nat \subseteq S
    BY <2>2, <2>3, SetInduction
  <2> QED
    BY <2>4, <1>1
<1>6. N # 0 /\ i <= N
  OBVIOUS
<1>7. Has(N)
  BY <1>3, <1>1, <1>6
<1> QED
  BY <1>7, <1>6, <1>1, FlattenIsFlat

-----------------------------------------------------------------------------
(* The daemons                                                              *)

Daemon == [id : STRING, kind : Range(Kinds), host : DOMAIN HostFiles, lvm : BOOLEAN]

LEMMA OfIs == \A i \in DOMAIN Daemons : Of(Daemons[i].id) = Daemons[i]
<1> TAKE i \in DOMAIN Daemons
<1> DEFINE x == Daemons[i].id
<1>1. \E d \in {Daemons[j] : j \in DOMAIN Daemons} : d.id = x
  OBVIOUS
<1>2. Of(x) \in {Daemons[j] : j \in DOMAIN Daemons} /\ Of(x).id = x
  BY <1>1 DEF Of
<1>3. PICK j \in DOMAIN Daemons : Of(x) = Daemons[j]
  BY <1>2
<1>4. Daemons[j].id = Daemons[i].id
  BY <1>2, <1>3
<1>5. i = j
  BY <1>4, RolloutAssumption DEF RolloutAssumption
<1> QED
  BY <1>3, <1>5

LEMMA IdIs == \A x \in Ids : \E i \in DOMAIN Daemons : Of(x) = Daemons[i] /\ x = Daemons[i].id
  BY OfIs DEF Ids

LEMMA DaemonType == \A i \in DOMAIN Daemons : Daemons[i] \in Daemon /\ Daemons[i].id \in Ids
<1>1. Daemons \in Seq(Daemon)
  BY RolloutAssumption DEF RolloutAssumption, Daemon
<1>2. \A i \in DOMAIN Daemons : Daemons[i] \in Daemon
  BY <1>1
<1> QED
  BY <1>2 DEF Ids

LEMMA IdType ==
    \A x \in Ids : /\ Of(x) \in Daemon /\ Of(x).id = x
                   /\ HostOf(x) \in DOMAIN HostFiles /\ KindOf(x) \in KindsPresent
                   /\ KindOf(x) \in Range(Kinds)
<1> TAKE x \in Ids
<1>1. PICK i \in DOMAIN Daemons : Of(x) = Daemons[i] /\ x = Daemons[i].id
  BY IdIs
<1>2. Of(x) \in Daemon
  BY <1>1, DaemonType
<1> QED
  BY <1>1, <1>2 DEF Daemon, HostOf, KindOf, KindsPresent

LEMMA BeforeType ==
    ASSUME NEW x
    PROVE  /\ \A e \in DOMAIN Before(x) : e \in Nat /\ e > 0 /\ e <= 6
           /\ \A e \in DOMAIN Before(x) : Before(x)[e] \in TaskNames \ {"json", "conf", "flush"}
  BY DEF Before, TaskNames

-----------------------------------------------------------------------------
(* The tasks of a play                                                       *)

LEMMA JoinAt ==
    ASSUME NEW s \in Seq(TaskSet), NEW t \in Seq(TaskSet), NEW i \in DOMAIN (s \o t)
    PROVE  \/ i \in DOMAIN s /\ (s \o t)[i] = s[i]
           \/ /\ i > Len(s) /\ i - Len(s) \in DOMAIN t
              /\ (s \o t)[i] = t[i - Len(s)]
  OBVIOUS

LEMMA LedJoin ==
    ASSUME NEW s \in Seq(TaskSet), NEW t \in Seq(TaskSet), Led(s), Led(t)
    PROVE  Led(s \o t)
<1> DEFINE r == s \o t
<1> SUFFICES ASSUME NEW f \in Flushes(r), NEW e \in DOMAIN Before(r[f].on)
             PROVE  f > e /\ r[f - e] = Task(Before(r[f].on)[e], r[f].on)
  BY DEF Led
<1>0. e \in Nat /\ e > 0
  BY BeforeType
<1>1. CASE f \in DOMAIN s /\ r[f] = s[f]
  <2>1. f > e /\ s[f - e] = Task(Before(r[f].on)[e], r[f].on)
    BY <1>1 DEF Led, Flushes
  <2>2. f - e \in 1 .. Len(s)
    BY <1>1, <2>1, <1>0
  <2>3. r[f - e] = s[f - e]
    BY <2>2, ConcatAt
  <2> QED
    BY <2>1, <2>3
<1>2. CASE f > Len(s) /\ f - Len(s) \in DOMAIN t /\ r[f] = t[f - Len(s)]
  <2> DEFINE g == f - Len(s)
  <2>1. g > e /\ t[g - e] = Task(Before(r[f].on)[e], r[f].on)
    BY <1>2 DEF Led, Flushes
  <2>2. g - e \in 1 .. Len(t) /\ Len(s) + (g - e) = f - e /\ f > e
    <3>1. g \in 1 .. Len(t) /\ Len(s) \in Nat /\ f \in Nat /\ f = Len(s) + g
      <4>1. f \in Nat /\ Len(s) \in Nat
        BY ConcatAt DEF Flushes
      <4> QED
        BY <1>2, <4>1
    <3> HIDE DEF g
    <3> QED
      BY <3>1, <2>1, <1>0
  <2>3. r[Len(s) + (g - e)] = t[g - e]
    BY <2>2, ConcatAt
  <2> QED
    BY <2>1, <2>2, <2>3
<1>3. f \in DOMAIN r
  BY DEF Flushes
<1> HIDE DEF r
<1> QED
  BY <1>1, <1>2, <1>3, JoinAt DEF r

LEMMA EnclosedJoin ==
    ASSUME NEW s \in Seq(TaskSet), NEW t \in Seq(TaskSet), Enclosed(s), Enclosed(t)
    PROVE  Enclosed(s \o t)
<1> DEFINE r == s \o t
<1> SUFFICES ASSUME NEW i \in DOMAIN r, r[i].task = "set"
             PROVE  i + 2 <= Len(r) /\ r[i + 1].task = "flush" /\ r[i + 2].task = "unset"
  BY DEF Enclosed
<1>0. Len(r) = Len(s) + Len(t) /\ Len(s) \in Nat /\ Len(t) \in Nat
  BY ConcatAt
<1>1. CASE i \in DOMAIN s /\ r[i] = s[i]
  <2>1. i + 2 <= Len(s) /\ s[i + 1].task = "flush" /\ s[i + 2].task = "unset"
    BY <1>1 DEF Enclosed
  <2>2. i + 1 \in 1 .. Len(s) /\ i + 2 \in 1 .. Len(s)
    BY <1>1, <2>1
  <2>3. r[i + 1] = s[i + 1] /\ r[i + 2] = s[i + 2]
    BY <2>2, ConcatAt
  <2> QED
    BY <1>0, <1>1, <2>1, <2>3
<1>2. CASE i > Len(s) /\ i - Len(s) \in DOMAIN t /\ r[i] = t[i - Len(s)]
  <2> DEFINE g == i - Len(s)
  <2>1. g + 2 <= Len(t) /\ t[g + 1].task = "flush" /\ t[g + 2].task = "unset"
    BY <1>2 DEF Enclosed
  <2>2. /\ g + 1 \in 1 .. Len(t) /\ g + 2 \in 1 .. Len(t)
        /\ Len(s) + (g + 1) = i + 1 /\ Len(s) + (g + 2) = i + 2
    BY <1>0, <1>2, <2>1
  <2>3. r[Len(s) + (g + 1)] = t[g + 1] /\ r[Len(s) + (g + 2)] = t[g + 2]
    <3>1. \A m \in 1 .. Len(t) : r[Len(s) + m] = t[m]
      BY ConcatAt
    <3> HIDE DEF r, g
    <3> QED
      BY <2>2, <3>1
  <2>4. r[i + 1] = t[g + 1] /\ r[i + 2] = t[g + 2]
    BY <2>2, <2>3
  <2> QED
    BY <1>0, <1>2, <2>1, <2>4
<1> HIDE DEF r
<1> QED
  BY <1>1, <1>2, JoinAt DEF r

(* A group of either part is a group of both.                                *)
LEMMA GroupLeft ==
    ASSUME NEW s \in Seq(TaskSet), NEW t \in Seq(TaskSet), NEW b, NEW f \in DOMAIN s, Group(s, b, f)
    PROVE  Group(s \o t, b, f)
<1>1. b \in 1 .. Len(s) /\ b + 1 < f /\ f \in 1 .. Len(s) /\ b + 1 \in 1 .. Len(s)
  BY DEF Group
<1>2. \A k \in b .. f : k \in 1 .. Len(s)
  BY <1>1
<1>3. \A k \in b .. f : (s \o t)[k] = s[k] /\ k \in DOMAIN (s \o t)
  BY <1>2, ConcatAt
<1>4. b \in b .. f /\ b + 1 \in b .. f /\ f \in b .. f /\ \A k \in b + 2 .. f : k \in b .. f
  BY <1>1
<1> QED
  BY <1>1, <1>3, <1>4 DEF Group

LEMMA GroupRight ==
    ASSUME NEW s \in Seq(TaskSet), NEW t \in Seq(TaskSet), NEW b, NEW f \in DOMAIN t, Group(t, b, f)
    PROVE  Group(s \o t, Len(s) + b, Len(s) + f)
<1> DEFINE n == Len(s)
<1>0. n \in Nat
  OBVIOUS
<1>1. b \in 1 .. Len(t) /\ b + 1 < f /\ f \in 1 .. Len(t) /\ b + 1 \in 1 .. Len(t)
  BY DEF Group
<1>2. \A k \in b .. f : k \in 1 .. Len(t)
  BY <1>1
<1>3. \A k \in b .. f : (s \o t)[n + k] = t[k] /\ n + k \in DOMAIN (s \o t)
  BY <1>2, ConcatAt
<1>4. b \in b .. f /\ b + 1 \in b .. f /\ f \in b .. f /\ \A k \in b + 2 .. f : k \in b .. f
  BY <1>1
<1>5. (n + b) + 1 = n + (b + 1) /\ (n + b) + 1 < n + f
  BY <1>0, <1>1
<1> HIDE DEF n
<1>6. ASSUME NEW k \in (n + b) + 2 .. n + f
      PROVE  (s \o t)[k].task \notin {"json", "conf"}
  <2>1. k - n \in b + 2 .. f /\ n + (k - n) = k
    BY <1>0, <1>1, <1>6
  <2> QED
    BY <2>1, <1>3, <1>4 DEF Group
<1>7. /\ n + b \in DOMAIN (s \o t)
      /\ (s \o t)[n + b] = t[b] /\ (s \o t)[(n + b) + 1] = t[b + 1] /\ (s \o t)[n + f] = t[f]
  BY <1>3, <1>4, <1>5
<1>8. /\ t[b].task = "json" /\ t[b + 1].task = "conf" /\ t[b + 1].on = t[b].on
      /\ SameGroup(t[b].on, t[f].on)
  BY DEF Group
<1>9. Group(s \o t, n + b, n + f)
  BY <1>5, <1>6, <1>7, <1>8 DEF Group
<1> QED
  BY <1>9 DEF n

LEMMA GroupedJoin ==
    ASSUME NEW s \in Seq(TaskSet), NEW t \in Seq(TaskSet), Grouped(s), Grouped(t)
    PROVE  Grouped(s \o t)
<1> DEFINE r == s \o t
           n == Len(s)
<1>0. n \in Nat /\ \A i \in DOMAIN s : i \in DOMAIN r /\ r[i] = s[i]
  BY ConcatAt
<1>00. \A i \in DOMAIN t : n + i \in DOMAIN r /\ r[n + i] = t[i]
  BY ConcatAt
<1>01. \A i \in DOMAIN r : \/ i \in DOMAIN s /\ r[i] = s[i]
                           \/ i > n /\ i - n \in DOMAIN t /\ r[i] = t[i - n]
  BY JoinAt
<1>02. \A i \in DOMAIN r : i \in Nat
  OBVIOUS
<1>03. \A i \in DOMAIN t : i \in Nat
  OBVIOUS
<1>04. /\ \A b \in DOMAIN s : \A f \in DOMAIN s : Group(s, b, f) => Group(r, b, f)
       /\ \A b \in DOMAIN t : \A f \in DOMAIN t : Group(t, b, f) => Group(r, n + b, n + f)
  BY GroupLeft, GroupRight
<1> HIDE DEF r, n
<1>1. ASSUME NEW f \in Flushes(r) PROVE \E b \in DOMAIN r : Group(r, b, f)
  <2>1. CASE f \in DOMAIN s /\ r[f] = s[f]
    <3>1. PICK b \in DOMAIN s : Group(s, b, f)
      BY <1>1, <2>1 DEF Grouped, Flushes
    <3> QED
      BY <3>1, <2>1, <1>0, <1>04
  <2>2. CASE f > n /\ f - n \in DOMAIN t /\ r[f] = t[f - n]
    <3>1. f - n \in Flushes(t)
      BY <1>1, <2>2 DEF Flushes
    <3>2. PICK b \in DOMAIN t : Group(t, b, f - n)
      BY <3>1 DEF Grouped
    <3>3. n + (f - n) = f
      BY <1>0, <1>02, <1>1 DEF Flushes
    <3> QED
      BY <3>2, <3>3, <2>2, <1>00, <1>04
  <2> QED
    BY <2>1, <2>2, <1>01 DEF Flushes
<1>2. ASSUME NEW b \in DOMAIN r, r[b].task = "json", NEW x \in Ids, SameGroup(r[b].on, x)
      PROVE  \E f \in Flushes(r) : r[f].on = x /\ Group(r, b, f)
  <2>1. CASE b \in DOMAIN s /\ r[b] = s[b]
    <3>1. PICK f \in Flushes(s) : s[f].on = x /\ Group(s, b, f)
      BY <1>2, <2>1 DEF Grouped
    <3>2. f \in Flushes(r) /\ r[f].on = x
      BY <3>1, <1>0 DEF Flushes
    <3> QED
      BY <3>1, <3>2, <2>1, <1>04 DEF Flushes
  <2>2. CASE b > n /\ b - n \in DOMAIN t /\ r[b] = t[b - n]
    <3>1. PICK f \in Flushes(t) : t[f].on = x /\ Group(t, b - n, f)
      BY <1>2, <2>2 DEF Grouped
    <3>2. n + f \in Flushes(r) /\ r[n + f].on = x
      BY <3>1, <1>00 DEF Flushes
    <3>3. n + (b - n) = b
      BY <1>0, <1>02, <1>2
    <3>4. Group(r, n + (b - n), n + f)
      BY <3>1, <2>2, <1>04 DEF Flushes
    <3> QED
      BY <3>2, <3>3, <3>4
  <2> QED
    BY <2>1, <2>2, <1>01
<1>3. ASSUME NEW c \in DOMAIN r, r[c].task = "conf"
      PROVE  c > 1 /\ r[c - 1] = Task("json", r[c].on)
  <2>1. CASE c \in DOMAIN s /\ r[c] = s[c]
    <3>1. c > 1 /\ s[c - 1] = Task("json", s[c].on)
      BY <1>3, <2>1 DEF Grouped
    <3>2. c - 1 \in DOMAIN s
      BY <2>1, <3>1
    <3> QED
      BY <3>1, <3>2, <1>0, <2>1
  <2>2. CASE c > n /\ c - n \in DOMAIN t /\ r[c] = t[c - n]
    <3>1. c - n > 1 /\ t[(c - n) - 1] = Task("json", r[c].on)
      BY <1>3, <2>2 DEF Grouped
    <3>2. (c - n) - 1 \in DOMAIN t
      BY <2>2, <3>1
    <3>3. n + ((c - n) - 1) = c - 1 /\ c > 1
      <4>1. c \in Nat
        BY <1>02, <1>3
      <4>2. n \in Nat
        BY <1>0
      <4>3. c - n > 1
        BY <3>1
      <4>4. c > 1
        BY <4>1, <4>2, <4>3
      <4>5. n + ((c - n) - 1) = c - 1
        BY <4>1, <4>2
      <4> QED
        BY <4>4, <4>5
    <3>4. r[n + ((c - n) - 1)] = t[(c - n) - 1]
      BY <3>2, <1>00
    <3> QED
      BY <3>1, <3>3, <3>4
  <2> QED
    BY <2>1, <2>2, <1>01
<1>4. Grouped(r)
  BY <1>1, <1>2, <1>3 DEF Grouped
<1> QED
  BY <1>4 DEF r

LEMMA ProperJoin == <<>> \in Proper /\ \A s, t \in Proper : s \o t \in Proper
<1>1. <<>> \in Proper
  BY DEF Proper, Led, Enclosed, Grouped, Flushes
<1>2. ASSUME NEW s \in Proper, NEW t \in Proper PROVE s \o t \in Proper
  <2>1. /\ s \in Seq(TaskSet) /\ Led(s) /\ Enclosed(s) /\ Grouped(s)
        /\ t \in Seq(TaskSet) /\ Led(t) /\ Enclosed(t) /\ Grouped(t)
    BY DEF Proper
  <2>2. s \o t \in Seq(TaskSet)
    BY <2>1
  <2> QED
    BY <2>1, <2>2, LedJoin, EnclosedJoin, GroupedJoin DEF Proper
<1> QED
  BY <1>1, <1>2

(* What the tasks of start.yml after json and conf are.                       *)
Parts(h, k) ==
    {s \in Seq(TaskSet) : /\ Led(s) /\ Enclosed(s)
                          /\ \A i \in DOMAIN s : /\ s[i].task \notin {"json", "conf"}
                                                 /\ HostOf(s[i].on) = h /\ KindOf(s[i].on) = k}

LEMMA PartsJoin ==
    ASSUME NEW h, NEW k
    PROVE  <<>> \in Parts(h, k) /\ \A s, t \in Parts(h, k) : s \o t \in Parts(h, k)
<1>1. <<>> \in Parts(h, k)
  BY DEF Parts, Led, Enclosed, Flushes
<1>2. ASSUME NEW s \in Parts(h, k), NEW t \in Parts(h, k) PROVE s \o t \in Parts(h, k)
  <2>1. /\ s \in Seq(TaskSet) /\ Led(s) /\ Enclosed(s)
        /\ t \in Seq(TaskSet) /\ Led(t) /\ Enclosed(t)
    BY DEF Parts
  <2>2. s \o t \in Seq(TaskSet)
    BY <2>1
  <2>3. ASSUME NEW i \in DOMAIN (s \o t)
        PROVE  /\ (s \o t)[i].task \notin {"json", "conf"}
               /\ HostOf((s \o t)[i].on) = h /\ KindOf((s \o t)[i].on) = k
    <3>1. \/ i \in DOMAIN s /\ (s \o t)[i] = s[i]
          \/ i - Len(s) \in DOMAIN t /\ (s \o t)[i] = t[i - Len(s)]
      BY <2>1, JoinAt
    <3> QED
      BY <3>1 DEF Parts
  <2> QED
    BY <2>1, <2>2, <2>3, LedJoin, EnclosedJoin DEF Parts
<1> QED
  BY <1>1, <1>2

LEMMA TasksAre ==
    ASSUME NEW names \in Seq(TaskNames), NEW i \in DOMAIN Daemons
    PROVE  LET s == Tasks(names, Daemons[i]) IN
           /\ s \in Seq(TaskSet) /\ DOMAIN s = DOMAIN names /\ Len(s) = Len(names)
           /\ \A j \in DOMAIN names : s[j] = Task(names[j], Daemons[i].id)
<1> DEFINE x == Daemons[i].id
<1>1. x \in Ids
  BY DaemonType
<1> HIDE DEF x
<1>2. DOMAIN names = 1 .. Len(names) /\ Len(names) \in Nat
  OBVIOUS
<1>3. \A j \in DOMAIN names : Task(names[j], x) \in TaskSet
  BY <1>1 DEF Task, TaskSet
<1>4. Tasks(names, Daemons[i]) = [j \in 1 .. Len(names) |-> Task(names[j], x)]
  BY <1>2 DEF Tasks, Task, x
<1> QED
  BY <1>2, <1>3, <1>4 DEF x

(* The tasks of one daemon end in the flush its block leads to.               *)
LEMMA OsdTasksAre ==
    ASSUME NEW i \in DOMAIN Daemons, Daemons[i].kind = "ceph-osd"
    PROVE  LET s == OsdTasks(Daemons[i]) IN
           /\ s \in Parts(Daemons[i].host, "ceph-osd")
           /\ \E f \in Flushes(s) : s[f].on = Daemons[i].id
<1> DEFINE d == Daemons[i]
           x == d.id
           s == OsdTasks(d)
<1>1. Of(x) = d /\ x \in Ids /\ Osd(x) /\ HostOf(x) = d.host /\ KindOf(x) = "ceph-osd"
  BY OfIs, DaemonType DEF Osd, HostOf, KindOf
<1>2. CASE d.lvm
  <2> DEFINE names == <<"health", "look", "probe", "unset", "health", "set", "flush", "unset">>
  <2>1. names \in Seq(TaskNames) /\ Len(names) = 8
    BY DEF TaskNames
  <2>2. s = Tasks(names, d)
    BY <1>2 DEF OsdTasks
  <2>3. s \in Seq(TaskSet) /\ DOMAIN s = 1 .. 8 /\ Len(s) = 8 /\ \A j \in 1 .. 8 : s[j] = Task(names[j], x)
    <3>1. DOMAIN names = 1 .. Len(names)
      BY <2>1
    <3> HIDE DEF names
    <3> QED
      BY <2>1, <2>2, <3>1, TasksAre
  <2>4. /\ s[1] = Task("health", x) /\ s[2] = Task("look", x) /\ s[3] = Task("probe", x)
        /\ s[4] = Task("unset", x) /\ s[5] = Task("health", x) /\ s[6] = Task("set", x)
        /\ s[7] = Task("flush", x) /\ s[8] = Task("unset", x)
    BY <2>3
  <2>5. Before(x) = <<"set", "health", "unset", "probe", "look", "health">>
    BY <1>1, <1>2 DEF Before
  <2> HIDE DEF s, x, d
  <2>6. Flushes(s) = {7} /\ s[7].on = x
    BY <2>3, <2>4 DEF Flushes, Task
  <2>7. Led(s)
    <3>1. \A e \in 1 .. 6 : 7 > e /\ s[7 - e] = Task(Before(x)[e], x)
      BY <2>4, <2>5
    <3> QED
      BY <2>5, <2>6, <3>1 DEF Led
  <2>8. Enclosed(s)
    BY <2>3, <2>4 DEF Enclosed, Task
  <2>9. \A j \in DOMAIN s : s[j].task \notin {"json", "conf"} /\ s[j].on = x
    BY <2>3, <2>4 DEF Task
  <2> QED
    BY <1>1, <2>3, <2>6, <2>7, <2>8, <2>9 DEF Parts, s, x, d
<1>3. CASE ~d.lvm
  <2> DEFINE names == <<"health", "look", "probe", "unset", "set", "flush", "unset">>
  <2>1. names \in Seq(TaskNames) /\ Len(names) = 7
    BY DEF TaskNames
  <2>2. s = Tasks(names, d)
    BY <1>3 DEF OsdTasks
  <2>3. s \in Seq(TaskSet) /\ DOMAIN s = 1 .. 7 /\ Len(s) = 7 /\ \A j \in 1 .. 7 : s[j] = Task(names[j], x)
    <3>1. DOMAIN names = 1 .. Len(names)
      BY <2>1
    <3> HIDE DEF names
    <3> QED
      BY <2>1, <2>2, <3>1, TasksAre
  <2>4. /\ s[1] = Task("health", x) /\ s[2] = Task("look", x) /\ s[3] = Task("probe", x)
        /\ s[4] = Task("unset", x) /\ s[5] = Task("set", x)
        /\ s[6] = Task("flush", x) /\ s[7] = Task("unset", x)
    BY <2>3
  <2>5. Before(x) = <<"set", "unset", "probe", "look", "health">>
    BY <1>1, <1>3 DEF Before
  <2> HIDE DEF s, x, d
  <2>6. Flushes(s) = {6} /\ s[6].on = x
    BY <2>3, <2>4 DEF Flushes, Task
  <2>7. Led(s)
    <3>1. \A e \in 1 .. 5 : 6 > e /\ s[6 - e] = Task(Before(x)[e], x)
      BY <2>4, <2>5
    <3> QED
      BY <2>5, <2>6, <3>1 DEF Led
  <2>8. Enclosed(s)
    BY <2>3, <2>4 DEF Enclosed, Task
  <2>9. \A j \in DOMAIN s : s[j].task \notin {"json", "conf"} /\ s[j].on = x
    BY <2>3, <2>4 DEF Task
  <2> QED
    BY <1>1, <2>3, <2>6, <2>7, <2>8, <2>9 DEF Parts, s, x, d
<1> QED
  BY <1>2, <1>3

LEMMA OtherTasksAre ==
    ASSUME NEW i \in DOMAIN Daemons, Daemons[i].kind # "ceph-osd"
    PROVE  LET s == IF Daemons[i].kind = "ceph-mds" THEN Tasks(<<"look", "flush">>, Daemons[i])
                    ELSE Tasks(<<"look", "health", "flush">>, Daemons[i]) IN
           /\ s \in Parts(Daemons[i].host, Daemons[i].kind)
           /\ \E f \in Flushes(s) : s[f].on = Daemons[i].id
<1> DEFINE d == Daemons[i]
           x == d.id
<1>1. Of(x) = d /\ x \in Ids /\ ~Osd(x) /\ HostOf(x) = d.host /\ KindOf(x) = d.kind
  BY OfIs, DaemonType DEF Osd, HostOf, KindOf
<1>2. CASE d.kind = "ceph-mds"
  <2> DEFINE names == <<"look", "flush">>
             s == Tasks(names, d)
  <2>1. names \in Seq(TaskNames) /\ Len(names) = 2
    BY DEF TaskNames
  <2>3. s \in Seq(TaskSet) /\ DOMAIN s = 1 .. 2 /\ Len(s) = 2 /\ \A j \in 1 .. 2 : s[j] = Task(names[j], x)
    <3>1. DOMAIN names = 1 .. Len(names)
      BY <2>1
    <3> HIDE DEF names
    <3> QED
      BY <2>1, <3>1, TasksAre
  <2>4. s[1] = Task("look", x) /\ s[2] = Task("flush", x)
    BY <2>3
  <2>5. Before(x) = <<"look">>
    BY <1>1, <1>2 DEF Before, Mds, KindOf
  <2> HIDE DEF s, x, d
  <2>6. Flushes(s) = {2} /\ s[2].on = x
    BY <2>3, <2>4 DEF Flushes, Task
  <2>7. Led(s)
    <3>1. \A e \in 1 .. 1 : 2 > e /\ s[2 - e] = Task(Before(x)[e], x)
      BY <2>4, <2>5
    <3> QED
      BY <2>5, <2>6, <3>1 DEF Led
  <2>8. Enclosed(s)
    BY <2>3, <2>4 DEF Enclosed, Task
  <2>9. \A j \in DOMAIN s : s[j].task \notin {"json", "conf"} /\ s[j].on = x
    BY <2>3, <2>4 DEF Task
  <2> QED
    BY <1>1, <1>2, <2>3, <2>6, <2>7, <2>8, <2>9 DEF Parts, s, x, d
<1>3. CASE d.kind # "ceph-mds"
  <2> DEFINE names == <<"look", "health", "flush">>
             s == Tasks(names, d)
  <2>1. names \in Seq(TaskNames) /\ Len(names) = 3
    BY DEF TaskNames
  <2>3. s \in Seq(TaskSet) /\ DOMAIN s = 1 .. 3 /\ Len(s) = 3 /\ \A j \in 1 .. 3 : s[j] = Task(names[j], x)
    <3>1. DOMAIN names = 1 .. Len(names)
      BY <2>1
    <3> HIDE DEF names
    <3> QED
      BY <2>1, <3>1, TasksAre
  <2>4. s[1] = Task("look", x) /\ s[2] = Task("health", x) /\ s[3] = Task("flush", x)
    BY <2>3
  <2>5. Before(x) = <<"health", "look">>
    BY <1>1, <1>3 DEF Before, Mds, KindOf
  <2> HIDE DEF s, x, d
  <2>6. Flushes(s) = {3} /\ s[3].on = x
    BY <2>3, <2>4 DEF Flushes, Task
  <2>7. Led(s)
    <3>1. \A e \in 1 .. 2 : 3 > e /\ s[3 - e] = Task(Before(x)[e], x)
      BY <2>4, <2>5
    <3> QED
      BY <2>5, <2>6, <3>1 DEF Led
  <2>8. Enclosed(s)
    BY <2>3, <2>4 DEF Enclosed, Task
  <2>9. \A j \in DOMAIN s : s[j].task \notin {"json", "conf"} /\ s[j].on = x
    BY <2>3, <2>4 DEF Task
  <2> QED
    BY <1>1, <1>3, <2>3, <2>6, <2>7, <2>8, <2>9 DEF Parts, s, x, d
<1> QED
  BY <1>2, <1>3

LEMMA DaemonsOfAre ==
    ASSUME NEW h, NEW k
    PROVE  LET ds == DaemonsOf(h, k) IN
           /\ ds \in Seq({d \in Range(Daemons) : d.host = h /\ d.kind = k})
           /\ \A i \in DOMAIN Daemons : Daemons[i].host = h /\ Daemons[i].kind = k =>
                 \E j \in DOMAIN ds : ds[j] = Daemons[i]
<1> DEFINE D == {d \in Range(Daemons) : d.host = h /\ d.kind = k}
           one(i) == IF Daemons[i].host = h /\ Daemons[i].kind = k THEN <<Daemons[i]>> ELSE <<>>
           ss == [i \in DOMAIN Daemons |-> one(i)]
<1>1. DaemonsOf(h, k) = FlattenSeq(ss)
  BY DEF DaemonsOf
<1>2. DOMAIN Daemons = 1 .. Len(Daemons) /\ Len(Daemons) \in Nat
  BY RolloutAssumption DEF RolloutAssumption
<1>3. \A i \in DOMAIN Daemons : one(i) \in Seq(D)
  <2> TAKE i \in DOMAIN Daemons
  <2>1. CASE Daemons[i].host = h /\ Daemons[i].kind = k
    <3>1. Daemons[i] \in D
      BY <2>1 DEF Range
    <3>2. one(i) = <<Daemons[i]>>
      BY <2>1
    <3> HIDE DEF D, one
    <3> QED
      BY <3>1, <3>2
  <2>2. CASE ~(Daemons[i].host = h /\ Daemons[i].kind = k)
    BY <2>2
  <2> QED
    BY <2>1, <2>2
<1>4. ss \in Seq(Seq(D))
  <2> HIDE DEF one, D
  <2> QED
    BY <1>2, <1>3
<1>5. FlattenSeq(ss) \in Seq(D)
  <2>1. <<>> \in Seq(D) /\ \A s, t \in Seq(D) : s \o t \in Seq(D)
    OBVIOUS
  <2> HIDE DEF ss, D
  <2> QED
    BY <2>1, <1>4, FlattenIn
<1>6. ASSUME NEW i \in DOMAIN Daemons, Daemons[i].host = h, Daemons[i].kind = k
      PROVE  \E j \in DOMAIN FlattenSeq(ss) : FlattenSeq(ss)[j] = Daemons[i]
  <2>1. ss[i] = <<Daemons[i]>> /\ i \in DOMAIN ss
    BY <1>6
  <2>2. 1 \in DOMAIN ss[i] /\ ss[i][1] = Daemons[i]
    BY <2>1
  <2> HIDE DEF ss, D
  <2> QED
    BY <2>1, <2>2, <1>4, FlattenHas
<1> QED
  BY <1>1, <1>5, <1>6

(* The flushes of all the daemons of a group, after its two files.             *)
AllOf(s, h, k) ==
    \A x \in Ids : HostOf(x) = h /\ KindOf(x) = k => \E f \in Flushes(s) : s[f].on = x

LEMMA PartsAt ==
    ASSUME NEW s \in Seq(TaskSet), NEW t \in Seq(TaskSet)
    PROVE  /\ \A i \in DOMAIN s : i \in DOMAIN (s \o t) /\ (s \o t)[i] = s[i]
           /\ \A i \in DOMAIN t : Len(s) + i \in DOMAIN (s \o t) /\ (s \o t)[Len(s) + i] = t[i]
<1>1. \A i \in DOMAIN s : i \in DOMAIN (s \o t) /\ (s \o t)[i] = s[i]
  BY ConcatAt
<1>2. \A i \in DOMAIN t : Len(s) + i \in DOMAIN (s \o t) /\ (s \o t)[Len(s) + i] = t[i]
  BY ConcatAt
<1> QED
  BY <1>1, <1>2

LEMMA FilesFirst ==
    ASSUME NEW i \in DOMAIN Daemons, NEW body \in Parts(Daemons[i].host, Daemons[i].kind),
           AllOf(body, Daemons[i].host, Daemons[i].kind)
    PROVE  LET r == Tasks(<<"json", "conf">>, Daemons[i]) \o body IN
           r \in Proper /\ AllOf(r, Daemons[i].host, Daemons[i].kind)
<1> DEFINE d == Daemons[i]
           x == d.id
           names == <<"json", "conf">>
           s == Tasks(names, d)
           r == s \o body
<1>1. HostOf(x) = d.host /\ KindOf(x) = d.kind /\ x \in Ids
  BY OfIs, DaemonType DEF HostOf, KindOf
<1>2. s \in Seq(TaskSet) /\ DOMAIN s = 1 .. 2 /\ Len(s) = 2 /\ \A j \in 1 .. 2 : s[j] = Task(names[j], x)
  <2>1. names \in Seq(TaskNames) /\ DOMAIN names = 1 .. 2 /\ Len(names) = 2
    BY DEF TaskNames
  <2> HIDE DEF names
  <2> QED
    BY <2>1, TasksAre
<1>3. s[1] = Task("json", x) /\ s[2] = Task("conf", x)
  BY <1>2
<1>4. /\ body \in Seq(TaskSet) /\ Led(body) /\ Enclosed(body)
      /\ \A j \in DOMAIN body : /\ body[j].task \notin {"json", "conf"}
                                /\ HostOf(body[j].on) = d.host /\ KindOf(body[j].on) = d.kind
  BY DEF Parts
<1> HIDE DEF s
<1>5. Led(s) /\ Enclosed(s)
  BY <1>2, <1>3 DEF Led, Enclosed, Flushes, Task
<1>6. Led(r) /\ Enclosed(r) /\ r \in Seq(TaskSet)
  BY <1>2, <1>4, <1>5, LedJoin, EnclosedJoin
<1>7. /\ 1 \in DOMAIN r /\ r[1] = Task("json", x) /\ 2 \in DOMAIN r /\ r[2] = Task("conf", x)
      /\ \A j \in DOMAIN body : 2 + j \in DOMAIN r /\ r[2 + j] = body[j]
  <2>1. s \in Seq(TaskSet) /\ body \in Seq(TaskSet)
    BY <1>2, <1>4
  <2>2. \A j \in DOMAIN s : j \in DOMAIN r /\ r[j] = s[j]
    BY <2>1, PartsAt
  <2>3. \A j \in DOMAIN body : Len(s) + j \in DOMAIN r /\ r[Len(s) + j] = body[j]
    BY <2>1, PartsAt
  <2> HIDE DEF r
  <2> QED
    BY <2>2, <2>3, <1>2, <1>3
<1>8. \A j \in DOMAIN r : j \in Nat /\ (j \in {1, 2} \/ (j > 2 /\ j - 2 \in DOMAIN body /\ r[j] = body[j - 2]))
  <2> TAKE j \in DOMAIN r
  <2>1. \/ j \in DOMAIN s /\ r[j] = s[j]
        \/ j > Len(s) /\ j - Len(s) \in DOMAIN body /\ r[j] = body[j - Len(s)]
    BY <1>2, <1>4, JoinAt
  <2>2. j \in Nat
    BY <1>6
  <2> HIDE DEF r
  <2> QED
    BY <2>1, <2>2, <1>2
<1> HIDE DEF r
<1>9. \A j \in DOMAIN r : j > 2 => /\ r[j].task \notin {"json", "conf"}
                                   /\ HostOf(r[j].on) = d.host /\ KindOf(r[j].on) = d.kind
  BY <1>4, <1>8
<1>10. \A f \in Flushes(r) : f > 2 /\ f \in DOMAIN r /\ f \in Nat
  BY <1>7, <1>8 DEF Flushes, Task
<1>11. \A f \in Flushes(r) : Group(r, 1, f)
  <2> TAKE f \in Flushes(r)
  <2>1. \A k \in 3 .. f : k \in DOMAIN r /\ k > 2
    BY <1>10, <1>6, <1>7
  <2>2. \A k \in 1 + 2 .. f : r[k].task \notin {"json", "conf"}
    BY <2>1, <1>9
  <2>3. HostOf(r[f].on) = d.host /\ KindOf(r[f].on) = d.kind
    BY <1>9, <1>10
  <2>4. SameGroup(r[1].on, r[f].on)
    BY <2>3, <1>7, <1>1 DEF SameGroup, Task
  <2> QED
    BY <2>2, <2>4, <1>7, <1>10 DEF Group, Task
<1>12. AllOf(r, d.host, d.kind)
  <2> SUFFICES ASSUME NEW y \in Ids, HostOf(y) = d.host, KindOf(y) = d.kind
               PROVE  \E f \in Flushes(r) : r[f].on = y
    BY DEF AllOf
  <2>1. PICK f \in Flushes(body) : body[f].on = y
    BY DEF AllOf
  <2>2. 2 + f \in Flushes(r) /\ r[2 + f].on = y
    BY <2>1, <1>7 DEF Flushes
  <2> QED
    BY <2>2
<1>13. ASSUME NEW b \in DOMAIN r, r[b].task = "json", NEW y \in Ids, SameGroup(r[b].on, y)
       PROVE  \E f \in Flushes(r) : r[f].on = y /\ Group(r, b, f)
  <2>1. b = 1
    BY <1>13, <1>7, <1>8, <1>9 DEF Task
  <2>2. HostOf(y) = d.host /\ KindOf(y) = d.kind
    BY <1>13, <2>1, <1>7, <1>1 DEF SameGroup, Task
  <2>3. PICK f \in Flushes(r) : r[f].on = y
    BY <2>2, <1>12 DEF AllOf
  <2> QED
    BY <2>1, <2>3, <1>11
<1>14. \A c \in DOMAIN r : r[c].task = "conf" => c > 1 /\ r[c - 1] = Task("json", r[c].on)
  <2> SUFFICES ASSUME NEW c \in DOMAIN r, r[c].task = "conf"
               PROVE  c > 1 /\ r[c - 1] = Task("json", r[c].on)
    OBVIOUS
  <2>1. c = 2
    BY <1>7, <1>8, <1>9 DEF Task
  <2>2. c - 1 = 1 /\ r[2].on = x
    BY <2>1, <1>7 DEF Task
  <2> QED
    BY <2>1, <2>2, <1>7
<1>15. Grouped(r)
  BY <1>7, <1>11, <1>13, <1>14 DEF Grouped
<1> QED
  BY <1>6, <1>12, <1>15 DEF Proper, r, s

LEMMA KindTasksAre ==
    ASSUME NEW h, NEW k
    PROVE  LET s == KindTasks(DaemonsOf(h, k)) IN s \in Proper /\ AllOf(s, h, k)
<1> DEFINE ds == DaemonsOf(h, k)
           D == {d \in Range(Daemons) : d.host = h /\ d.kind = k}
<1>1. /\ ds \in Seq(D)
      /\ \A i \in DOMAIN Daemons : Daemons[i].host = h /\ Daemons[i].kind = k =>
             \E j \in DOMAIN ds : ds[j] = Daemons[i]
  BY DaemonsOfAre
<1> HIDE DEF ds
<1>2. \A x \in Ids : HostOf(x) = h /\ KindOf(x) = k =>
         \E i \in DOMAIN Daemons : /\ x = Daemons[i].id /\ Daemons[i].host = h /\ Daemons[i].kind = k
                                   /\ \E j \in DOMAIN ds : ds[j] = Daemons[i]
  BY <1>1, IdIs DEF HostOf, KindOf
<1>3. CASE ds = <<>>
  <2>1. KindTasks(ds) = <<>>
    BY <1>3 DEF KindTasks
  <2>2. \A x \in Ids : ~(HostOf(x) = h /\ KindOf(x) = k)
    BY <1>2, <1>3
  <2> QED
    BY <2>1, <2>2, ProperJoin DEF ds, AllOf
<1>4. CASE ds # <<>>
  <2>1. 1 \in DOMAIN ds /\ \A j \in DOMAIN ds : ds[j] \in D
    BY <1>1, <1>4, EmptySeq
  <2>2. PICK i \in DOMAIN Daemons : ds[1] = Daemons[i]
    BY <2>1 DEF Range
  <2>3. Daemons[i].host = h /\ Daemons[i].kind = k
    BY <2>1, <2>2
  <2>4. CASE k = "ceph-osd"
    <3> DEFINE ss == [j \in DOMAIN ds |-> OsdTasks(ds[j])]
    <3>1. KindTasks(ds) = Tasks(<<"json", "conf">>, Daemons[i]) \o FlattenSeq(ss)
      BY <1>4, <2>2, <2>3, <2>4 DEF KindTasks
    <3>2. \A j \in DOMAIN ds : /\ OsdTasks(ds[j]) \in Parts(h, k)
                               /\ \E f \in Flushes(OsdTasks(ds[j])) : OsdTasks(ds[j])[f].on = ds[j].id
      <4> TAKE j \in DOMAIN ds
      <4>1. PICK l \in DOMAIN Daemons : ds[j] = Daemons[l]
        BY <2>1 DEF Range
      <4>2. Daemons[l].host = h /\ Daemons[l].kind = "ceph-osd"
        BY <2>1, <4>1, <2>4
      <4> QED
        BY <4>1, <4>2, <2>4, OsdTasksAre
    <3>3. ss \in Seq(Parts(h, k))
      <4>1. DOMAIN ds = 1 .. Len(ds) /\ Len(ds) \in Nat
        BY <1>1
      <4> QED
        BY <3>2, <4>1
    <3>4. FlattenSeq(ss) \in Parts(h, k)
      <4> HIDE DEF ss
      <4> QED
        BY <3>3, PartsJoin, FlattenIn
    <3>5. ss \in Seq(Seq(TaskSet))
      BY <3>3 DEF Parts
    <3>6. AllOf(FlattenSeq(ss), h, k)
      <4> SUFFICES ASSUME NEW x \in Ids, HostOf(x) = h, KindOf(x) = k
                   PROVE  \E f \in Flushes(FlattenSeq(ss)) : FlattenSeq(ss)[f].on = x
        BY DEF AllOf
      <4>1. PICK j \in DOMAIN ds : ds[j].id = x
        BY <1>2
      <4>2. PICK f \in Flushes(OsdTasks(ds[j])) : OsdTasks(ds[j])[f].on = x
        BY <3>2, <4>1
      <4>3. j \in DOMAIN ss /\ ss[j] = OsdTasks(ds[j])
        OBVIOUS
      <4>4. f \in DOMAIN ss[j] /\ ss[j][f].on = x /\ ss[j][f].task = "flush"
        BY <4>2, <4>3 DEF Flushes
      <4> HIDE DEF ss
      <4>5. PICK g \in DOMAIN FlattenSeq(ss) : FlattenSeq(ss)[g] = ss[j][f]
        BY <3>5, <4>3, <4>4, FlattenHas
      <4> QED
        BY <4>4, <4>5 DEF Flushes
    <3> HIDE DEF ss
    <3> QED
      BY <2>3, <3>1, <3>4, <3>6, FilesFirst DEF ds
  <2>5. CASE k # "ceph-osd"
    <3> DEFINE body == IF Daemons[i].kind = "ceph-mds" THEN Tasks(<<"look", "flush">>, Daemons[i])
                       ELSE Tasks(<<"look", "health", "flush">>, Daemons[i])
    <3>1. KindTasks(ds) = Tasks(<<"json", "conf">>, Daemons[i]) \o body
      BY <1>4, <2>2, <2>3, <2>5 DEF KindTasks
    <3>2. body \in Parts(h, k) /\ \E f \in Flushes(body) : body[f].on = Daemons[i].id
      BY <2>3, <2>5, OtherTasksAre
    <3>3. \A x \in Ids : HostOf(x) = h /\ KindOf(x) = k => x = Daemons[i].id
      <4> SUFFICES ASSUME NEW x \in Ids, HostOf(x) = h, KindOf(x) = k PROVE x = Daemons[i].id
        OBVIOUS
      <4>1. PICK l \in DOMAIN Daemons : x = Daemons[l].id /\ Daemons[l].host = h /\ Daemons[l].kind = k
        BY <1>2
      <4>2. l = i
        BY <4>1, <2>3, <2>5, RolloutAssumption DEF RolloutAssumption
      <4> QED
        BY <4>1, <4>2
    <3> HIDE DEF body
    <3>4. AllOf(body, h, k)
      BY <3>2, <3>3 DEF AllOf
    <3> QED
      BY <2>3, <3>1, <3>2, <3>4, FilesFirst DEF ds
  <2> QED
    BY <2>4, <2>5
<1> QED
  BY <1>3, <1>4

(* A play does what it must for every daemon of its kinds.                     *)
LEMMA PlayTasksAre ==
    ASSUME NEW kinds \in SUBSET KindsPresent
    PROVE  /\ PlayTasks[kinds] \in Proper
           /\ \A x \in Ids : KindOf(x) \in kinds =>
                 \E f \in Flushes(PlayTasks[kinds]) : PlayTasks[kinds][f].on = x
<1> DEFINE part(h, j) == IF Kinds[j] \in kinds THEN KindTasks(DaemonsOf(h, Kinds[j])) ELSE <<>>
           ks(h) == [j \in DOMAIN Kinds |-> part(h, j)]
           hs == [i \in DOMAIN Hosts |-> FlattenSeq(ks(Hosts[i]))]
<1>1. PlayTasks[kinds] = FlattenSeq(hs)
  BY DEF PlayTasks, HostTasks
<1>2. DOMAIN Kinds = 1 .. 5 /\ Kinds \in Seq(Range(Kinds))
  BY DEF Kinds, Range
<1>3. DOMAIN Hosts = 1 .. Len(Hosts) /\ Len(Hosts) \in Nat
  BY RolloutAssumption DEF RolloutAssumption
<1>4. \A h : \A j \in DOMAIN Kinds : part(h, j) \in Proper
  BY KindTasksAre, ProperJoin
<1>5. ASSUME NEW h PROVE ks(h) \in Seq(Proper) /\ FlattenSeq(ks(h)) \in Proper
  <2>1. ks(h) \in Seq(Proper)
    <3> HIDE DEF part
    <3> QED
      BY <1>2, <1>4
  <2> HIDE DEF ks
  <2> QED
    BY <2>1, ProperJoin, FlattenIn
<1>6. hs \in Seq(Proper)
  <2> HIDE DEF ks
  <2> QED
    BY <1>3, <1>5
<1>7. FlattenSeq(hs) \in Proper
  <2> HIDE DEF hs
  <2> QED
    BY <1>6, ProperJoin, FlattenIn
<1>8. Proper \subseteq Seq(TaskSet)
  BY DEF Proper
<1>9. ASSUME NEW x \in Ids, KindOf(x) \in kinds
      PROVE  \E f \in Flushes(FlattenSeq(hs)) : FlattenSeq(hs)[f].on = x
  <2> DEFINE h == HostOf(x)
  <2>1. PICK i \in DOMAIN Hosts : Hosts[i] = h
    BY IdType, RolloutAssumption DEF RolloutAssumption
  <2>2. PICK j \in DOMAIN Kinds : Kinds[j] = KindOf(x)
    BY IdType DEF Range
  <2>3. PICK f \in Flushes(part(h, j)) : part(h, j)[f].on = x
    BY <1>9, <2>2, KindTasksAre DEF AllOf
  <2>4. j \in DOMAIN ks(h) /\ ks(h)[j] = part(h, j)
    BY <2>2
  <2>5. f \in DOMAIN ks(h)[j] /\ ks(h)[j][f].on = x /\ ks(h)[j][f].task = "flush"
    BY <2>3, <2>4 DEF Flushes
  <2>6. ks(h) \in Seq(Seq(TaskSet)) /\ hs \in Seq(Seq(TaskSet))
    <3> HIDE DEF ks, hs, part
    <3>1. Seq(Proper) \subseteq Seq(Seq(TaskSet))
      <4> HIDE DEF Proper
      <4> QED
        BY <1>8
    <3> QED
      BY <1>5, <1>6, <3>1
  <2>7. hs[i] = FlattenSeq(ks(h)) /\ i \in DOMAIN hs
    BY <2>1
  <2> HIDE DEF hs, ks
  <2>8. PICK g \in DOMAIN FlattenSeq(ks(h)) : FlattenSeq(ks(h))[g] = ks(h)[j][f]
    BY <2>4, <2>5, <2>6, FlattenHas
  <2>9. PICK m \in DOMAIN FlattenSeq(hs) : FlattenSeq(hs)[m] = hs[i][g]
    BY <2>6, <2>7, <2>8, FlattenHas
  <2> QED
    BY <2>5, <2>7, <2>8, <2>9 DEF Flushes
<1> QED
  BY <1>1, <1>7, <1>9

-----------------------------------------------------------------------------
(* The invariant                                                            *)

P == PlayTasks[play.kinds]
Now == Len(P) - Len(play.todo) + 1
Busy == play.todo # <<>>

Images == {w.image : w \in Wants}
Jsons == {w.json : w \in Wants}
Named == {w.custom : w \in Wants}

TodoSet == [task : TaskNames \cup {"bring_up"}, on : Ids]
PlaySet == [action : {"none", "upgrade", "reconfigure"}, todo : Seq(TodoSet),
            kinds : SUBSET KindsPresent, result : {"none", "running", "ok", "failed"},
            json : BOOLEAN, conf : BOOLEAN, cont : BOOLEAN,
            running : {"no", "yes", "undefined"}, down : SUBSET Ids,
            differed : SUBSET Ids, stale : SUBSET Ids, want : Wants \cup {<<>>},
            everFailed : BOOLEAN]
DaemonSet == [state : States, image : Images, json : Jsons, conf : Named]
FileSet == [json : Jsons, conf : Named]

Types ==
    /\ TypeOK
    /\ daemon \in [Ids -> DaemonSet]
    /\ file \in [DOMAIN HostFiles -> [KindsPresent -> FileSet]]
    /\ play \in PlaySet

(* The rest of the play is the rest of its tasks, but that a flush becomes the  *)
(* second half of a restart.                                                *)
Rest ==
    Busy =>
        /\ play.want = want
        /\ Len(play.todo) <= Len(P)
        /\ \A i \in DOMAIN play.todo : i > 1 => play.todo[i] = P[Now - 1 + i]
        /\ \/ play.todo[1] = P[Now]
           \/ P[Now].task = "flush" /\ play.todo[1] = Task("bring_up", P[Now].on)

(* What is asked for is fixed while a play runs; Applies is its switch.        *)
Applies == play.want.confRestart

(* The daemon was started with the files that lie on its host now.             *)
Fresh(x) ==
    /\ daemon[x].json = file[HostOf(x)][KindOf(x)].json
    /\ Applies => SameConf(daemon[x].conf, file[HostOf(x)][KindOf(x)].conf, HostOf(x))

(* The files of x were written by this play, and its restart is to come.       *)
Pending(x) ==
    /\ Busy
    /\ \E b \in DOMAIN P, f \in Flushes(P) :
          /\ P[f].on = x /\ Group(P, b, f)
          /\ b < Now /\ Now <= f
          /\ daemon[x].json # file[HostOf(x)][KindOf(x)].json => play.json
          /\ Applies /\ ~SameConf(daemon[x].conf, file[HostOf(x)][KindOf(x)].conf, HostOf(x))
             => b + 1 < Now /\ play.conf

Looked ==
    Busy => \A f \in Flushes(P) : LET x == P[f].on IN
        Now <= f /\ f - Now < LookDist(x) =>
            /\ ~play.cont => daemon[x].image = want.image
            /\ play.cont => x \in play.differed
            /\ play.cont => ~Up(x) \/ daemon[x].image # want.image
            /\ ~play.cont /\ x \notin play.stale => Fresh(x) \/ Pending(x)

Probed ==
    Busy => \A f \in Flushes(P) : LET x == P[f].on IN
        Now <= f /\ Osd(x) /\ f - Now < ProbeDist(x) =>
            (play.running # "yes" => x \in play.down /\ ~Up(x))

Checked ==
    Busy /\ want.healthCheck => \A f \in Flushes(P) : LET x == P[f].on IN
        Now <= f /\ ~Mds(x) /\ f - Now < HealthDist(x) /\ ~At("bring_up") => recovered

Flagged == At("flush") /\ Osd(Head(play.todo).on) /\ FlagsWhen => noout

Halfway ==
    At("bring_up") => LET x == Head(play.todo).on IN
        /\ daemon[x].state \in {"absent", "exited"}
        /\ daemon[x].state = "exited" => daemon[x].image = want.image

Unflagged ==
    noout /\ ~play.everFailed =>
        /\ Busy /\ FlagsWhen
        /\ \/ Now > 1 /\ P[Now - 1].task = "set"
           \/ Now > 2 /\ P[Now - 2].task = "set"

Healed == Healthy => recovered

(* What is behind a play that has not failed.                                *)
Upgraded ==
    play.action = "upgrade" /\ play.result # "failed" =>
        \A f \in Flushes(P) : f < Now =>
            P[f].on \in play.down \/ daemon[P[f].on].image = play.want.image

FilesWritten ==
    play.result \in {"running", "ok"} =>
        \A i \in DOMAIN P : i < Now =>
            /\ P[i].task = "json" => file[HostOf(P[i].on)][KindOf(P[i].on)].json = play.want.json
            /\ P[i].task = "conf" => file[HostOf(P[i].on)][KindOf(P[i].on)].conf = play.want.custom

Reconfigured ==
    play.action = "reconfigure" /\ play.result # "failed" =>
        \A f \in Flushes(P) : f < Now =>
            P[f].on \in play.differed \cup play.down \cup play.stale \/ Fresh(P[f].on)

UpToDate ==
    Busy =>
        \A x \in Ids \ play.stale : Fresh(x) \/ ~Up(x) \/ daemon[x].image # want.image \/ Pending(x)

FailedOnce == play.result = "failed" => play.everFailed

RInv == /\ Types /\ Rest /\ Looked /\ Probed /\ Checked /\ Flagged /\ Halfway /\ Unflagged
        /\ Healed /\ Upgraded /\ FilesWritten /\ Reconfigured /\ UpToDate /\ FailedOnce

-----------------------------------------------------------------------------
(* Where a play is                                                          *)

LEMMA ThePlay ==
    ASSUME Types
    PROVE  /\ play.kinds \in SUBSET KindsPresent
           /\ P \in Seq(TaskSet) /\ Led(P) /\ Enclosed(P) /\ Grouped(P)
           /\ Len(P) \in Nat /\ DOMAIN P = 1 .. Len(P)
           /\ \A i \in DOMAIN P : P[i] \in TaskSet /\ P[i].task \in TaskNames /\ P[i].on \in Ids
           /\ \A x \in Ids : KindOf(x) \in play.kinds => \E f \in Flushes(P) : P[f].on = x
<1>1. play.kinds \in SUBSET KindsPresent
  BY DEF Types, PlaySet
<1>2. /\ P \in Proper
      /\ \A x \in Ids : KindOf(x) \in play.kinds => \E f \in Flushes(P) : P[f].on = x
  BY <1>1, PlayTasksAre DEF P
<1> HIDE DEF P
<1>3. P \in Seq(TaskSet) /\ Led(P) /\ Enclosed(P) /\ Grouped(P)
  BY <1>2 DEF Proper
<1>4. \A i \in DOMAIN P : P[i] \in TaskSet
  BY <1>3
<1>5. \A i \in DOMAIN P : P[i].task \in TaskNames /\ P[i].on \in Ids
  BY <1>4 DEF TaskSet
<1>6. Len(P) \in Nat /\ DOMAIN P = 1 .. Len(P)
  BY <1>3
<1> QED
  BY <1>1, <1>2, <1>3, <1>4, <1>5, <1>6

LEMMA Todo ==
    ASSUME Types
    PROVE  /\ play.todo \in Seq(TodoSet) /\ Len(play.todo) \in Nat
           /\ DOMAIN play.todo = 1 .. Len(play.todo)
           /\ Busy => Len(play.todo) > 0 /\ Head(play.todo) = play.todo[1]
           /\ ~Busy => Len(play.todo) = 0
           /\ Now \in Int
<1>1. play.todo \in Seq(TodoSet)
  BY DEF Types, PlaySet
<1>2. Len(P) \in Nat
  BY ThePlay
<1>3. Len(play.todo) \in Nat /\ DOMAIN play.todo = 1 .. Len(play.todo)
  BY <1>1
<1>4. Busy => Len(play.todo) > 0 /\ Head(play.todo) = play.todo[1]
  BY <1>1, <1>3, EmptySeq DEF Busy
<1>5. ~Busy => Len(play.todo) = 0
  BY DEF Busy
<1> QED
  BY <1>1, <1>2, <1>3, <1>4, <1>5 DEF Now

(* The next task is that at Now, or the second half of the restart there.       *)
LEMMA Place ==
    ASSUME Types, Rest, Busy
    PROVE  /\ Now \in DOMAIN P /\ Now \in 1 .. Len(P) /\ play.want = want
           /\ P[Now].on \in Ids /\ P[Now].task \in TaskNames
           /\ Head(play.todo).on = P[Now].on /\ Here = Of(P[Now].on) /\ Here.id = P[Now].on
           /\ ~At("bring_up") => Head(play.todo) = P[Now]
           /\ At("bring_up") => P[Now].task = "flush" /\ Head(play.todo) = Task("bring_up", P[Now].on)
           /\ \A t \in TaskNames : At(t) <=> P[Now].task = t /\ ~At("bring_up")
<1>1. Len(P) \in Nat /\ DOMAIN P = 1 .. Len(P) /\ Len(play.todo) \in Nat /\ Len(play.todo) > 0
  BY ThePlay, Todo
<1>2. Head(play.todo) = play.todo[1]
  BY Todo
<1>3. Len(play.todo) <= Len(P) /\ play.want = want
  BY DEF Rest
<1>4. Now \in 1 .. Len(P)
  BY <1>1, <1>3 DEF Now
<1>5. P[Now].on \in Ids /\ P[Now].task \in TaskNames
  BY <1>1, <1>4, ThePlay
<1>6. \/ Head(play.todo) = P[Now]
      \/ P[Now].task = "flush" /\ Head(play.todo) = Task("bring_up", P[Now].on)
  BY <1>2 DEF Rest
<1>7. Head(play.todo).on = P[Now].on
  BY <1>6 DEF Task
<1>8. Here = Of(P[Now].on) /\ Here.id = P[Now].on
  BY <1>5, <1>7, IdType DEF Here
<1>9. "bring_up" \notin TaskNames
  BY DEF TaskNames
<1>10. \A t : At(t) <=> Head(play.todo).task = t
  BY DEF At, Busy
<1>11. /\ ~At("bring_up") => Head(play.todo) = P[Now]
       /\ At("bring_up") => P[Now].task = "flush" /\ Head(play.todo) = Task("bring_up", P[Now].on)
  BY <1>5, <1>6, <1>9, <1>10 DEF Task
<1>12. \A t \in TaskNames : At(t) <=> P[Now].task = t /\ ~At("bring_up")
  <2> TAKE t \in TaskNames
  <2>1. CASE At("bring_up")
    BY <2>1, <1>9, <1>10
  <2>2. CASE ~At("bring_up")
    BY <2>2, <1>10, <1>11
  <2> QED
    BY <2>1, <2>2
<1> QED
  BY <1>1, <1>3, <1>4, <1>5, <1>7, <1>8, <1>11, <1>12

(* What the play does after its next task.                                   *)
LEMMA Onward ==
    ASSUME Types, Rest, Busy, play'.todo = Tail(play.todo), play'.kinds = play.kinds,
           play'.want = play.want, want' = want
    PROVE  /\ P' = P /\ Now' = Now + 1 /\ Rest'
           /\ Busy' <=> Now < Len(P)
           /\ Busy' => Head(play'.todo) = P[Now + 1] /\ ~(At("bring_up"))'
           /\ ~Busy' => play'.todo = <<>>
<1>1. P' = P
  BY DEF P
<1>2. /\ Len(P) \in Nat /\ DOMAIN P = 1 .. Len(P) /\ Now \in 1 .. Len(P)
      /\ play.todo \in Seq(TodoSet) /\ Len(play.todo) \in Nat /\ Len(play.todo) > 0
      /\ play.want = want /\ \A i \in DOMAIN P : P[i].task \in TaskNames
      /\ DOMAIN play.todo = 1 .. Len(play.todo)
  BY ThePlay, Todo, Place
<1>3. /\ Len(play'.todo) = Len(play.todo) - 1 /\ play'.todo \in Seq(TodoSet)
      /\ DOMAIN play'.todo = 1 .. Len(play.todo) - 1
      /\ \A i \in 1 .. Len(play.todo) - 1 : play'.todo[i] = play.todo[i + 1]
  BY <1>2
<1>5. Now = Len(P) - Len(play.todo) + 1
  BY DEF Now
<1>11. Len(P) \in Nat /\ Len(play.todo) \in Nat /\ Len(play'.todo) = Len(play.todo) - 1
  BY <1>2, <1>3
<1>12. /\ Len(P) - Len(play'.todo) + 1 = Now + 1
       /\ Len(play'.todo) = 0 <=> ~(Now < Len(P))
       /\ Len(play'.todo) > 0 <=> Now < Len(P)
  <2> DEFINE a == Len(P)
             b == Len(play.todo)
             c == Len(play'.todo)
  <2>1. a \in Nat /\ b \in Nat /\ b > 0 /\ c = b - 1 /\ Now = a - b + 1
    BY <1>2, <1>5, <1>11
  <2> HIDE DEF a, b, c
  <2>2. a - c + 1 = Now + 1 /\ (c = 0 <=> ~(Now < a)) /\ (c > 0 <=> Now < a)
    BY <2>1
  <2> QED
    BY <2>2 DEF a, b, c
<1>4. Now' = Now + 1
  <2>1. Now' = Len(P) - Len(play'.todo) + 1
    BY <1>1 DEF Now
  <2> QED
    BY <2>1, <1>12
<1>6. Busy' <=> Now < Len(P)
  <2>1. play'.todo = <<>> <=> Len(play'.todo) = 0
    BY <1>3, EmptySeq
  <2> QED
    BY <2>1, <1>12 DEF Busy
<1>7. \A i \in DOMAIN play'.todo : play'.todo[i] = P[Now + i]
  <2> TAKE i \in DOMAIN play'.todo
  <2>1. i + 1 \in DOMAIN play.todo /\ i + 1 > 1 /\ play'.todo[i] = play.todo[i + 1]
    BY <1>2, <1>3
  <2>2. play.todo[i + 1] = P[Now - 1 + (i + 1)]
    BY <2>1 DEF Rest
  <2>3. Now - 1 + (i + 1) = Now + i
    BY <1>2, <1>3
  <2> QED
    BY <2>1, <2>2, <2>3
<1>8. Busy' => /\ 1 \in DOMAIN play'.todo /\ Head(play'.todo) = play'.todo[1]
               /\ Head(play'.todo) = P[Now + 1] /\ Now + 1 \in DOMAIN P
  <2> SUFFICES ASSUME Busy' PROVE 1 \in DOMAIN play'.todo /\ Head(play'.todo) = play'.todo[1]
                                  /\ Now + 1 \in DOMAIN P
    BY <1>7
  <2>1. Len(play.todo) - 1 > 0
    BY <1>11, <1>12, <1>6
  <2> QED
    BY <2>1, <1>2, <1>3, <1>6
<1>9. Busy' => ~(At("bring_up"))'
  BY <1>2, <1>8 DEF At, TaskNames
<1>10. Rest'
  <2> SUFFICES ASSUME Busy'
               PROVE  /\ play'.want = want' /\ Len(play'.todo) <= Len(P')
                      /\ \A i \in DOMAIN play'.todo : i > 1 => play'.todo[i] = P'[Now' - 1 + i]
                      /\ play'.todo[1] = P'[Now']
    BY DEF Rest
  <2>1. \A i \in DOMAIN play'.todo : Now' - 1 + i = Now + i
    BY <1>2, <1>3, <1>4
  <2>2. Len(play'.todo) <= Len(P')
    BY <1>1, <1>2, <1>3, <1>5
  <2> QED
    BY <1>1, <1>2, <1>4, <1>7, <1>8, <2>1, <2>2
<1> QED
  BY <1>1, <1>4, <1>6, <1>8, <1>9, <1>10 DEF Busy

-----------------------------------------------------------------------------
(* What the tasks do                                                        *)

(* A task that is done, and is not half of a restart.                          *)
Done ==
    /\ Busy /\ ~At("bring_up")
    /\ play' \in PlaySet /\ play'.todo = Tail(play.todo)
    /\ play'.result = IF play'.todo = <<>> THEN "ok" ELSE play.result
    /\ play'.kinds = play.kinds /\ play'.want = play.want /\ play'.action = play.action
    /\ play'.everFailed = play.everFailed /\ play'.stale = play.stale
    /\ play.down \subseteq play'.down /\ play.differed \subseteq play'.differed
    /\ UNCHANGED <<want, daemon, counts>>
    /\ recovered' \in BOOLEAN /\ (recovered => recovered') /\ (Healed => Healed')
    /\ LET x == P[Now].on
           t == P[Now].task
           h == HostOf(x)
           k == KindOf(x)
       IN
       /\ t = "json" => /\ file' = [file EXCEPT ![h][k].json = want.json]
                        /\ play'.json = (file[h][k].json # want.json)
       /\ t # "json" => play'.json = play.json
       /\ t = "conf" => /\ file' = [file EXCEPT ![h][k].conf = want.custom]
                        /\ play'.conf = ~SameConf(file[h][k].conf, want.custom, h)
       /\ t # "conf" => play'.conf = play.conf
       /\ t \notin {"json", "conf"} => file' = file
       /\ t = "look" => /\ play'.cont = Differs(x)
                        /\ Differs(x) => x \in play'.differed
       /\ t # "look" => play'.cont = play.cont
       /\ t = "probe" => (play'.running # "yes" => ~Up(x) /\ x \in play'.down)
       /\ t # "probe" => play'.running = play.running
       /\ t = "health" => ~want.healthCheck \/ Healthy
       /\ t \in {"unset", "set"} => noout' = (IF FlagsWhen THEN t = "set" ELSE noout)
       /\ t \notin {"unset", "set"} => noout' = noout
       /\ t = "flush" => ~RestartWhen

LEMMA Registers ==
    ASSUME Types, Busy, NEW p \in PlaySet, p.todo = play.todo, Register(p)
    PROVE  /\ play' \in PlaySet /\ play'.todo = Tail(play.todo)
           /\ play'.result = IF play'.todo = <<>> THEN "ok" ELSE p.result
           /\ play'.kinds = p.kinds /\ play'.want = p.want /\ play'.action = p.action
           /\ play'.everFailed = p.everFailed /\ play'.down = p.down
           /\ play'.stale = p.stale /\ play'.differed = p.differed /\ play'.json = p.json /\ play'.conf = p.conf
           /\ play'.cont = p.cont /\ play'.running = p.running
<1> DEFINE q == [p EXCEPT !.todo = Tail(@)]
<1>1. play' = Ended(q)
  BY DEF Register
<1>2. Tail(play.todo) \in Seq(TodoSet)
  <2>1. play.todo \in Seq(TodoSet) /\ play.todo # <<>>
    BY Todo DEF Busy
  <2> QED
    BY <2>1
<1>3. /\ q \in PlaySet /\ q.todo = Tail(play.todo) /\ q.result = p.result
      /\ q.kinds = p.kinds /\ q.want = p.want /\ q.action = p.action
      /\ q.everFailed = p.everFailed /\ q.down = p.down
      /\ q.stale = p.stale /\ q.differed = p.differed /\ q.json = p.json /\ q.conf = p.conf
      /\ q.cont = p.cont /\ q.running = p.running
  BY <1>2 DEF PlaySet
<1> HIDE DEF q
<1>4. CASE q.todo = <<>>
  <2>1. play' = [q EXCEPT !.result = "ok"]
    BY <1>1, <1>4 DEF Ended
  <2> QED
    BY <1>3, <1>4, <2>1 DEF PlaySet
<1>5. CASE q.todo # <<>>
  <2>1. play' = q
    BY <1>1, <1>5 DEF Ended
  <2> QED
    BY <1>3, <1>5, <2>1
<1> QED
  BY <1>4, <1>5

LEMMA HealedSame ==
    ASSUME Healed, daemon' = daemon, noout' = noout, recovered' = recovered
    PROVE  Healed'
  BY DEF Healed, Healthy

LEMMA PlayIs ==
    ASSUME Types
    PROVE  /\ play.action \in {"none", "upgrade", "reconfigure"}
           /\ play.result \in {"none", "running", "ok", "failed"}
           /\ play.json \in BOOLEAN /\ play.conf \in BOOLEAN /\ play.cont \in BOOLEAN
           /\ play.running \in {"no", "yes", "undefined"} /\ play.down \subseteq Ids
           /\ play.differed \subseteq Ids /\ play.everFailed \in BOOLEAN
           /\ play.stale \subseteq Ids
           /\ recovered \in BOOLEAN /\ noout \in BOOLEAN
           /\ play.result = "running" <=> Busy
           /\ want \in Wants /\ want.healthCheck \in BOOLEAN
           /\ faults \in 0 .. MaxFaults
  BY RolloutAssumption DEF Types, TypeOK, PlaySet, Busy, RolloutAssumption

LEMMA DaemonIs ==
    ASSUME Types, NEW x \in Ids
    PROVE  /\ daemon[x] \in DaemonSet /\ daemon[x].state \in States
           /\ daemon[x].image \in Images /\ daemon[x].json \in Jsons
           /\ daemon[x].conf \in Named
           /\ file[HostOf(x)][KindOf(x)] \in FileSet
           /\ file[HostOf(x)][KindOf(x)].json \in Jsons
           /\ file[HostOf(x)][KindOf(x)].conf \in Named
<1>1. daemon[x] \in DaemonSet
  BY DEF Types
<1>2. file[HostOf(x)][KindOf(x)] \in FileSet
  BY IdType DEF Types
<1> QED
  BY <1>1, <1>2 DEF DaemonSet, FileSet

(* A task that fails.                                                        *)
Failing ==
    /\ Busy /\ Fail
    /\ UNCHANGED <<want, file, daemon, plays, edits>>
    /\ noout' \in BOOLEAN /\ recovered' \in BOOLEAN /\ (recovered => recovered')
    /\ faults' \in 0 .. MaxFaults
    /\ Healed => Healed'

LEMMA JsonIsDone ==
    ASSUME Types, Rest, WriteJson
    PROVE  Done /\ P[Now].task = "json"
<1>1. Busy /\ At("json")
  BY DEF WriteJson, At, Busy
<1>2. P[Now].task = "json" /\ ~At("bring_up") /\ Here = Of(P[Now].on) /\ Here.id = P[Now].on
  BY <1>1, Place DEF TaskNames
<1> DEFINE p == [play EXCEPT !.json = Written.json # want.json]
<1>3. /\ p \in PlaySet /\ p.todo = play.todo /\ p.result = play.result
      /\ p.kinds = play.kinds /\ p.want = play.want /\ p.action = play.action
      /\ p.everFailed = play.everFailed /\ p.down = play.down /\ p.stale = play.stale
      /\ p.differed = play.differed /\ p.json = (Written.json # want.json) /\ p.conf = play.conf
      /\ p.cont = play.cont /\ p.running = play.running
  BY DEF Types, PlaySet
<1>4. Register(p)
  BY DEF WriteJson
<1> HIDE DEF p
<1>5. UNCHANGED <<want, daemon, noout, recovered, counts>>
  BY DEF WriteJson
<1>6. /\ Here.host = HostOf(P[Now].on) /\ Here.kind = KindOf(P[Now].on)
      /\ Written = file[HostOf(P[Now].on)][KindOf(P[Now].on)]
  BY <1>2 DEF HostOf, KindOf, Written
<1>7. file' = [file EXCEPT ![HostOf(P[Now].on)][KindOf(P[Now].on)].json = want.json]
  BY <1>6 DEF WriteJson
<1>8. Healed => Healed'
  BY <1>5, HealedSame
<1> HIDE DEF Healed, Now, P, Written, Here
<1> QED
  BY <1>1, <1>2, <1>3, <1>4, <1>5, <1>6, <1>7, <1>8, Registers, PlayIs DEF Done, counts

LEMMA ConfIsDone ==
    ASSUME Types, Rest, WriteConf
    PROVE  Done /\ P[Now].task = "conf"
<1>1. Busy /\ At("conf")
  BY DEF WriteConf, At, Busy
<1>2. P[Now].task = "conf" /\ ~At("bring_up") /\ Here = Of(P[Now].on) /\ Here.id = P[Now].on
  BY <1>1, Place DEF TaskNames
<1> DEFINE p == [play EXCEPT !.conf = ~SameConf(Written.conf, want.custom, Here.host)]
<1>3. /\ p \in PlaySet /\ p.todo = play.todo /\ p.result = play.result
      /\ p.kinds = play.kinds /\ p.want = play.want /\ p.action = play.action
      /\ p.everFailed = play.everFailed /\ p.down = play.down /\ p.stale = play.stale
      /\ p.differed = play.differed /\ p.json = play.json
      /\ p.conf = ~SameConf(Written.conf, want.custom, Here.host)
      /\ p.cont = play.cont /\ p.running = play.running
  BY DEF Types, PlaySet, SameConf
<1>4. Register(p)
  BY DEF WriteConf
<1> HIDE DEF p
<1>5. UNCHANGED <<want, daemon, noout, recovered, counts>>
  BY DEF WriteConf
<1>6. /\ Here.host = HostOf(P[Now].on) /\ Here.kind = KindOf(P[Now].on)
      /\ Written = file[HostOf(P[Now].on)][KindOf(P[Now].on)]
  BY <1>2 DEF HostOf, KindOf, Written
<1>7. file' = [file EXCEPT ![HostOf(P[Now].on)][KindOf(P[Now].on)].conf = want.custom]
  BY <1>6 DEF WriteConf
<1>8. Healed => Healed'
  BY <1>5, HealedSame
<1> HIDE DEF Healed, Now, P, Written, Here
<1> QED
  BY <1>1, <1>2, <1>3, <1>4, <1>5, <1>6, <1>7, <1>8, Registers, PlayIs DEF Done, counts

LEMMA LookIsDone ==
    ASSUME Types, Rest, Look
    PROVE  Done /\ P[Now].task = "look"
<1>1. Busy /\ At("look")
  BY DEF Look, At, Busy
<1>2. P[Now].task = "look" /\ ~At("bring_up") /\ Here.id = P[Now].on /\ P[Now].on \in Ids
  BY <1>1, Place DEF TaskNames
<1> DEFINE p == [play EXCEPT !.cont = Differs(Here.id),
                             !.differed = IF Differs(Here.id) THEN @ \cup {Here.id} ELSE @]
<1>3. /\ p \in PlaySet /\ p.todo = play.todo /\ p.result = play.result
      /\ p.kinds = play.kinds /\ p.want = play.want /\ p.action = play.action
      /\ p.everFailed = play.everFailed /\ p.down = play.down /\ p.stale = play.stale
      /\ p.differed = (IF Differs(Here.id) THEN play.differed \cup {Here.id} ELSE play.differed)
      /\ p.json = play.json /\ p.conf = play.conf
      /\ p.cont = Differs(Here.id) /\ p.running = play.running
  BY <1>2 DEF Types, PlaySet, Differs
<1>4. Register(p)
  BY DEF Look
<1> HIDE DEF p
<1>5. UNCHANGED <<want, file, daemon, noout, recovered, counts>>
  BY DEF Look
<1>8. Healed => Healed'
  BY <1>5, HealedSame
<1> HIDE DEF Healed, Now, P, Here
<1> QED
  BY <1>1, <1>2, <1>3, <1>4, <1>5, <1>8, Registers, PlayIs DEF Done, counts

LEMMA ProbeIsDone ==
    ASSUME Types, Rest, Probe
    PROVE  Done /\ P[Now].task = "probe"
<1>1. Busy /\ At("probe")
  BY DEF Probe, At, Busy
<1>2. P[Now].task = "probe" /\ ~At("bring_up") /\ Here.id = P[Now].on /\ P[Now].on \in Ids
  BY <1>1, Place DEF TaskNames
<1> DEFINE p == [play EXCEPT !.running = IF Me.state = "absent" THEN "undefined"
                                         ELSE IF Up(Here.id) THEN "yes" ELSE "no",
                             !.down = IF Up(Here.id) THEN @ ELSE @ \cup {Here.id}]
<1>3. /\ p \in PlaySet /\ p.todo = play.todo /\ p.result = play.result
      /\ p.kinds = play.kinds /\ p.want = play.want /\ p.action = play.action
      /\ p.everFailed = play.everFailed /\ p.stale = play.stale
      /\ p.down = (IF Up(Here.id) THEN play.down ELSE play.down \cup {Here.id})
      /\ p.differed = play.differed /\ p.json = play.json /\ p.conf = play.conf
      /\ p.cont = play.cont
      /\ p.running = (IF Me.state = "absent" THEN "undefined"
                      ELSE IF Up(Here.id) THEN "yes" ELSE "no")
  BY <1>2 DEF Types, PlaySet
<1>4. Register(p)
  BY DEF Probe
<1> HIDE DEF p
<1>5. UNCHANGED <<want, file, daemon, noout, recovered, counts>>
  BY DEF Probe
<1>6. Me.state = "absent" => ~Up(Here.id)
  BY DEF Me, Up
<1>8. Healed => Healed'
  BY <1>5, HealedSame
<1> HIDE DEF Healed, Now, P, Here
<1> QED
  BY <1>1, <1>2, <1>3, <1>4, <1>5, <1>6, <1>8, Registers, PlayIs DEF Done, counts

LEMMA HealthIsDone ==
    ASSUME Types, Rest, CheckHealth
    PROVE  Failing \/ (Done /\ P[Now].task = "health")
<1>1. Busy /\ At("health")
  BY DEF CheckHealth, At, Busy
<1>2. P[Now].task = "health" /\ ~At("bring_up")
  BY <1>1, Place DEF TaskNames
<1>3. play \in PlaySet
  BY DEF Types
<1>5. UNCHANGED <<want, file, daemon, noout, recovered, counts>>
  BY DEF CheckHealth
<1>8. Healed => Healed'
  BY <1>5, HealedSame
<1> HIDE DEF Healed, Now, P
<1>6. CASE ~want.healthCheck \/ Healthy
  <2>1. Register(play)
    BY <1>6 DEF CheckHealth
  <2> QED
    BY <1>1, <1>2, <1>3, <1>5, <1>6, <1>8, <2>1, Registers, PlayIs DEF Done, counts
<1>7. CASE ~(~want.healthCheck \/ Healthy)
  <2>1. Fail
    BY <1>7 DEF CheckHealth
  <2> QED
    BY <1>1, <1>5, <1>8, <2>1, PlayIs DEF Failing, counts
<1> QED
  BY <1>6, <1>7

LEMMA FlagsAreDone ==
    ASSUME Types, Rest, SetFlags
    PROVE  Failing \/ (Done /\ P[Now].task \in {"unset", "set"})
<1>1. Busy /\ (At("unset") \/ At("set"))
  BY DEF SetFlags, At, Busy
<1>2. /\ ~At("bring_up") /\ (At("unset") => P[Now].task = "unset")
      /\ (At("set") <=> P[Now].task = "set")
  BY <1>1, Place DEF TaskNames
<1>3. play \in PlaySet
  BY DEF Types
<1>5. /\ UNCHANGED <<want, file, daemon, counts>>
      /\ noout' = (IF FlagsWhen THEN At("set") ELSE noout)
      /\ recovered' = (recovered \/ Healthy')
  BY DEF SetFlags
<1>8. Healed'
  BY <1>5 DEF Healed
<1>9. (IF FlagsWhen THEN At("set") ELSE noout) \in BOOLEAN /\ (recovered \/ Healthy') \in BOOLEAN
  BY PlayIs DEF At
<1>10. noout' \in BOOLEAN /\ recovered' \in BOOLEAN /\ (recovered => recovered')
  BY <1>5, <1>9
<1> HIDE DEF Healed, Now, P
<1>6. CASE play.running # "undefined"
  <2>1. Register(play)
    BY <1>6 DEF SetFlags
  <2> QED
    BY <1>1, <1>2, <1>3, <1>5, <1>8, <1>10, <2>1, Registers, PlayIs DEF Done, counts
<1>7. CASE play.running = "undefined"
  <2>1. Fail
    BY <1>7 DEF SetFlags
  <2> QED
    BY <1>1, <1>5, <1>8, <1>10, <2>1, PlayIs DEF Failing, counts
<1> QED
  BY <1>6, <1>7

LEMMA SkipIsDone ==
    ASSUME Types, Rest, SkipHandler
    PROVE  Done /\ P[Now].task = "flush"
<1>1. Busy /\ At("flush") /\ ~RestartWhen
  BY DEF SkipHandler, At, Busy
<1>2. P[Now].task = "flush" /\ ~At("bring_up")
  BY <1>1, Place DEF TaskNames
<1>3. play \in PlaySet /\ Register(play)
  BY DEF Types, SkipHandler
<1>5. UNCHANGED <<want, file, daemon, noout, recovered, counts>>
  BY DEF SkipHandler
<1>8. Healed => Healed'
  BY <1>5, HealedSame
<1> HIDE DEF Healed, Now, P
<1> QED
  BY <1>1, <1>2, <1>3, <1>5, <1>8, Registers, PlayIs DEF Done, counts

LEMMA DistIs ==
    ASSUME NEW x
    PROVE  /\ LookDist(x) \in 1 .. 5 /\ LookDist(x) \in DOMAIN Before(x)
           /\ Before(x)[LookDist(x)] = "look"
           /\ \A e \in 1 .. 6 : e < LookDist(x) => e \in DOMAIN Before(x) /\ Before(x)[e] # "look"
           /\ Osd(x) => /\ ProbeDist(x) \in 1 .. 4 /\ ProbeDist(x) \in DOMAIN Before(x)
                        /\ Before(x)[ProbeDist(x)] = "probe"
                        /\ \A e \in 1 .. 6 : e < ProbeDist(x) => /\ e \in DOMAIN Before(x)
                                                                 /\ Before(x)[e] # "probe"
                        /\ 1 \in DOMAIN Before(x) /\ Before(x)[1] = "set"
           /\ ~Mds(x) => /\ HealthDist(x) \in 1 .. 5 /\ HealthDist(x) \in DOMAIN Before(x)
                         /\ Before(x)[HealthDist(x)] = "health"
                         /\ \A e \in 1 .. 6 : e < HealthDist(x) => e \in DOMAIN Before(x)
<1>1. CASE Osd(x)
  <2>1. ~Mds(x)
    BY <1>1 DEF Osd, Mds
  <2>2. CASE Of(x).lvm
    BY <1>1, <2>1, <2>2 DEF Before, LookDist, ProbeDist, HealthDist
  <2>3. CASE ~Of(x).lvm
    BY <1>1, <2>1, <2>3 DEF Before, LookDist, ProbeDist, HealthDist
  <2> QED
    BY <2>2, <2>3
<1>2. CASE ~Osd(x)
  BY <1>2 DEF Before, LookDist, HealthDist
<1> QED
  BY <1>1, <1>2

LEMMA LedTo ==
    ASSUME Types, Rest, Busy, NEW f \in Flushes(P), f > Now, f - Now \in DOMAIN Before(P[f].on)
    PROVE  /\ P[Now] = Task(Before(P[f].on)[f - Now], P[f].on)
           /\ P[Now].task = Before(P[f].on)[f - Now]
           /\ P[Now].task \notin {"json", "conf", "flush"}
<1>1. Led(P) /\ Now \in Nat /\ f \in Nat
  BY ThePlay, Place DEF Flushes
<1> HIDE DEF P, Now
<1>2. f - (f - Now) = Now
  BY <1>1
<1>3. P[Now] = Task(Before(P[f].on)[f - Now], P[f].on)
  BY <1>1, <1>2 DEF Led
<1>4. P[Now].task = Before(P[f].on)[f - Now]
  BY <1>3 DEF Task
<1> QED
  BY <1>3, <1>4, BeforeType

(* Which task this can be when a flush is near.                               *)
LEMMA Ahead ==
    ASSUME Types, Rest, Busy, NEW f \in Flushes(P), Now + 1 <= f
    PROVE  LET x == P[f].on IN
           /\ f - (Now + 1) < LookDist(x) =>
                 /\ P[Now].task \notin {"json", "conf", "flush"}
                 /\ \/ Now <= f /\ f - Now < LookDist(x) /\ P[Now].task # "look"
                    \/ P[Now] = Task("look", x)
           /\ Osd(x) /\ f - (Now + 1) < ProbeDist(x) =>
                 /\ P[Now].task # "flush"
                 /\ \/ Now <= f /\ f - Now < ProbeDist(x) /\ P[Now].task # "probe"
                    \/ P[Now] = Task("probe", x)
           /\ ~Mds(x) /\ f - (Now + 1) < HealthDist(x) =>
                 /\ P[Now].task # "flush"
                 /\ \/ Now <= f /\ f - Now < HealthDist(x)
                    \/ P[Now].task = "health"
           /\ Osd(x) /\ Now + 1 = f => P[Now].task = "set"
<1> DEFINE x == P[f].on
           e == f - Now
<1>1. Now \in Nat /\ f \in Nat /\ e \in Nat /\ e >= 1 /\ f > Now /\ Now <= f /\ f - (Now + 1) = e - 1
  <2>1. Now \in Nat /\ f \in Nat
    BY ThePlay, Place DEF Flushes
  <2> HIDE DEF Now, P
  <2> QED
    BY <2>1
<1>2. e \in DOMAIN Before(x) => /\ P[Now] = Task(Before(x)[e], x) /\ P[Now].task = Before(x)[e]
                                /\ P[Now].task \notin {"json", "conf", "flush"}
  BY <1>1, LedTo
<1> HIDE DEF e, x, Now, P
<1>3. ASSUME e - 1 < LookDist(x)
      PROVE  /\ P[Now].task \notin {"json", "conf", "flush"}
             /\ (e < LookDist(x) /\ P[Now].task # "look") \/ P[Now] = Task("look", x)
  <2>1. CASE e = LookDist(x)
    BY <2>1, <1>2, DistIs
  <2>2. CASE e # LookDist(x)
    <3>1. e < LookDist(x) /\ e \in 1 .. 6
      BY <1>1, <1>3, <2>2, DistIs
    <3> QED
      BY <3>1, <1>2, DistIs
  <2> QED
    BY <2>1, <2>2
<1>4. ASSUME Osd(x), e - 1 < ProbeDist(x)
      PROVE  /\ P[Now].task # "flush"
             /\ (e < ProbeDist(x) /\ P[Now].task # "probe") \/ P[Now] = Task("probe", x)
  <2>1. CASE e = ProbeDist(x)
    BY <1>4, <2>1, <1>2, DistIs
  <2>2. CASE e # ProbeDist(x)
    <3>1. e < ProbeDist(x) /\ e \in 1 .. 6
      BY <1>1, <1>4, <2>2, DistIs
    <3> QED
      BY <1>4, <3>1, <1>2, DistIs
  <2> QED
    BY <2>1, <2>2
<1>5. ASSUME ~Mds(x), e - 1 < HealthDist(x)
      PROVE  P[Now].task # "flush" /\ (e < HealthDist(x) \/ P[Now].task = "health")
  <2>1. CASE e = HealthDist(x)
    BY <1>5, <2>1, <1>2, DistIs
  <2>2. CASE e # HealthDist(x)
    <3>1. e < HealthDist(x) /\ e \in 1 .. 6
      BY <1>1, <1>5, <2>2, DistIs
    <3> QED
      BY <1>5, <3>1, <1>2, DistIs
  <2> QED
    BY <2>1, <2>2
<1>6. ASSUME Osd(x), e = 1 PROVE P[Now].task = "set"
  BY <1>6, <1>2, DistIs
<1>7. e = 1 <=> Now + 1 = f
  BY <1>1 DEF e
<1>8. \A n \in Nat : e < n <=> f - Now < n
  BY DEF e
<1> QED
  BY <1>1, <1>3, <1>4, <1>5, <1>6, <1>7 DEF e, x

LEMMA FreshStays ==
    ASSUME NEW x, Fresh(x), play'.want = play.want,
           daemon'[x].json = daemon[x].json, daemon'[x].conf = daemon[x].conf,
           file'[HostOf(x)][KindOf(x)].json = file[HostOf(x)][KindOf(x)].json,
           file'[HostOf(x)][KindOf(x)].conf = file[HostOf(x)][KindOf(x)].conf
    PROVE  Fresh(x)'
  BY DEF Fresh, Applies

LEMMA PendingStays ==
    ASSUME Types, Rest, Busy, NEW x \in Ids, Pending(x), P' = P, Now' \in {Now, Now + 1},
           Busy' <=> Now' <= Len(P),
           Now' = Now + 1 => P[Now].task # "flush" \/ P[Now].on # x,
           play'.want = play.want,
           play'.json = play.json, play'.conf = play.conf,
           daemon'[x].json = daemon[x].json, daemon'[x].conf = daemon[x].conf,
           file'[HostOf(x)][KindOf(x)].json = file[HostOf(x)][KindOf(x)].json,
           file'[HostOf(x)][KindOf(x)].conf = file[HostOf(x)][KindOf(x)].conf
    PROVE  Pending(x)'
<1> DEFINE F == file[HostOf(x)][KindOf(x)]
<1>1. PICK b \in DOMAIN P, f \in Flushes(P) :
          /\ P[f].on = x /\ Group(P, b, f)
          /\ b < Now /\ Now <= f
          /\ daemon[x].json # F.json => play.json
          /\ Applies /\ ~SameConf(daemon[x].conf, F.conf, HostOf(x))
             => b + 1 < Now /\ play.conf
  BY DEF Pending
<1>2. Now \in Nat /\ f \in Nat /\ b \in Nat /\ f <= Len(P) /\ Len(P) \in Nat
  BY ThePlay, Place DEF Flushes
<1>3. Now' = Now + 1 => Now # f
  BY <1>1 DEF Flushes
<1> HIDE DEF F
<1>4. b < Now' /\ Now' <= f /\ (b + 1 < Now => b + 1 < Now')
  BY <1>1, <1>2, <1>3
<1>5. Busy'
  BY <1>2, <1>4
<1> QED
  BY <1>1, <1>4, <1>5 DEF Pending, Applies, F

LEMMA MovesOn ==
    ASSUME Types, Rest, Done
    PROVE  /\ Busy /\ P' = P /\ Now' = Now + 1 /\ Rest' /\ Now \in Nat /\ Len(P) \in Nat
           /\ Now \in DOMAIN P /\ P[Now].on \in Ids /\ P[Now].task \in TaskNames
           /\ Busy' <=> Now < Len(P)
           /\ Busy' <=> Now' <= Len(P)
           /\ Busy' => Head(play'.todo) = P[Now + 1] /\ Now + 1 \in DOMAIN P
           /\ ~(At("bring_up"))'
           /\ play.want = want /\ play'.want = want' /\ play.result = "running"
           /\ daemon' = daemon /\ want' = want
<1>1. Busy /\ play'.todo = Tail(play.todo) /\ play'.kinds = play.kinds /\ play'.want = play.want
      /\ UNCHANGED <<want, daemon, counts>>
  BY DEF Done
<1>2. /\ P' = P /\ Now' = Now + 1 /\ Rest' /\ (Busy' <=> Now < Len(P))
      /\ (Busy' => Head(play'.todo) = P[Now + 1] /\ ~(At("bring_up"))')
  BY <1>1, Onward
<1>3. /\ Now \in 1 .. Len(P) /\ DOMAIN P = 1 .. Len(P) /\ Len(P) \in Nat /\ play.want = want
      /\ P[Now].on \in Ids /\ P[Now].task \in TaskNames
  BY <1>1, Place, ThePlay
<1>4. ~(At("bring_up"))'
  BY <1>2 DEF At, Busy
<1>5. play.result = "running"
  BY <1>1, PlayIs
<1> HIDE DEF Now, P
<1>6. (Now < Len(P) <=> Now + 1 <= Len(P)) /\ (Now < Len(P) => Now + 1 \in 1 .. Len(P)) /\ Now \in Nat
  BY <1>3
<1> QED
  BY <1>1, <1>2, <1>3, <1>4, <1>5, <1>6

LEMMA DoneLooked ==
    ASSUME RInv, Done
    PROVE  Looked'
<1>0. Types /\ Rest /\ Looked /\ UpToDate
  BY DEF RInv
<1>1. /\ Busy /\ P' = P /\ Now' = Now + 1 /\ Now \in Nat /\ Len(P) \in Nat
      /\ Now \in DOMAIN P
      /\ Busy' <=> Now' <= Len(P)
      /\ daemon' = daemon /\ want' = want /\ play'.want = play.want
      /\ play'.stale = play.stale /\ play.differed \subseteq play'.differed
  BY <1>0, MovesOn DEF Done
<1> SUFFICES ASSUME NEW f \in Flushes(P), Now + 1 <= f, f - (Now + 1) < LookDist(P[f].on)
             PROVE  LET x == P[f].on IN
                    /\ ~play'.cont => daemon[x].image = want.image
                    /\ play'.cont => x \in play'.differed
                    /\ play'.cont => ~Up(x) \/ daemon[x].image # want.image
                    /\ ~play'.cont /\ x \notin play'.stale => Fresh(x)' \/ Pending(x)'
  BY <1>1 DEF Looked, Up
<1> DEFINE x == P[f].on
<1>2. x \in Ids
  BY <1>0, ThePlay DEF Flushes
<1>3. /\ P[Now].task \notin {"json", "conf", "flush"}
      /\ \/ Now <= f /\ f - Now < LookDist(x) /\ P[Now].task # "look"
         \/ P[Now] = Task("look", x)
  BY <1>0, <1>1, Ahead
<1>4. file' = file /\ play'.json = play.json /\ play'.conf = play.conf
  BY <1>3 DEF Done
<1>5. Fresh(x) => Fresh(x)'
  BY <1>1, <1>4, FreshStays
<1>6. Pending(x) => Pending(x)'
  BY <1>0, <1>1, <1>2, <1>3, <1>4, PendingStays
<1> HIDE DEF x
<1>7. CASE Now <= f /\ f - Now < LookDist(x) /\ P[Now].task # "look"
  <2>1. play'.cont = play.cont
    BY <1>7 DEF Done
  <2>2. /\ ~play.cont => daemon[x].image = want.image
        /\ play.cont => x \in play.differed
        /\ play.cont => ~Up(x) \/ daemon[x].image # want.image
        /\ ~play.cont /\ x \notin play.stale => Fresh(x) \/ Pending(x)
    BY <1>0, <1>1, <1>7 DEF Looked, x
  <2> QED
    BY <2>1, <2>2, <1>1, <1>5, <1>6 DEF x
<1>8. CASE P[Now] = Task("look", x)
  <2>1. P[Now].task = "look" /\ P[Now].on = x
    BY <1>8 DEF Task
  <2>2. play'.cont = Differs(x) /\ (Differs(x) => x \in play'.differed)
    BY <2>1 DEF Done
  <2>3. x \notin play.stale => Fresh(x) \/ ~Up(x) \/ daemon[x].image # want.image \/ Pending(x)
    BY <1>0, <1>1, <1>2 DEF UpToDate
  <2> QED
    BY <2>2, <2>3, <1>1, <1>5, <1>6 DEF Differs, x
<1> QED
  BY <1>3, <1>7, <1>8

LEMMA DoneProbed ==
    ASSUME RInv, Done
    PROVE  Probed'
<1>0. Types /\ Rest /\ Probed
  BY DEF RInv
<1>1. /\ Busy /\ P' = P /\ Now' = Now + 1 /\ daemon' = daemon /\ play.down \subseteq play'.down
  BY <1>0, MovesOn DEF Done
<1> SUFFICES ASSUME NEW f \in Flushes(P), Now + 1 <= f, Osd(P[f].on),
                    f - (Now + 1) < ProbeDist(P[f].on), play'.running # "yes"
             PROVE  P[f].on \in play'.down /\ ~Up(P[f].on)
  BY <1>1 DEF Probed, Up
<1> DEFINE x == P[f].on
<1>3. \/ Now <= f /\ f - Now < ProbeDist(x) /\ P[Now].task # "probe"
      \/ P[Now] = Task("probe", x)
  BY <1>0, <1>1, Ahead
<1>7. CASE Now <= f /\ f - Now < ProbeDist(x) /\ P[Now].task # "probe"
  <2>1. play'.running = play.running
    BY <1>7 DEF Done
  <2> QED
    BY <2>1, <1>0, <1>1, <1>7 DEF Probed
<1>8. CASE P[Now] = Task("probe", x)
  <2>1. P[Now].task = "probe" /\ P[Now].on = x
    BY <1>8 DEF Task
  <2> QED
    BY <2>1 DEF Done
<1> QED
  BY <1>3, <1>7, <1>8

LEMMA DoneChecked ==
    ASSUME RInv, Done
    PROVE  Checked'
<1>0. Types /\ Rest /\ Checked /\ Healed
  BY DEF RInv
<1>1. /\ Busy /\ P' = P /\ Now' = Now + 1 /\ (recovered => recovered') /\ ~At("bring_up")
      /\ want' = want /\ recovered' \in BOOLEAN /\ recovered \in BOOLEAN
  BY <1>0, MovesOn, PlayIs DEF Done
<1> SUFFICES ASSUME NEW f \in Flushes(P), Now + 1 <= f, ~Mds(P[f].on), want.healthCheck,
                    f - (Now + 1) < HealthDist(P[f].on)
             PROVE  recovered'
  BY <1>1 DEF Checked
<1> DEFINE x == P[f].on
<1>3. (Now <= f /\ f - Now < HealthDist(x)) \/ P[Now].task = "health"
  BY <1>0, <1>1, Ahead
<1>7. CASE Now <= f /\ f - Now < HealthDist(x)
  BY <1>0, <1>1, <1>7 DEF Checked
<1>8. CASE P[Now].task = "health"
  BY <1>0, <1>1, <1>8 DEF Done, Healed
<1> QED
  BY <1>3, <1>7, <1>8

LEMMA DoneFlagged ==
    ASSUME RInv, Done
    PROVE  Flagged'
<1>0. Types /\ Rest
  BY DEF RInv
<1>1. /\ Busy /\ P' = P /\ Now' = Now + 1 /\ Now \in Nat
      /\ Busy' => Head(play'.todo) = P[Now + 1] /\ Now + 1 \in DOMAIN P
  BY <1>0, MovesOn
<1> SUFFICES ASSUME (At("flush"))', Osd(Head(play'.todo).on), FlagsWhen' PROVE noout'
  BY DEF Flagged
<1>2. Busy'
  BY DEF At, Busy
<1>3. Now + 1 \in Flushes(P) /\ Osd(P[Now + 1].on) /\ Now + 1 <= Now + 1
  BY <1>1, <1>2 DEF At, Flushes
<1>4. P[Now].task = "set"
  BY <1>0, <1>1, <1>3, Ahead
<1>5. /\ play'.running = play.running /\ play'.json = play.json /\ play'.conf = play.conf
      /\ play'.cont = play.cont /\ noout' = (IF FlagsWhen THEN TRUE ELSE noout)
  BY <1>4 DEF Done
<1> QED
  BY <1>5 DEF FlagsWhen

(* A play that has set the flags and has not taken them back is at the flush.    *)
LEMMA FlagsSet ==
    ASSUME Types, Rest, Busy, Unflagged, noout, ~play.everFailed,
           P[Now].task \notin {"set", "unset"}
    PROVE  /\ P[Now].task = "flush" /\ Now > 1 /\ P[Now - 1].task = "set"
           /\ Now + 1 <= Len(P) /\ FlagsWhen
<1>1. /\ Now \in Nat /\ Now \in DOMAIN P /\ Len(P) \in Nat /\ DOMAIN P = 1 .. Len(P)
      /\ Enclosed(P)
  BY Place, ThePlay
<1>2. /\ FlagsWhen
      /\ \/ Now > 1 /\ P[Now - 1].task = "set"
         \/ Now > 2 /\ P[Now - 2].task = "set"
  BY DEF Unflagged
<1> HIDE DEF P, Now
<1>3. ~(Now > 2 /\ P[Now - 2].task = "set")
  <2> SUFFICES ASSUME Now > 2, P[Now - 2].task = "set" PROVE FALSE
    OBVIOUS
  <2>1. Now - 2 \in DOMAIN P /\ (Now - 2) + 2 = Now
    BY <1>1
  <2>2. P[Now].task = "unset"
    BY <2>1, <1>1 DEF Enclosed
  <2> QED
    BY <2>2
<1>4. Now > 1 /\ P[Now - 1].task = "set"
  BY <1>2, <1>3
<1>5. Now - 1 \in DOMAIN P /\ (Now - 1) + 1 = Now /\ (Now - 1) + 2 = Now + 1
  BY <1>1, <1>4
<1>6. Now + 1 <= Len(P) /\ P[Now].task = "flush"
  BY <1>1, <1>4, <1>5 DEF Enclosed
<1> QED
  BY <1>2, <1>4, <1>6

LEMMA DoneUnflagged ==
    ASSUME RInv, Done
    PROVE  Unflagged'
<1>0. Types /\ Rest /\ Unflagged
  BY DEF RInv
<1>1. /\ Busy /\ P' = P /\ Now' = Now + 1 /\ Now \in Nat /\ Now \in DOMAIN P /\ Len(P) \in Nat
      /\ Busy' <=> Now < Len(P)
      /\ play'.everFailed = play.everFailed
  BY <1>0, MovesOn DEF Done
<1>2. Enclosed(P)
  BY <1>0, ThePlay
<1> SUFFICES ASSUME noout', ~play.everFailed
             PROVE  /\ Busy' /\ FlagsWhen'
                    /\ \/ Now + 1 > 1 /\ P[(Now + 1) - 1].task = "set"
                       \/ Now + 1 > 2 /\ P[(Now + 1) - 2].task = "set"
  BY <1>1 DEF Unflagged
<1> HIDE DEF P, Now
<1>3. (Now + 1) - 1 = Now /\ (Now + 1) - 2 = Now - 1 /\ Now >= 1
  <2>1. DOMAIN P = 1 .. Len(P)
    BY <1>0, ThePlay
  <2> QED
    BY <1>1, <2>1
<1>4. CASE P[Now].task = "set"
  <2>1. Now + 2 <= Len(P)
    BY <1>1, <1>2, <1>4 DEF Enclosed
  <2>2. Busy'
    BY <1>1, <2>1
  <2>3. /\ play'.running = play.running /\ play'.json = play.json /\ play'.conf = play.conf
        /\ play'.cont = play.cont
    BY <1>4 DEF Done
  <2>4. FlagsWhen
    <3>1. FlagsWhen \/ noout
      BY <1>4 DEF Done
    <3> QED
      BY <3>1, <1>0 DEF Unflagged
  <2>5. FlagsWhen'
    BY <2>3, <2>4 DEF FlagsWhen
  <2> QED
    BY <2>2, <2>5, <1>1, <1>3, <1>4
<1>5. CASE P[Now].task = "unset"
  <2>1. ~FlagsWhen /\ noout
    BY <1>5 DEF Done
  <2> QED
    BY <2>1, <1>0 DEF Unflagged
<1>6. CASE P[Now].task \notin {"set", "unset"}
  <2>1. noout
    BY <1>6 DEF Done
  <2>7. /\ P[Now].task = "flush" /\ Now > 1 /\ P[Now - 1].task = "set"
        /\ Now + 1 <= Len(P) /\ FlagsWhen
    BY <2>1, <1>0, <1>1, <1>6, FlagsSet
  <2>8. Busy'
    BY <1>1, <2>7
  <2>9. /\ play'.running = play.running /\ play'.json = play.json /\ play'.conf = play.conf
        /\ play'.cont = play.cont
    BY <2>7 DEF Done
  <2>10. FlagsWhen'
    BY <2>7, <2>9 DEF FlagsWhen
  <2> QED
    BY <1>1, <1>3, <2>7, <2>8, <2>10
<1> QED
  BY <1>4, <1>5, <1>6

LEMMA DoneUpgraded ==
    ASSUME RInv, Done
    PROVE  Upgraded'
<1>0. Types /\ Rest /\ Upgraded /\ Looked /\ Probed
  BY DEF RInv
<1>1. /\ Busy /\ P' = P /\ Now' = Now + 1 /\ Now \in Nat /\ Now \in DOMAIN P
      /\ P[Now].on \in Ids /\ play.want = want
      /\ play.result = "running" /\ daemon' = daemon /\ play'.action = play.action
      /\ play'.want = play.want /\ play.down \subseteq play'.down /\ Here = Of(P[Now].on)
  BY <1>0, MovesOn, Place DEF Done
<1> SUFFICES ASSUME play.action = "upgrade", NEW f \in Flushes(P), f < Now + 1
             PROVE  P[f].on \in play'.down \/ daemon[P[f].on].image = want.image
  BY <1>1 DEF Upgraded
<1>2. f \in Nat
  BY <1>0, ThePlay DEF Flushes
<1>3. CASE f < Now
  BY <1>0, <1>1, <1>3 DEF Upgraded
<1>4. CASE f = Now
  <2> DEFINE x == P[Now].on
  <2>1. P[Now].task = "flush" /\ ~RestartWhen
    BY <1>4 DEF Done, Flushes
  <2>2. Here.kind = KindOf(x)
    BY <1>1 DEF KindOf
  <2>3. ~play.cont \/ (Osd(x) /\ play.running # "yes")
    BY <2>1, <2>2 DEF RestartWhen, Osd
  <2>4. Now <= f /\ f - Now < LookDist(x) /\ (Osd(x) => f - Now < ProbeDist(x))
    BY <1>1, <1>4, DistIs
  <2>5. ~play.cont => daemon[x].image = want.image
    BY <1>0, <1>1, <1>4, <2>4 DEF Looked
  <2>6. Osd(x) /\ play.running # "yes" => x \in play.down
    BY <1>0, <1>1, <1>4, <2>4 DEF Probed
  <2> QED
    BY <1>1, <1>4, <2>3, <2>5, <2>6
<1> QED
  <2> HIDE DEF Now, P
  <2>1. f < Now \/ f = Now
    BY <1>1, <1>2
  <2> QED
    BY <1>3, <1>4, <2>1

LEMMA FilesAfter ==
    ASSUME Types, Rest, Done, NEW x \in Ids
    PROVE  LET F == file[HostOf(x)][KindOf(x)]
               G == file'[HostOf(x)][KindOf(x)]
               mine == SameGroup(P[Now].on, x)
           IN  /\ G.json = IF P[Now].task = "json" /\ mine THEN want.json ELSE F.json
               /\ G.conf = IF P[Now].task = "conf" /\ mine THEN want.custom ELSE F.conf
<1>1. /\ file \in [DOMAIN HostFiles -> [KindsPresent -> FileSet]]
      /\ HostOf(x) \in DOMAIN HostFiles /\ KindOf(x) \in KindsPresent
      /\ P[Now].on \in Ids
  BY MovesOn, IdType DEF Types
<1> DEFINE y == P[Now].on
<1>2. HostOf(y) \in DOMAIN HostFiles /\ KindOf(y) \in KindsPresent
  BY <1>1, IdType
<1>3. SameGroup(y, x) <=> HostOf(y) = HostOf(x) /\ KindOf(y) = KindOf(x)
  BY DEF SameGroup
<1>4. CASE P[Now].task = "json"
  <2>1. file' = [file EXCEPT ![HostOf(y)][KindOf(y)].json = want.json]
    BY <1>4 DEF Done
  <2> HIDE DEF y
  <2>2. /\ file'[HostOf(x)][KindOf(x)].conf = file[HostOf(x)][KindOf(x)].conf
        /\ file'[HostOf(x)][KindOf(x)].json =
               IF SameGroup(y, x) THEN want.json ELSE file[HostOf(x)][KindOf(x)].json
    BY <1>1, <1>2, <1>3, <2>1 DEF FileSet
  <2> QED
    BY <1>4, <2>2 DEF y
<1>5. CASE P[Now].task = "conf"
  <2>1. file' = [file EXCEPT ![HostOf(y)][KindOf(y)].conf = want.custom]
    BY <1>5 DEF Done
  <2> HIDE DEF y
  <2>2. /\ file'[HostOf(x)][KindOf(x)].json = file[HostOf(x)][KindOf(x)].json
        /\ file'[HostOf(x)][KindOf(x)].conf =
               IF SameGroup(y, x) THEN want.custom ELSE file[HostOf(x)][KindOf(x)].conf
    BY <1>1, <1>2, <1>3, <2>1 DEF FileSet
  <2> QED
    BY <1>5, <2>2 DEF y
<1>6. CASE P[Now].task \notin {"json", "conf"}
  <2>1. file' = file
    BY <1>6 DEF Done
  <2> QED
    BY <1>6, <2>1
<1> QED
  BY <1>4, <1>5, <1>6

LEMMA DoneFilesWritten ==
    ASSUME RInv, Done
    PROVE  FilesWritten'
<1>0. Types /\ Rest /\ FilesWritten
  BY DEF RInv
<1>1. /\ Busy /\ P' = P /\ Now' = Now + 1 /\ Now \in Nat /\ play.want = want
      /\ play.result = "running" /\ play'.want = play.want
  BY <1>0, MovesOn DEF Done
<1> SUFFICES ASSUME NEW i \in DOMAIN P, i < Now + 1
             PROVE  /\ P[i].task = "json" =>
                           file'[HostOf(P[i].on)][KindOf(P[i].on)].json = want.json
                    /\ P[i].task = "conf" =>
                           file'[HostOf(P[i].on)][KindOf(P[i].on)].conf = want.custom
  BY <1>1 DEF FilesWritten
<1>2. i \in Nat /\ P[i].on \in Ids
  BY <1>0, ThePlay
<1> DEFINE x == P[i].on
<1>3. /\ file'[HostOf(x)][KindOf(x)].json =
             IF P[Now].task = "json" /\ SameGroup(P[Now].on, x) THEN want.json
             ELSE file[HostOf(x)][KindOf(x)].json
      /\ file'[HostOf(x)][KindOf(x)].conf =
             IF P[Now].task = "conf" /\ SameGroup(P[Now].on, x) THEN want.custom
             ELSE file[HostOf(x)][KindOf(x)].conf
  BY <1>0, <1>2, FilesAfter
<1>4. CASE i < Now
  <2>1. /\ P[i].task = "json" => file[HostOf(x)][KindOf(x)].json = want.json
        /\ P[i].task = "conf" => file[HostOf(x)][KindOf(x)].conf = want.custom
    BY <1>0, <1>1, <1>4 DEF FilesWritten
  <2> QED
    BY <1>3, <2>1
<1>5. CASE i = Now
  BY <1>3, <1>5 DEF SameGroup
<1> QED
  <2> HIDE DEF Now, P
  <2>1. i < Now \/ i = Now
    BY <1>1, <1>2
  <2> QED
    BY <1>4, <1>5, <2>1

(* The files of a group are not written again, before or after its restarts.    *)
LEMMA WrittenOnce ==
    ASSUME RInv, Done, NEW f \in Flushes(P), f < Now
    PROVE  LET x == P[f].on IN
           /\ file'[HostOf(x)][KindOf(x)].json = file[HostOf(x)][KindOf(x)].json
           /\ file'[HostOf(x)][KindOf(x)].conf = file[HostOf(x)][KindOf(x)].conf
           /\ file[HostOf(x)][KindOf(x)].json = want.json
           /\ file[HostOf(x)][KindOf(x)].conf = want.custom
<1>0. Types /\ Rest /\ FilesWritten
  BY DEF RInv
<1>1. play.want = want /\ play.result = "running" /\ Now \in Nat
  BY <1>0, MovesOn
<1>2. Grouped(P) /\ f \in Nat /\ P[f].on \in Ids /\ f <= Len(P) /\ DOMAIN P = 1 .. Len(P)
      /\ Len(P) \in Nat
  BY <1>0, ThePlay DEF Flushes
<1> DEFINE x == P[f].on
<1>3. PICK b \in DOMAIN P : Group(P, b, f)
  BY <1>2 DEF Grouped
<1>4. /\ b + 1 < f /\ P[b].task = "json" /\ P[b + 1].task = "conf" /\ P[b + 1].on = P[b].on
      /\ SameGroup(P[b].on, x)
  BY <1>3 DEF Group
<1>5. b + 1 \in DOMAIN P /\ b < Now /\ b + 1 < Now
  <2> HIDE DEF P, Now
  <2> QED
    BY <1>1, <1>2, <1>4
<1>6. /\ file[HostOf(P[b].on)][KindOf(P[b].on)].json = want.json
      /\ file[HostOf(P[b].on)][KindOf(P[b].on)].conf = want.custom
  BY <1>0, <1>1, <1>4, <1>5 DEF FilesWritten
<1>7. HostOf(P[b].on) = HostOf(x) /\ KindOf(P[b].on) = KindOf(x)
  BY <1>4 DEF SameGroup
<1>8. /\ file'[HostOf(x)][KindOf(x)].json =
             IF P[Now].task = "json" /\ SameGroup(P[Now].on, x) THEN want.json
             ELSE file[HostOf(x)][KindOf(x)].json
      /\ file'[HostOf(x)][KindOf(x)].conf =
             IF P[Now].task = "conf" /\ SameGroup(P[Now].on, x) THEN want.custom
             ELSE file[HostOf(x)][KindOf(x)].conf
  BY <1>0, <1>2, FilesAfter
<1> HIDE DEF P, Now
<1> QED
  BY <1>6, <1>7, <1>8

LEMMA DoneReconfigured ==
    ASSUME RInv, Done
    PROVE  Reconfigured'
<1>0. Types /\ Rest /\ Reconfigured /\ Looked /\ Probed
  BY DEF RInv
<1>1. /\ Busy /\ P' = P /\ Now' = Now + 1 /\ Now \in Nat /\ Now \in DOMAIN P
      /\ P[Now].on \in Ids /\ play.want = want
      /\ daemon' = daemon /\ play'.action = play.action /\ play'.want = play.want
      /\ play'.stale = play.stale /\ play.result = "running"
      /\ play.down \subseteq play'.down /\ play.differed \subseteq play'.differed
      /\ Here = Of(P[Now].on)
  BY <1>0, MovesOn, Place DEF Done
<1> SUFFICES ASSUME play.action = "reconfigure", NEW f \in Flushes(P), f < Now + 1
             PROVE  P[f].on \in play'.differed \cup play'.down \cup play'.stale \/ Fresh(P[f].on)'
  BY <1>1 DEF Reconfigured
<1>2. f \in Nat
  BY <1>0, ThePlay DEF Flushes
<1> DEFINE x == P[f].on
<1>3. CASE f < Now
  <2>1. x \in play.differed \cup play.down \cup play.stale \/ Fresh(x)
    BY <1>0, <1>1, <1>3 DEF Reconfigured
  <2>2. Fresh(x) => Fresh(x)'
    BY <1>1, <1>3, WrittenOnce, FreshStays
  <2> QED
    BY <1>1, <2>1, <2>2
<1>4. CASE f = Now
  <2>1. P[Now].task = "flush" /\ ~RestartWhen
    BY <1>4 DEF Done, Flushes
  <2>2. Here.kind = KindOf(x)
    BY <1>1, <1>4 DEF KindOf
  <2>3. \/ play.cont
        \/ Osd(x) /\ play.running # "yes"
        \/ ~play.json /\ ~(play.conf /\ want.confRestart)
    BY <2>1, <2>2 DEF RestartWhen, Osd
  <2>4. Now <= f /\ f - Now < LookDist(x) /\ (Osd(x) => f - Now < ProbeDist(x))
    BY <1>1, <1>4, DistIs
  <2>5. /\ play.cont => x \in play.differed
        /\ ~play.cont => x \in play.stale \/ Fresh(x) \/ Pending(x)
    BY <1>0, <1>1, <2>4 DEF Looked
  <2>6. Osd(x) /\ play.running # "yes" => x \in play.down
    BY <1>0, <1>1, <2>4 DEF Probed
  <2>7. ~play.json /\ ~(play.conf /\ want.confRestart) /\ Pending(x) => Fresh(x)
    BY <1>1 DEF Pending, Fresh, Applies
  <2>8. file' = file
    BY <2>1 DEF Done
  <2>9. Fresh(x) => Fresh(x)'
    BY <1>1, <2>8, FreshStays
  <2> QED
    BY <1>1, <2>3, <2>5, <2>6, <2>7, <2>9
<1> QED
  <2> HIDE DEF Now, P
  <2>1. f < Now \/ f = Now
    BY <1>1, <1>2
  <2> QED
    BY <1>3, <1>4, <2>1

LEMMA SameTrans ==
    ASSUME NEW a, NEW b, NEW c, NEW h, SameConf(a, b, h), SameConf(b, c, h)
    PROVE  SameConf(a, c, h)
  BY DEF SameConf

(* While the restart of a daemon is pending, its files are written at most in   *)
(* the second task of the group.                                             *)
LEMMA PendingAt ==
    ASSUME Types, Rest, Busy, NEW x \in Ids, Pending(x)
    PROVE  /\ P[Now].task # "json"
           /\ P[Now].task = "conf" =>
                 /\ Applies => SameConf(daemon[x].conf, file[HostOf(x)][KindOf(x)].conf, HostOf(x))
                 /\ daemon[x].json # file[HostOf(x)][KindOf(x)].json => play.json
                 /\ SameGroup(P[Now].on, x)
<1> DEFINE F == file[HostOf(x)][KindOf(x)]
<1>1. PICK b \in DOMAIN P, f \in Flushes(P) :
          /\ P[f].on = x /\ Group(P, b, f)
          /\ b < Now /\ Now <= f
          /\ daemon[x].json # F.json => play.json
          /\ Applies /\ ~SameConf(daemon[x].conf, F.conf, HostOf(x))
             => b + 1 < Now /\ play.conf
  BY DEF Pending
<1>2. Now \in Nat /\ f \in Nat /\ b \in Nat
  BY ThePlay, Place DEF Flushes
<1>3. /\ P[b + 1].task = "conf" /\ P[b + 1].on = P[b].on /\ SameGroup(P[b].on, x)
      /\ \A k \in b + 2 .. f : P[k].task \notin {"json", "conf"}
  BY <1>1 DEF Group
<1> HIDE DEF F, P, Now
<1>4. Now = b + 1 \/ Now \in b + 2 .. f
  BY <1>1, <1>2
<1>5. CASE Now = b + 1
  BY <1>1, <1>2, <1>3, <1>5 DEF F
<1>6. CASE Now \in b + 2 .. f
  BY <1>3, <1>6
<1> QED
  BY <1>4, <1>5, <1>6

LEMMA DoneUpToDate ==
    ASSUME RInv, Done
    PROVE  UpToDate'
<1>0. Types /\ Rest /\ UpToDate /\ Looked /\ Probed
  BY DEF RInv
<1>1. /\ Busy /\ P' = P /\ Now' = Now + 1 /\ Now \in Nat /\ Now \in DOMAIN P /\ Len(P) \in Nat
      /\ P[Now].on \in Ids /\ P[Now].task \in TaskNames
      /\ Busy' <=> Now' <= Len(P)
      /\ daemon' = daemon /\ want' = want /\ play'.want = play.want
      /\ play'.stale = play.stale /\ play.want = want /\ Here = Of(P[Now].on)
  BY <1>0, MovesOn, Place DEF Done
<1>2. Grouped(P) /\ DOMAIN P = 1 .. Len(P)
  BY <1>0, ThePlay
<1> SUFFICES ASSUME NEW x \in Ids \ play.stale, Up(x), daemon[x].image = want.image
             PROVE  Fresh(x)' \/ Pending(x)'
  BY <1>1 DEF UpToDate, Up
<1> DEFINE F == file[HostOf(x)][KindOf(x)]
           G == file'[HostOf(x)][KindOf(x)]
           mine == SameGroup(P[Now].on, x)
<1>3. Fresh(x) \/ Pending(x)
  BY <1>0, <1>1 DEF UpToDate
<1>4. /\ G.json = IF P[Now].task = "json" /\ mine THEN want.json ELSE F.json
      /\ G.conf = IF P[Now].task = "conf" /\ mine THEN want.custom ELSE F.conf
  BY <1>0, FilesAfter
<1>5. HostOf(x) = HostOf(P[Now].on) /\ KindOf(x) = KindOf(P[Now].on) <=> mine
  BY DEF SameGroup
<1> HIDE DEF mine
<1>6. CASE P[Now].task = "json" /\ mine
  <2>1. Fresh(x)
    BY <1>0, <1>1, <1>3, <1>6, PendingAt
  <2>2. PICK f \in Flushes(P) : P[f].on = x /\ Group(P, Now, f)
    BY <1>1, <1>2, <1>6 DEF Grouped, mine
  <2>3. f \in Nat /\ Now + 1 < f /\ f <= Len(P)
    BY <2>2, <1>2 DEF Group, Flushes
  <2>4. Now < Now' /\ Now' <= f /\ Busy'
    BY <1>1, <2>3
  <2>5. play'.json = (F.json # want.json)
    BY <1>5, <1>6 DEF Done
  <2>6. daemon[x].json = F.json /\ (Applies => SameConf(daemon[x].conf, F.conf, HostOf(x)))
    BY <2>1 DEF Fresh
  <2>7. G.json = want.json /\ G.conf = F.conf
    BY <1>4, <1>6
  <2> QED
    BY <1>1, <2>2, <2>4, <2>5, <2>6, <2>7 DEF Pending, Applies
<1>7. CASE P[Now].task = "conf" /\ mine
  <2>1. /\ Applies => SameConf(daemon[x].conf, F.conf, HostOf(x))
        /\ daemon[x].json # F.json => play.json
    BY <1>0, <1>1, <1>3, <1>7, PendingAt DEF Fresh
  <2>2. Now > 1 /\ P[Now - 1] = Task("json", P[Now].on)
    BY <1>1, <1>2, <1>7 DEF Grouped
  <2>3. Now - 1 \in DOMAIN P /\ P[Now - 1].task = "json" /\ SameGroup(P[Now - 1].on, x)
    BY <1>1, <1>2, <1>7, <2>2 DEF Task, mine
  <2>4. PICK f \in Flushes(P) : P[f].on = x /\ Group(P, Now - 1, f)
    BY <1>2, <2>3 DEF Grouped
  <2>5. f \in Nat /\ (Now - 1) + 1 < f /\ f <= Len(P)
    BY <2>4, <1>2 DEF Group, Flushes
  <2>6. Now - 1 < Now' /\ (Now - 1) + 1 < Now' /\ Now' <= f /\ Busy'
    BY <1>1, <2>5
  <2>7. play'.conf = ~SameConf(F.conf, want.custom, HostOf(x)) /\ play'.json = play.json
    BY <1>5, <1>7 DEF Done
  <2>8. G.json = F.json /\ G.conf = want.custom
    BY <1>4, <1>7
  <2>9. /\ daemon'[x].json # G.json => play'.json
        /\ Applies' /\ ~SameConf(daemon'[x].conf, G.conf, HostOf(x)) => play'.conf
    BY <1>1, <2>1, <2>7, <2>8, SameTrans DEF Applies
  <2> QED
    BY <1>1, <2>3, <2>4, <2>6, <2>9 DEF Pending, Applies
<1>8. CASE P[Now].task \notin {"json", "conf"} \/ ~mine
  <2>1. G.json = F.json /\ G.conf = F.conf
    BY <1>4, <1>8
  <2>2. Fresh(x) => Fresh(x)'
    BY <1>1, <2>1, FreshStays
  <2>3. ASSUME Pending(x), ~Fresh(x) PROVE Pending(x)'
    <3>1. P[Now].task \notin {"json", "conf"}
      BY <1>0, <1>1, <1>8, <2>3, PendingAt DEF mine
    <3>2. play'.json = play.json /\ play'.conf = play.conf
      BY <3>1 DEF Done
    <3>3. P[Now].task # "flush" \/ P[Now].on # x
      <4> SUFFICES ASSUME P[Now].task = "flush", P[Now].on = x PROVE FALSE
        OBVIOUS
      <4>1. ~RestartWhen
        BY DEF Done
      <4>2. Here.kind = KindOf(x)
        BY <1>1 DEF KindOf
      <4>3. \/ play.cont
            \/ Osd(x) /\ play.running # "yes"
            \/ ~play.json /\ ~(play.conf /\ want.confRestart)
        BY <4>1, <4>2 DEF RestartWhen, Osd
      <4>4. /\ Now \in Flushes(P) /\ Now <= Now /\ Now - Now < LookDist(x)
            /\ (Osd(x) => Now - Now < ProbeDist(x))
        BY <1>1, DistIs DEF Flushes
      <4>5. ~play.cont
        BY <1>0, <1>1, <4>4 DEF Looked
      <4>6. Osd(x) => play.running = "yes"
        BY <1>0, <1>1, <4>4 DEF Probed
      <4>7. ~play.json /\ ~(play.conf /\ want.confRestart) => Fresh(x)
        BY <1>1, <2>3 DEF Pending, Fresh, Applies
      <4> QED
        BY <2>3, <4>3, <4>5, <4>6, <4>7
    <3> QED
      BY <1>0, <1>1, <2>1, <2>3, <3>2, <3>3, PendingStays
  <2> QED
    BY <1>3, <2>2, <2>3
<1> QED
  BY <1>6, <1>7, <1>8

LEMMA DoneTypes ==
    ASSUME RInv, Done
    PROVE  Types' /\ Halfway' /\ FailedOnce' /\ Healed'
<1>0. Types /\ Rest /\ Healed
  BY DEF RInv
<1>1. /\ UNCHANGED <<want, daemon, counts>>
      /\ play' \in PlaySet /\ recovered' \in BOOLEAN
      /\ play'.result = (IF play'.todo = <<>> THEN "ok" ELSE "running")
      /\ ~(At("bring_up"))'
  BY <1>0, MovesOn DEF Done
<1>2. Healed'
  BY <1>0 DEF Done
<1>3. Halfway' /\ FailedOnce'
  BY <1>1 DEF Halfway, FailedOnce
<1>4. noout' \in BOOLEAN
  <2>1. noout \in BOOLEAN
    BY <1>0, PlayIs
  <2> QED
    BY <2>1 DEF Done
<1>5. file' \in [DOMAIN HostFiles -> [KindsPresent -> FileSet]]
  <2> DEFINE y == P[Now].on
  <2>1. /\ file \in [DOMAIN HostFiles -> [KindsPresent -> FileSet]]
        /\ want.json \in Jsons /\ want.custom \in Named
    BY <1>0 DEF Types, TypeOK, Jsons, Named
  <2>2. P[Now].on \in Ids
    BY <1>0, MovesOn
  <2>3. HostOf(y) \in DOMAIN HostFiles /\ KindOf(y) \in KindsPresent
    BY <2>2, IdType
  <2>4. CASE P[Now].task = "json"
    <3>1. file' = [file EXCEPT ![HostOf(y)][KindOf(y)].json = want.json]
      BY <2>4 DEF Done
    <3> HIDE DEF y
    <3> QED
      BY <2>1, <2>3, <3>1 DEF FileSet
  <2>5. CASE P[Now].task = "conf"
    <3>1. file' = [file EXCEPT ![HostOf(y)][KindOf(y)].conf = want.custom]
      BY <2>5 DEF Done
    <3> HIDE DEF y
    <3> QED
      BY <2>1, <2>3, <3>1 DEF FileSet
  <2>6. CASE P[Now].task \notin {"json", "conf"}
    BY <2>1, <2>6 DEF Done
  <2> QED
    BY <2>4, <2>5, <2>6
<1>6. TypeOK'
  <2>1. play'.action \in {"none", "upgrade", "reconfigure"}
    BY <1>1 DEF PlaySet
  <2> QED
    BY <1>0, <1>1, <1>4, <2>1 DEF Types, TypeOK, counts, Up
<1>7. Types'
  BY <1>0, <1>1, <1>5, <1>6 DEF Types, counts
<1> QED
  BY <1>2, <1>3, <1>7

LEMMA DoneKeeps ==
    ASSUME RInv, Done
    PROVE  RInv'
<1>1. Rest'
  BY MovesOn DEF RInv
<1> QED
  BY <1>1, DoneTypes, DoneLooked, DoneProbed, DoneChecked, DoneFlagged, DoneUnflagged,
     DoneUpgraded, DoneFilesWritten, DoneReconfigured, DoneUpToDate DEF RInv

LEMMA FailsIsFailing ==
    ASSUME Types, TaskFails
    PROVE  Failing
<1>1. Busy /\ Fail /\ UNCHANGED <<want, file, daemon, noout, recovered, plays, edits>>
  BY DEF TaskFails, Busy
<1>2. faults' = faults + 1 /\ faults < MaxFaults
  BY DEF TaskFails, Fault
<1>3. faults' \in 0 .. MaxFaults
  BY <1>2, PlayIs, RolloutAssumption DEF RolloutAssumption
<1> QED
  BY <1>1, <1>3, PlayIs, HealedSame DEF Failing

LEMMA FailingKeeps ==
    ASSUME RInv, Failing
    PROVE  RInv'
<1>0. Types /\ Healed
  BY DEF RInv
<1>1. /\ play' = [play EXCEPT !.todo = <<>>, !.result = "failed", !.everFailed = TRUE]
      /\ UNCHANGED <<want, file, daemon, plays, edits>>
      /\ noout' \in BOOLEAN /\ recovered' \in BOOLEAN /\ faults' \in 0 .. MaxFaults /\ Healed'
  BY <1>0 DEF Failing, Fail
<1>2. /\ play' \in PlaySet /\ play'.todo = <<>> /\ play'.result = "failed"
      /\ play'.everFailed = TRUE /\ play'.action = play.action
  <2>1. <<>> \in Seq(TodoSet) /\ play \in PlaySet
    BY <1>0 DEF Types
  <2>2. play' = [play EXCEPT !.todo = <<>>, !.result = "failed", !.everFailed = TRUE]
    BY <1>1
  <2> QED
    BY <2>1, <2>2 DEF PlaySet
<1>3. ~Busy' /\ ~(At("flush"))' /\ ~(At("bring_up"))'
  BY <1>2 DEF Busy, At
<1>4. Rest' /\ Looked' /\ Probed' /\ Checked' /\ Flagged' /\ Halfway'
  BY <1>3 DEF Rest, Looked, Probed, Checked, Flagged, Halfway
<1>5. Unflagged' /\ Upgraded' /\ FilesWritten' /\ Reconfigured' /\ UpToDate' /\ FailedOnce'
  <2>1. UpToDate'
    BY <1>3 DEF UpToDate
  <2> QED
    BY <1>2, <2>1 DEF Unflagged, Upgraded, FilesWritten, Reconfigured, FailedOnce
<1>6. TypeOK'
  BY <1>0, <1>1, <1>2, <1>3, PlayIs DEF Types, TypeOK, Up
<1>7. Types'
  BY <1>0, <1>1, <1>2, <1>6 DEF Types
<1> QED
  BY <1>1, <1>4, <1>5, <1>7 DEF RInv

-----------------------------------------------------------------------------
(* The cluster                                                              *)

(* A daemon that is up goes on or goes down; if it is started again it reads    *)
(* its files.                                                               *)
Stirs(id) ==
    /\ Up(id)
    /\ \E d \in DaemonSet :
          /\ daemon' = [daemon EXCEPT ![id] = d] /\ d.image = daemon[id].image
          /\ d.state # "absent"
          /\ \/ d.json = daemon[id].json /\ d.conf = daemon[id].conf
             \/ /\ d.json = file[HostOf(id)][KindOf(id)].json
                /\ d.conf = file[HostOf(id)][KindOf(id)].conf
    /\ UNCHANGED <<want, file, noout, play, plays, edits>>
    /\ recovered' \in BOOLEAN /\ (recovered => recovered') /\ faults' \in 0 .. MaxFaults
    /\ Healed => Healed'

LEMMA JoinStirs ==
    ASSUME Types, NEW id \in Ids, Join(id)
    PROVE  Stirs(id)
<1>1. daemon \in [Ids -> DaemonSet] /\ daemon[id].state = "starting"
  BY DEF Types, Join
<1> DEFINE d == [daemon[id] EXCEPT !.state = "running"]
<1>2. d \in DaemonSet /\ d.image = daemon[id].image /\ d.json = daemon[id].json
      /\ d.conf = daemon[id].conf /\ d.state # "absent"
  BY <1>1 DEF DaemonSet, States
<1>3. daemon' = [daemon EXCEPT ![id] = d]
  BY DEF Join
<1>4. UNCHANGED <<want, file, noout, play, counts>> /\ recovered' = (recovered \/ Healthy')
  BY DEF Join
<1>5. Healed' /\ (recovered => recovered') /\ recovered' \in BOOLEAN
  BY <1>4, PlayIs DEF Healed
<1> HIDE DEF d
<1> QED
  BY <1>1, <1>2, <1>3, <1>4, <1>5, PlayIs DEF Stirs, Up, counts

LEMMA GoesDownStirs ==
    ASSUME Types, NEW id \in Ids, GoesDown(id), Healed
    PROVE  Stirs(id)
<1>1. daemon \in [Ids -> DaemonSet] /\ Up(id)
  BY DEF Types, GoesDown
<1>2. PICK d \in {Started(id, daemon[id].image), [daemon[id] EXCEPT !.state = "exited"]} :
          daemon' = [daemon EXCEPT ![id] = d]
  BY DEF GoesDown
<1>3. /\ daemon[id] \in DaemonSet /\ daemon[id].image \in Images
      /\ file[HostOf(id)][KindOf(id)].json \in Jsons
      /\ file[HostOf(id)][KindOf(id)].conf \in Named
  BY DaemonIs
<1>4. /\ d \in DaemonSet /\ d.image = daemon[id].image /\ d.state \in {"starting", "exited"}
      /\ \/ d.json = daemon[id].json /\ d.conf = daemon[id].conf
         \/ /\ d.json = file[HostOf(id)][KindOf(id)].json
            /\ d.conf = file[HostOf(id)][KindOf(id)].conf
  <2>1. CASE d = Started(id, daemon[id].image)
    BY <1>3, <2>1 DEF Started, DaemonSet, States, HostOf, KindOf
  <2>2. CASE d = [daemon[id] EXCEPT !.state = "exited"]
    BY <1>3, <2>2 DEF DaemonSet, States
  <2> QED
    BY <1>2, <2>1, <2>2
<1>5. /\ UNCHANGED <<want, file, noout, play, recovered, plays, edits>>
      /\ faults' = faults + 1 /\ faults < MaxFaults
  BY DEF GoesDown, Fault
<1>6. faults' \in 0 .. MaxFaults /\ recovered' \in BOOLEAN
  BY <1>5, PlayIs, RolloutAssumption DEF RolloutAssumption
<1>7. Healed'
  <2>1. daemon'[id].state # "running"
    BY <1>1, <1>2, <1>4
  <2> QED
    BY <2>1 DEF Healed, Healthy
<1> QED
  BY <1>1, <1>2, <1>4, <1>5, <1>6, <1>7 DEF Stirs

LEMMA StirsKeeps ==
    ASSUME RInv, NEW id \in Ids, Stirs(id)
    PROVE  RInv'
<1>0. /\ Types /\ Rest /\ Looked /\ Probed /\ Checked /\ Flagged /\ Halfway /\ Unflagged
      /\ Healed /\ Upgraded /\ FilesWritten /\ Reconfigured /\ UpToDate /\ FailedOnce
  BY DEF RInv
<1>1. /\ UNCHANGED <<want, file, noout, play, plays, edits>>
      /\ recovered' \in BOOLEAN /\ (recovered => recovered') /\ faults' \in 0 .. MaxFaults
      /\ Healed' /\ Up(id) /\ play'.want = play.want
  BY <1>0 DEF Stirs
<1>2. PICK d \in DaemonSet :
          /\ daemon' = [daemon EXCEPT ![id] = d] /\ d.image = daemon[id].image
          /\ d.state # "absent"
          /\ \/ d.json = daemon[id].json /\ d.conf = daemon[id].conf
             \/ /\ d.json = file[HostOf(id)][KindOf(id)].json
                /\ d.conf = file[HostOf(id)][KindOf(id)].conf
  BY DEF Stirs
<1>3. daemon \in [Ids -> DaemonSet] /\ daemon' \in [Ids -> DaemonSet]
  BY <1>0, <1>2 DEF Types
<1>4. /\ daemon'[id] = d /\ \A x \in Ids : x # id => daemon'[x] = daemon[x]
      /\ \A x \in Ids : daemon'[x].image = daemon[x].image
      /\ \A x \in Ids : ~Up(x) => x # id
  BY <1>1, <1>2, <1>3
<1>5. P' = P /\ Now' = Now /\ Busy' = Busy
  BY <1>1 DEF P, Now, Busy
<1>6. \A x \in Ids : Fresh(x) => Fresh(x)'
  <2> TAKE x \in Ids
  <2> SUFFICES ASSUME Fresh(x) PROVE Fresh(x)'
    OBVIOUS
  <2>1. CASE daemon'[x].json = daemon[x].json /\ daemon'[x].conf = daemon[x].conf
    BY <1>1, <2>1, FreshStays
  <2>2. CASE /\ daemon'[x].json = file[HostOf(x)][KindOf(x)].json
             /\ daemon'[x].conf = file[HostOf(x)][KindOf(x)].conf
    BY <1>1, <2>2 DEF Fresh, SameConf
  <2> QED
    BY <1>2, <1>4, <2>1, <2>2
<1>7. \A x \in Ids : Pending(x) => Pending(x)' \/ Fresh(x)'
  <2> TAKE x \in Ids
  <2> SUFFICES ASSUME Pending(x) PROVE Pending(x)' \/ Fresh(x)'
    OBVIOUS
  <2>1. CASE daemon'[x].json = daemon[x].json /\ daemon'[x].conf = daemon[x].conf
    <3>1. Busy /\ Busy'
      BY <1>5 DEF Pending
    <3>2. Now' <= Len(P) /\ Now' \in {Now, Now + 1} /\ Now' # Now + 1
      <4>1. Now \in 1 .. Len(P) /\ Len(P) \in Nat
        BY <1>0, <3>1, Place, ThePlay
      <4> QED
        BY <1>5, <4>1
    <3> QED
      BY <1>0, <1>1, <1>5, <2>1, <3>1, <3>2, PendingStays
  <2>2. CASE /\ daemon'[x].json = file[HostOf(x)][KindOf(x)].json
             /\ daemon'[x].conf = file[HostOf(x)][KindOf(x)].conf
    BY <1>1, <2>2 DEF Fresh, SameConf
  <2> QED
    BY <1>2, <1>4, <2>1, <2>2
<1>8. \A x \in Ids : ~Up(x) => ~Up(x)'
  BY <1>4 DEF Up
<1>9. \A f \in Flushes(P) : P[f].on \in Ids
  BY <1>0, ThePlay DEF Flushes
<1>10. Rest'
  BY <1>0, <1>1, <1>5 DEF Rest, Busy
<1>11. Looked'
  BY <1>0, <1>1, <1>4, <1>5, <1>6, <1>7, <1>8, <1>9 DEF Looked
<1>12. Probed'
  BY <1>0, <1>1, <1>5, <1>8, <1>9 DEF Probed
<1>13. Checked' /\ Flagged' /\ Unflagged' /\ FilesWritten' /\ FailedOnce'
  <2>1. (At("bring_up"))' = At("bring_up") /\ (At("flush"))' = At("flush")
    BY <1>1 DEF At
  <2> QED
    BY <1>0, <1>1, <1>5, <2>1
       DEF Checked, Flagged, Unflagged, FilesWritten, FailedOnce, FlagsWhen
<1>14. Halfway'
  <2> SUFFICES ASSUME (At("bring_up"))'
               PROVE  LET x == Head(play.todo).on IN
                      /\ daemon'[x].state \in {"absent", "exited"}
                      /\ daemon'[x].state = "exited" => daemon'[x].image = want.image
    BY <1>1 DEF Halfway
  <2>1. At("bring_up") /\ Busy
    BY <1>1 DEF At, Busy
  <2>2. Head(play.todo).on \in Ids
    BY <1>0, <2>1, Place
  <2>3. LET x == Head(play.todo).on IN
        /\ daemon[x].state \in {"absent", "exited"}
        /\ daemon[x].state = "exited" => daemon[x].image = want.image
    BY <1>0, <2>1 DEF Halfway
  <2>4. Head(play.todo).on # id
    BY <1>1, <2>3 DEF Up
  <2> QED
    BY <1>4, <2>2, <2>3, <2>4
<1>15. Upgraded'
  BY <1>0, <1>1, <1>4, <1>5, <1>9 DEF Upgraded
<1>16. Reconfigured'
  BY <1>0, <1>1, <1>5, <1>6, <1>9 DEF Reconfigured
<1>17. UpToDate'
  <2> SUFFICES ASSUME Busy, NEW x \in Ids \ play.stale
               PROVE  Fresh(x)' \/ ~Up(x)' \/ daemon'[x].image # want.image \/ Pending(x)'
    BY <1>1, <1>5 DEF UpToDate
  <2>1. Fresh(x) \/ ~Up(x) \/ daemon[x].image # want.image \/ Pending(x)
    BY <1>0 DEF UpToDate
  <2> QED
    BY <1>4, <1>6, <1>7, <1>8, <2>1
<1>18. TypeOK'
  <2>1. \A x \in Ids : /\ daemon'[x].state \in States /\ daemon'[x].image \in Images
                       /\ daemon'[x].json \in Jsons /\ daemon'[x].conf \in Named
    BY <1>3 DEF DaemonSet
  <2>2. (At("bring_up"))' => ~Up(Here.id)'
    <3> SUFFICES ASSUME At("bring_up") PROVE Here.id \in Ids /\ ~Up(Here.id)
      BY <1>1, <1>8 DEF At, Here
    <3>1. Busy
      BY DEF At, Busy
    <3> QED
      BY <1>0, <3>1, Place DEF Types, TypeOK
  <2>3. Here' = Here
    BY <1>1 DEF Here
  <2> QED
    BY <1>0, <1>1, <2>1, <2>2, <2>3, PlayIs DEF Types, TypeOK, Busy, Images, Jsons, Named
<1>19. Types'
  BY <1>0, <1>1, <1>3, <1>4, <1>18 DEF Types
<1> QED
  BY <1>1, <1>10, <1>11, <1>12, <1>13, <1>14, <1>15, <1>16, <1>17, <1>19 DEF RInv

-----------------------------------------------------------------------------
(* A restart                                                                *)

LEMMA TakesDown ==
    ASSUME Types, Rest, TakeDown
    PROVE  LET x == P[Now].on IN
           /\ Busy /\ ~At("bring_up") /\ P[Now].task = "flush" /\ RestartWhen
           /\ x \in Ids /\ Here.id = x /\ Here.kind = KindOf(x)
           /\ daemon' = [daemon EXCEPT ![x].state = IF Differs(x) THEN "absent" ELSE "exited"]
           /\ recovered' = FALSE /\ UNCHANGED <<want, file, noout, counts>>
           /\ P' = P /\ Now' = Now /\ Busy' /\ Rest' /\ play' \in PlaySet
           /\ Head(play'.todo) = Task("bring_up", x)
           /\ play' = [play EXCEPT !.todo = play'.todo]
<1> DEFINE x == P[Now].on
           b == Task("bring_up", x)
           s == <<b>> \o Tail(play.todo)
<1>1. Busy /\ At("flush") /\ RestartWhen
  BY DEF TakeDown, At, Busy
<1>2. /\ P[Now].task = "flush" /\ ~At("bring_up") /\ Here = Of(x) /\ Here.id = x /\ x \in Ids
      /\ Now \in 1 .. Len(P) /\ play.want = want
  BY <1>1, Place DEF TaskNames
<1>3. /\ play.todo \in Seq(TodoSet) /\ Len(play.todo) \in Nat /\ Len(play.todo) > 0
      /\ Len(P) \in Nat /\ DOMAIN play.todo = 1 .. Len(play.todo)
  BY <1>1, Todo, ThePlay
<1>4. b \in TodoSet
  BY <1>2 DEF Task, TodoSet
<1>5. Tasks(<<"bring_up">>, Here) = <<b>>
  BY <1>2 DEF Tasks, Task
<1>6. play' = [play EXCEPT !.todo = s]
  BY <1>5 DEF TakeDown
<1>7. /\ s \in Seq(TodoSet) /\ Len(s) = Len(play.todo) /\ s[1] = b /\ Head(s) = b /\ s # <<>>
      /\ DOMAIN s = 1 .. Len(play.todo)
      /\ \A i \in DOMAIN play.todo : i > 1 => s[i] = play.todo[i]
  <2> HIDE DEF b
  <2>1. Tail(play.todo) \in Seq(TodoSet) /\ Len(Tail(play.todo)) = Len(play.todo) - 1
    BY <1>3
  <2>2. <<b>> \in Seq(TodoSet) /\ Len(<<b>>) = 1 /\ <<b>>[1] = b
    BY <1>4
  <2>3. s \in Seq(TodoSet) /\ Len(s) = Len(play.todo) /\ s[1] = b
    BY <1>3, <2>1, <2>2
  <2>4. \A i \in 1 .. Len(play.todo) : i > 1 => s[i] = Tail(play.todo)[i - 1]
    BY <1>3, <2>1, <2>2
  <2>5. \A i \in 1 .. Len(play.todo) : i > 1 => Tail(play.todo)[i - 1] = play.todo[i]
    BY <1>3
  <2> HIDE DEF s
  <2> QED
    BY <1>3, <2>3, <2>4, <2>5
<1> HIDE DEF s, b
<1>8. /\ play' \in PlaySet /\ play'.todo = s /\ play'.kinds = play.kinds
      /\ play'.want = play.want
  BY <1>6, <1>7 DEF Types, PlaySet
<1>9. P' = P /\ Busy'
  BY <1>7, <1>8 DEF P, Busy
<1>10. Now' = Now
  BY <1>7, <1>8, <1>9 DEF Now
<1>11. UNCHANGED <<want, file, noout, counts>> /\ recovered' = FALSE
  BY DEF TakeDown
<1>12. Rest'
  <2>1. /\ Len(play.todo) <= Len(P)
        /\ \A i \in DOMAIN play.todo : i > 1 => play.todo[i] = P[Now - 1 + i]
    BY <1>1 DEF Rest
  <2>2. \A i \in DOMAIN s : i > 1 => s[i] = P[Now - 1 + i]
    BY <1>3, <1>7, <2>1
  <2>3. play'.want = want' /\ Len(play'.todo) <= Len(P') /\ play'.todo[1] = Task("bring_up", P'[Now'].on)
    BY <1>2, <1>7, <1>8, <1>9, <1>10, <1>11, <2>1 DEF b
  <2> QED
    BY <1>2, <1>8, <1>9, <1>10, <2>2, <2>3 DEF Rest
<1>13. daemon' = [daemon EXCEPT ![x].state = IF Differs(x) THEN "absent" ELSE "exited"]
  BY <1>2 DEF TakeDown
<1> QED
  BY <1>1, <1>2, <1>6, <1>7, <1>8, <1>9, <1>10, <1>11, <1>12, <1>13 DEF KindOf, b

LEMMA TakeDownKeeps ==
    ASSUME RInv, TakeDown
    PROVE  RInv'
<1> PICK x : x = P[Now].on
  OBVIOUS
<1>0. /\ Types /\ Rest /\ Looked /\ Probed /\ Checked /\ Flagged /\ Halfway /\ Unflagged
      /\ Healed /\ Upgraded /\ FilesWritten /\ Reconfigured /\ UpToDate /\ FailedOnce
  BY DEF RInv
<1>1. /\ Busy /\ ~At("bring_up") /\ P[Now].task = "flush" /\ RestartWhen
      /\ x \in Ids /\ Here.id = x /\ Here.kind = KindOf(x)
      /\ daemon' = [daemon EXCEPT ![x].state = IF Differs(x) THEN "absent" ELSE "exited"]
      /\ recovered' = FALSE /\ UNCHANGED <<want, file, noout, counts>>
      /\ P' = P /\ Now' = Now /\ Busy' /\ Rest' /\ play' \in PlaySet
      /\ Head(play'.todo) = Task("bring_up", x)
      /\ play' = [play EXCEPT !.todo = play'.todo]
  BY <1>0, TakesDown
<1>2. /\ play'.result = play.result /\ play'.kinds = play.kinds /\ play'.action = play.action
      /\ play'.want = play.want /\ play'.everFailed = play.everFailed
      /\ play'.stale = play.stale /\ play'.down = play.down /\ play'.differed = play.differed
      /\ play'.json = play.json /\ play'.conf = play.conf /\ play'.cont = play.cont
      /\ play'.running = play.running
  <2>1. play \in PlaySet
    BY <1>0 DEF Types
  <2> QED
    BY <2>1, <1>1 DEF PlaySet
<1>3. /\ want' = want /\ file' = file /\ noout' = noout /\ UNCHANGED counts
  BY <1>1
<1>4. (At("bring_up"))' /\ ~(At("flush"))'
  BY <1>1 DEF At, Busy, Task
<1>5. Now \in DOMAIN P /\ Now \in 1 .. Len(P) /\ Len(P) \in Nat
  BY <1>0, <1>1, Place, ThePlay
<1>6. daemon \in [Ids -> DaemonSet] /\ daemon' \in [Ids -> DaemonSet]
  <2>1. daemon \in [Ids -> DaemonSet]
    BY <1>0 DEF Types
  <2> QED
    BY <2>1, <1>1 DEF DaemonSet, States
<1>7. /\ \A y \in Ids : y # x => daemon'[y] = daemon[y]
      /\ \A y \in Ids : /\ daemon'[y].image = daemon[y].image /\ daemon'[y].json = daemon[y].json
                        /\ daemon'[y].conf = daemon[y].conf
      /\ daemon'[x].state = IF Differs(x) THEN "absent" ELSE "exited"
  BY <1>1, <1>6 DEF DaemonSet
<1>8. ~Up(x)' /\ \A y \in Ids : ~Up(y) => ~Up(y)'
  BY <1>7 DEF Up
<1>9. \A y \in Ids : Fresh(y) => Fresh(y)'
  BY <1>2, <1>3, <1>7, FreshStays
<1>10. \A y \in Ids : Pending(y) => Pending(y)'
  <2> SUFFICES ASSUME NEW y \in Ids, Pending(y) PROVE Pending(y)'
    OBVIOUS
  <2>1. Now' <= Len(P) /\ Now' \in {Now, Now + 1} /\ Now' # Now + 1
    <3> HIDE DEF Now, P
    <3> QED
      BY <1>1, <1>5
  <2> QED
    BY <1>0, <1>1, <1>2, <1>3, <1>7, <2>1, PendingStays
<1>11. \A f \in Flushes(P) : P[f].on \in Ids /\ f \in Nat
  BY <1>0, ThePlay DEF Flushes
<1>12. Looked'
  <2> SUFFICES ASSUME NEW f \in Flushes(P), Now <= f, f - Now < LookDist(P[f].on)
               PROVE  LET y == P[f].on IN
                      /\ ~play.cont => daemon'[y].image = want.image
                      /\ play.cont => y \in play.differed
                      /\ play.cont => ~Up(y)' \/ daemon'[y].image # want.image
                      /\ ~play.cont /\ y \notin play.stale => Fresh(y)' \/ Pending(y)'
    BY <1>1, <1>2, <1>3 DEF Looked
  <2> QED
    BY <1>0, <1>1, <1>7, <1>8, <1>9, <1>10, <1>11 DEF Looked
<1>13. Probed'
  BY <1>0, <1>1, <1>2, <1>8, <1>11 DEF Probed
<1>14. Checked' /\ Flagged' /\ FilesWritten' /\ FailedOnce'
  BY <1>0, <1>1, <1>2, <1>3, <1>4 DEF Checked, Flagged, FilesWritten, FailedOnce
<1>15. Halfway'
  <2>1. Head(play'.todo).on = x
    BY <1>1 DEF Task
  <2>2. daemon'[x].state \in {"absent", "exited"}
    BY <1>7
  <2>3. daemon'[x].state = "exited" => daemon'[x].image = want.image
    BY <1>1, <1>7 DEF Differs
  <2> QED
    BY <2>1, <2>2, <2>3, <1>3 DEF Halfway
<1>16. Unflagged'
  BY <1>0, <1>1, <1>2, <1>3 DEF Unflagged, FlagsWhen
<1>17. Healed'
  <2>1. daemon'[x].state # "running"
    BY <1>7
  <2> QED
    BY <1>1, <2>1 DEF Healed, Healthy
<1>18. Upgraded'
  BY <1>0, <1>1, <1>2, <1>7, <1>11 DEF Upgraded
<1>19. Reconfigured'
  BY <1>0, <1>1, <1>2, <1>9, <1>11 DEF Reconfigured
<1>20. UpToDate'
  BY <1>0, <1>1, <1>2, <1>3, <1>7, <1>8, <1>9, <1>10 DEF UpToDate
<1>21. TypeOK'
  <2>1. \A y \in Ids : /\ daemon'[y].state \in States /\ daemon'[y].image \in Images
                       /\ daemon'[y].json \in Jsons /\ daemon'[y].conf \in Named
    BY <1>6 DEF DaemonSet
  <2>2. ~Up(Here.id)'
    <3>1. Here' = Of(x)
      BY <1>1 DEF Here, Task
    <3>2. Here.id' = x
      BY <1>1, <3>1, IdType
    <3> QED
      BY <3>2, <1>8
  <2>3. play'.action \in {"none", "upgrade", "reconfigure"} /\ play'.result = "running"
        /\ recovered' \in BOOLEAN /\ noout' \in BOOLEAN
    BY <1>0, <1>1, <1>2, <1>3, PlayIs
  <2> QED
    BY <1>0, <1>1, <1>3, <2>1, <2>2, <2>3 DEF Types, TypeOK, Busy, counts, Images, Jsons, Named
<1>22. Types'
  BY <1>0, <1>1, <1>3, <1>6, <1>7, <1>21 DEF Types, counts
<1> QED
  BY <1>1, <1>12, <1>13, <1>14, <1>15, <1>16, <1>17, <1>18, <1>19, <1>20, <1>22 DEF RInv

LEMMA BringUpKeeps ==
    ASSUME RInv, BringUp
    PROVE  RInv'
<1> PICK x : x = P[Now].on
  OBVIOUS
<1>0. /\ Types /\ Rest /\ Looked /\ Probed /\ Checked /\ Flagged /\ Halfway /\ Unflagged
      /\ Healed /\ Upgraded /\ FilesWritten /\ Reconfigured /\ UpToDate /\ FailedOnce
  BY DEF RInv
<1>1. /\ Busy /\ At("bring_up") /\ Register(play)
      /\ UNCHANGED <<want, file, noout, recovered, counts>>
  BY DEF BringUp, At, Busy
<1>2. /\ P[Now].task = "flush" /\ Head(play.todo).on = x /\ Here.id = x /\ x \in Ids
      /\ Now \in DOMAIN P /\ Now \in 1 .. Len(P) /\ play.want = want /\ Len(P) \in Nat
  BY <1>0, <1>1, Place, ThePlay
<1>3. /\ play' \in PlaySet /\ play'.todo = Tail(play.todo)
      /\ play'.result = IF play'.todo = <<>> THEN "ok" ELSE play.result
      /\ play'.kinds = play.kinds /\ play'.want = play.want /\ play'.action = play.action
      /\ play'.everFailed = play.everFailed /\ play'.down = play.down
      /\ play'.stale = play.stale /\ play'.differed = play.differed /\ play'.json = play.json /\ play'.conf = play.conf
      /\ play'.cont = play.cont /\ play'.running = play.running
  <2>1. play \in PlaySet
    BY <1>0 DEF Types
  <2> QED
    BY <2>1, <1>0, <1>1, Registers
<1>4. /\ want' = want /\ file' = file
      /\ noout' = noout /\ recovered' = recovered /\ UNCHANGED counts
  BY <1>1
<1>5. /\ P' = P /\ Now' = Now + 1 /\ Rest' /\ (Busy' <=> Now < Len(P))
      /\ (Busy' => Head(play'.todo) = P[Now + 1] /\ ~(At("bring_up"))')
  BY <1>0, <1>1, <1>3, <1>4, Onward
<1>6. ~(At("bring_up"))' /\ ((At("flush"))' => Busy')
  BY <1>5 DEF At, Busy
<1>7. daemon' = [daemon EXCEPT ![x] = Started(x, want.image)]
  <2>1. daemon' = [daemon EXCEPT ![x] = Started(x, IF daemon[x].state = "absent" THEN want.image
                                                   ELSE daemon[x].image)]
    BY <1>2 DEF BringUp
  <2>2. daemon[x].state # "absent" => daemon[x].image = want.image
    BY <1>0, <1>1, <1>2 DEF Halfway
  <2> QED
    BY <2>1, <2>2
<1>8. /\ daemon \in [Ids -> DaemonSet] /\ daemon' \in [Ids -> DaemonSet]
      /\ daemon'[x].image = want.image /\ daemon'[x].state = "starting"
      /\ daemon'[x].json = file[HostOf(x)][KindOf(x)].json
      /\ daemon'[x].conf = file[HostOf(x)][KindOf(x)].conf
      /\ \A y \in Ids : y # x => daemon'[y] = daemon[y]
  <2>1. /\ daemon \in [Ids -> DaemonSet] /\ want.image \in Images
        /\ file[HostOf(x)][KindOf(x)].json \in Jsons
        /\ file[HostOf(x)][KindOf(x)].conf \in Named
    BY <1>0, <1>2, DaemonIs DEF Types, TypeOK, Images
  <2>2. Started(x, want.image) \in DaemonSet
    BY <2>1 DEF Started, DaemonSet, States, HostOf, KindOf
  <2>3. /\ Started(x, want.image).image = want.image /\ Started(x, want.image).state = "starting"
        /\ Started(x, want.image).json = file[HostOf(x)][KindOf(x)].json
        /\ Started(x, want.image).conf = file[HostOf(x)][KindOf(x)].conf
    BY DEF Started, HostOf, KindOf
  <2> QED
    BY <1>2, <1>7, <2>1, <2>2, <2>3
<1>9. Fresh(x)' /\ \A y \in Ids : Fresh(y) => Fresh(y)'
  <2>1. Fresh(x)'
    BY <1>4, <1>8 DEF Fresh, SameConf
  <2>2. \A y \in Ids : y # x /\ Fresh(y) => Fresh(y)'
    BY <1>3, <1>4, <1>8, FreshStays
  <2> QED
    BY <2>1, <2>2
<1>10. \A y \in Ids : y # x /\ Pending(y) => Pending(y)'
  <2> SUFFICES ASSUME NEW y \in Ids, y # x, Pending(y) PROVE Pending(y)'
    OBVIOUS
  <2>1. Busy' <=> Now' <= Len(P)
    <3> HIDE DEF Now, P
    <3> QED
      BY <1>2, <1>5
  <2>2. P[Now].on # y
    OBVIOUS
  <2> QED
    BY <1>0, <1>1, <1>3, <1>4, <1>5, <1>8, <2>1, <2>2, PendingStays
<1>11. \A f \in Flushes(P) : P[f].on \in Ids /\ f \in Nat
  BY <1>0, ThePlay DEF Flushes
<1>12. Looked' /\ Probed' /\ Checked'
  <2>1. \A f \in Flushes(P) : Now + 1 <= f =>
            /\ ~(f - (Now + 1) < LookDist(P[f].on))
            /\ Osd(P[f].on) => ~(f - (Now + 1) < ProbeDist(P[f].on))
            /\ ~Mds(P[f].on) => ~(f - (Now + 1) < HealthDist(P[f].on))
    <3> TAKE f \in Flushes(P)
    <3> HAVE Now + 1 <= f
    <3>1. ~Mds(P[f].on) /\ f - (Now + 1) < HealthDist(P[f].on) => P[Now].task # "flush"
      BY <1>0, <1>1, Ahead
    <3>2. Osd(P[f].on) /\ f - (Now + 1) < ProbeDist(P[f].on) => P[Now].task # "flush"
      BY <1>0, <1>1, Ahead
    <3>3. f - (Now + 1) < LookDist(P[f].on) => P[Now].task # "flush"
      BY <1>0, <1>1, Ahead
    <3> QED
      BY <1>2, <3>1, <3>2, <3>3
  <2>2. Looked'
    BY <1>5, <2>1 DEF Looked
  <2>3. Probed'
    BY <1>5, <2>1 DEF Probed
  <2>4. Checked'
    BY <1>5, <2>1 DEF Checked
  <2> QED
    BY <2>2, <2>3, <2>4
<1>13. Flagged'
  <2> SUFFICES ASSUME (At("flush"))', Osd(Head(play'.todo).on) PROVE FALSE
    BY DEF Flagged
  <2>1. Now + 1 \in DOMAIN P /\ Now + 1 <= Now + 1
    BY <1>0, <1>2, <1>5, <1>6, ThePlay
  <2>2. Now + 1 \in Flushes(P) /\ Osd(P[Now + 1].on)
    BY <1>5, <1>6, <2>1 DEF At, Flushes
  <2>3. P[Now].task = "set"
    BY <1>0, <1>1, <2>1, <2>2, Ahead
  <2> QED
    BY <1>2, <2>3
<1>14. Halfway' /\ FailedOnce'
  BY <1>0, <1>1, <1>3, <1>6, PlayIs DEF Halfway, FailedOnce
<1>15. FilesWritten'
  <2>1. play.result = "running"
    BY <1>0, <1>1, PlayIs
  <2>2. \A i \in DOMAIN P : i < Now + 1 => i < Now \/ i = Now
    <3>1. DOMAIN P = 1 .. Len(P)
      BY <1>0, ThePlay
    <3> HIDE DEF P, Now
    <3> QED
      BY <3>1, <1>2
  <2>3. \A i \in DOMAIN P : i < Now + 1 =>
            /\ P[i].task = "json" => file[HostOf(P[i].on)][KindOf(P[i].on)].json = play.want.json
            /\ P[i].task = "conf" => file[HostOf(P[i].on)][KindOf(P[i].on)].conf = play.want.custom
    BY <1>0, <1>2, <2>1, <2>2 DEF FilesWritten
  <2> QED
    BY <1>3, <1>4, <1>5, <2>3 DEF FilesWritten
<1>16. Unflagged'
  <2> SUFFICES ASSUME noout, ~play.everFailed
               PROVE  /\ Busy' /\ FlagsWhen'
                      /\ Now + 1 > 2 /\ P[(Now + 1) - 2].task = "set"
    BY <1>3, <1>4, <1>5 DEF Unflagged
  <2>1. Now > 1 /\ P[Now - 1].task = "set" /\ Now + 1 <= Len(P) /\ FlagsWhen
    BY <1>0, <1>1, <1>2, FlagsSet
  <2>2. FlagsWhen'
    BY <1>3, <2>1 DEF FlagsWhen
  <2>3. Now < Len(P) /\ Now + 1 > 2 /\ (Now + 1) - 2 = Now - 1
    <3> HIDE DEF P, Now
    <3> QED
      BY <1>2, <2>1
  <2> QED
    BY <1>5, <2>1, <2>2, <2>3
<1>17. Healed'
  <2>1. daemon'[x].state # "running"
    BY <1>8
  <2> QED
    BY <1>2, <2>1 DEF Healed, Healthy
<1>18. \A f \in Flushes(P) : f < Now + 1 => f < Now \/ P[f].on = x
  <2>1. \A f \in Flushes(P) : f < Now + 1 => f < Now \/ f = Now
    <3> HIDE DEF P, Now
    <3> QED
      BY <1>2, <1>11
  <2> QED
    BY <2>1
<1>19. Upgraded'
  <2> SUFFICES ASSUME play.action = "upgrade", NEW f \in Flushes(P), f < Now + 1
               PROVE  P[f].on \in play.down \/ daemon'[P[f].on].image = want.image
    BY <1>2, <1>3, <1>4, <1>5 DEF Upgraded
  <2>1. CASE P[f].on = x
    BY <1>8, <2>1
  <2>2. CASE P[f].on # x
    <3>1. play.result # "failed"
      BY <1>0, <1>1, PlayIs
    <3>2. f < Now
      BY <1>18, <2>2
    <3> QED
      BY <1>0, <1>2, <1>8, <1>11, <2>2, <3>1, <3>2 DEF Upgraded
  <2> QED
    BY <2>1, <2>2
<1>20. Reconfigured'
  <2> SUFFICES ASSUME play.action = "reconfigure", NEW f \in Flushes(P), f < Now + 1
               PROVE  P[f].on \in play.differed \cup play.down \cup play.stale \/ Fresh(P[f].on)'
    BY <1>3, <1>5 DEF Reconfigured
  <2> PICK y \in Ids : y = P[f].on
    BY <1>11
  <2>1. Fresh(y)' => Fresh(P[f].on)'
    BY <1>5
  <2>2. CASE y = x
    BY <1>9, <2>1, <2>2
  <2>3. CASE y # x
    <3>1. y \in play.differed \cup play.down \cup play.stale \/ Fresh(y)
      BY <1>0, <1>1, <1>18, <2>3, PlayIs DEF Reconfigured
    <3> QED
      BY <1>9, <2>1, <3>1
  <2> QED
    BY <2>2, <2>3
<1>21. UpToDate'
  <2> SUFFICES ASSUME NEW y \in Ids \ play.stale
               PROVE  Fresh(y)' \/ ~Up(y)' \/ daemon'[y].image # want.image \/ Pending(y)'
    BY <1>3, <1>4 DEF UpToDate
  <2>1. CASE y = x
    BY <1>9, <2>1
  <2>2. CASE y # x
    <3>1. Up(y)' => Up(y)
      BY <1>8, <2>2 DEF Up
    <3> QED
      BY <1>0, <1>1, <1>8, <1>9, <1>10, <2>2, <3>1 DEF UpToDate
  <2> QED
    BY <2>1, <2>2
<1>22. TypeOK'
  <2>1. \A y \in Ids : /\ daemon'[y].state \in States /\ daemon'[y].image \in Images
                       /\ daemon'[y].json \in Jsons /\ daemon'[y].conf \in Named
    BY <1>8 DEF DaemonSet
  <2>2. play'.action \in {"none", "upgrade", "reconfigure"}
        /\ play'.result = (IF play'.todo = <<>> THEN "ok" ELSE "running")
    BY <1>0, <1>1, <1>3, PlayIs
  <2> QED
    BY <1>0, <1>4, <1>6, <2>1, <2>2 DEF Types, TypeOK, counts, Images, Jsons, Named
<1>23. Types'
  BY <1>0, <1>3, <1>4, <1>8, <1>22 DEF Types, counts
<1> QED
  BY <1>5, <1>12, <1>13, <1>14, <1>15, <1>16, <1>17, <1>19, <1>20, <1>21, <1>23 DEF RInv

-----------------------------------------------------------------------------
(* The operator                                                             *)

(* What is asked of a play that is under way is not asked between plays.        *)
LEMMA Idle ==
    ASSUME ~Busy
    PROVE  Rest /\ Looked /\ Probed /\ Checked /\ Flagged /\ Halfway
  BY DEF Rest, Looked, Probed, Checked, Flagged, Halfway, At, Busy

LEMMA EditKeeps ==
    ASSUME RInv, Edit
    PROVE  RInv'
<1>0. /\ Types /\ Unflagged /\ Healed /\ Upgraded /\ FilesWritten /\ Reconfigured /\ UpToDate
      /\ FailedOnce
  BY DEF RInv
<1>1. /\ ~Busy /\ edits < MaxEdits /\ edits' = edits + 1
      /\ UNCHANGED <<file, daemon, noout, play, recovered, plays, faults>>
  BY DEF Edit, Busy
<1>2. P' = P /\ Now' = Now /\ ~Busy'
  BY <1>1 DEF P, Now, Busy
<1>3. want' \in Wants
  BY DEF Edit
<1>4. edits' \in 0 .. MaxEdits
  BY <1>0, <1>1, RolloutAssumption DEF Types, TypeOK, RolloutAssumption
<1>7. Rest' /\ Looked' /\ Probed' /\ Checked' /\ Flagged' /\ Halfway' /\ UpToDate'
  BY <1>2 DEF Rest, Looked, Probed, Checked, Flagged, Halfway, UpToDate, At, Busy
<1>8. Unflagged' /\ Healed' /\ Upgraded' /\ FilesWritten' /\ Reconfigured' /\ FailedOnce'
  BY <1>0, <1>1, <1>2
     DEF Unflagged, Healed, Upgraded, FilesWritten, Reconfigured, FailedOnce, FlagsWhen,
         Healthy, Fresh, Applies
<1>10. TypeOK'
  BY <1>0, <1>1, <1>2, <1>3, <1>4 DEF Types, TypeOK, At, Busy
<1>11. Types'
  BY <1>0, <1>1, <1>10 DEF Types
<1> QED
  BY <1>7, <1>8, <1>11 DEF RInv

LEMMA StartKeeps ==
    ASSUME RInv, NEW action \in {"upgrade", "reconfigure"},
           NEW kinds \in (SUBSET KindsPresent) \ {{}}, StartPlay(action, kinds)
    PROVE  RInv'
<1>0. /\ Types /\ Unflagged /\ Healed /\ Upgraded /\ FilesWritten /\ Reconfigured /\ UpToDate
      /\ FailedOnce
  BY DEF RInv
<1>1. /\ ~Busy /\ plays < MaxPlays /\ plays' = plays + 1
      /\ UNCHANGED <<want, file, daemon, noout, recovered, edits, faults>>
  BY DEF StartPlay, Busy
<1> DEFINE s == PlayTasks[kinds]
<1>2. /\ s \in Seq(TaskSet) /\ Led(s) /\ DOMAIN s = 1 .. Len(s) /\ Len(s) \in Nat
      /\ \A i \in DOMAIN s : s[i].task \in TaskNames
      /\ \A x \in Ids : KindOf(x) \in kinds => \E f \in Flushes(s) : s[f].on = x
  <2>1. s \in Proper
        /\ \A x \in Ids : KindOf(x) \in kinds => \E f \in Flushes(s) : s[f].on = x
    BY PlayTasksAre
  <2> HIDE DEF s
  <2>2. s \in Seq(TaskSet) /\ Led(s)
    BY <2>1 DEF Proper
  <2>3. \A i \in DOMAIN s : s[i] \in TaskSet
    BY <2>2
  <2> QED
    BY <2>1, <2>2, <2>3 DEF TaskSet
<1>3. play' = [Nobody EXCEPT !.action = action, !.kinds = kinds, !.result = "running",
                             !.want = want, !.stale = {x \in Ids : Stale(x)},
                             !.everFailed = play.everFailed, !.todo = s]
  BY DEF StartPlay
<1> HIDE DEF s
<1>4. s # <<>> /\ Len(s) > 0
  <2>0. kinds # {} /\ \A k \in kinds : k \in KindsPresent
    OBVIOUS
  <2>1. PICK k \in kinds : k \in KindsPresent
    BY <2>0
  <2>2. PICK i \in DOMAIN Daemons : Daemons[i].kind = k
    BY <2>1 DEF KindsPresent
  <2>3. Daemons[i].id \in Ids /\ KindOf(Daemons[i].id) = k
    BY <2>2, OfIs, DaemonType DEF KindOf
  <2>4. \E f \in Flushes(s) : f \in DOMAIN s
    BY <1>2, <2>1, <2>3 DEF Flushes
  <2> QED
    BY <1>2, <2>4
<1>5. /\ play' \in PlaySet /\ play'.todo = s /\ play'.kinds = kinds /\ play'.action = action
      /\ play'.result = "running" /\ play'.want = want /\ play'.everFailed = play.everFailed
      /\ play'.stale = {x \in Ids : Stale(x)}
  <2>1. s \in Seq(TodoSet)
    <3>1. TaskSet \subseteq TodoSet
      BY DEF TaskSet, TodoSet
    <3> QED
      BY <1>2, <3>1
  <2>2. play.everFailed \in BOOLEAN /\ want \in Wants
    BY <1>0, PlayIs DEF Types, TypeOK
  <2>3. {x \in Ids : Stale(x)} \in SUBSET Ids
    OBVIOUS
  <2> QED
    BY <1>3, <2>1, <2>2, <2>3 DEF PlaySet, Nobody
<1>6. P' = s /\ Busy' /\ Now' = 1
  <2>1. P' = s /\ Busy'
    BY <1>4, <1>5 DEF P, Busy, s
  <2>2. Now' = Len(s) - Len(s) + 1
    BY <2>1, <1>5 DEF Now
  <2> QED
    BY <2>1, <2>2, <1>2
<1>7. s[1].task \in TaskNames /\ Head(play'.todo) = s[1]
  BY <1>2, <1>4, <1>5
<1>8. Rest'
  <2>1. \A i \in DOMAIN s : 1 - 1 + i = i
    BY <1>2
  <2>2. Len(s) <= Len(s)
    BY <1>2
  <2> QED
    BY <1>1, <1>5, <1>6, <2>1, <2>2 DEF Rest
<1>9. \A f \in Flushes(s) : /\ f \in Nat /\ f >= 1
                            /\ \A e \in DOMAIN Before(s[f].on) : f > e
  BY <1>2 DEF Flushes, Led
<1>10. \A f \in Flushes(s) : /\ ~(f - 1 < LookDist(s[f].on))
                             /\ Osd(s[f].on) => ~(f - 1 < ProbeDist(s[f].on))
                             /\ ~Mds(s[f].on) => ~(f - 1 < HealthDist(s[f].on))
  <2> TAKE f \in Flushes(s)
  <2> DEFINE x == s[f].on
  <2>1. \A e \in DOMAIN Before(x) : f > e
    BY <1>9
  <2>2. f \in Nat
    BY <1>9
  <2> HIDE DEF x
  <2>3. f > LookDist(x) /\ LookDist(x) \in Nat
    BY <2>1, DistIs
  <2>4. Osd(x) => f > ProbeDist(x) /\ ProbeDist(x) \in Nat
    BY <2>1, DistIs
  <2>5. ~Mds(x) => f > HealthDist(x) /\ HealthDist(x) \in Nat
    BY <2>1, DistIs
  <2>6. /\ ~(f - 1 < LookDist(x))
        /\ Osd(x) => ~(f - 1 < ProbeDist(x))
        /\ ~Mds(x) => ~(f - 1 < HealthDist(x))
    BY <2>2, <2>3, <2>4, <2>5
  <2> QED
    BY <2>6 DEF x
<1>11. Looked' /\ Probed' /\ Checked'
  BY <1>6, <1>10 DEF Looked, Probed, Checked
<1>12. Flagged' /\ Halfway'
  <2>1. ~(At("bring_up"))'
    BY <1>5, <1>7 DEF At, TaskNames
  <2>2. ~(At("flush"))'
    <3> SUFFICES ASSUME s[1].task = "flush" PROVE FALSE
      BY <1>5, <1>7 DEF At
    <3>1. 1 \in Flushes(s)
      BY <1>2, <1>4 DEF Flushes
    <3>2. LookDist(s[1].on) \in DOMAIN Before(s[1].on) /\ LookDist(s[1].on) \in 1 .. 5
      BY DistIs
    <3>3. 1 > LookDist(s[1].on)
      BY <3>1, <3>2, <1>9
    <3> QED
      BY <3>2, <3>3
  <2> QED
    BY <2>1, <2>2 DEF Flagged, Halfway
<1>13. Unflagged'
  BY <1>0, <1>1, <1>5 DEF Unflagged
<1>14. Healed' /\ FailedOnce'
  BY <1>0, <1>1, <1>5 DEF Healed, Healthy, FailedOnce
<1>15. Upgraded' /\ FilesWritten' /\ Reconfigured'
  <2>1. \A i \in DOMAIN s : ~(i < 1)
    BY <1>2
  <2> QED
    BY <1>6, <2>1 DEF Upgraded, FilesWritten, Reconfigured, Flushes
<1>16. UpToDate'
  <2>1. \A x \in Ids \ play'.stale : ~Stale(x)
    BY <1>5
  <2>2. \A x \in Ids \ play'.stale : Fresh(x)'
    BY <1>1, <2>1 DEF Stale, Fresh, HostOf, KindOf
  <2> QED
    BY <2>2 DEF UpToDate
<1>17. TypeOK'
  <2>1. plays' \in 0 .. MaxPlays
    BY <1>0, <1>1, RolloutAssumption DEF Types, TypeOK, RolloutAssumption
  <2>2. ~(At("bring_up"))'
    BY <1>5, <1>7 DEF At, TaskNames
  <2> QED
    BY <1>0, <1>1, <1>4, <1>5, <2>1, <2>2 DEF Types, TypeOK
<1>18. Types'
  BY <1>0, <1>1, <1>5, <1>17 DEF Types
<1> QED
  BY <1>8, <1>11, <1>12, <1>13, <1>14, <1>15, <1>16, <1>18 DEF RInv

LEMMA InitKeeps == Init => RInv
<1> SUFFICES ASSUME Init PROVE RInv
  OBVIOUS
<1>1. /\ play = Nobody /\ noout = FALSE /\ recovered = TRUE
      /\ plays = 0 /\ edits = 0 /\ faults = 0 /\ want = FirstWant
  BY DEF Init
<1>2. /\ play.todo = <<>> /\ play.kinds = {} /\ play.result = "none" /\ play.action = "none"
      /\ play.everFailed = FALSE
  BY <1>1 DEF Nobody
<1>3. ~Busy
  BY <1>2 DEF Busy
<1>4. play \in PlaySet
  <2>1. <<>> \in Seq(TodoSet)
    OBVIOUS
  <2> QED
    BY <1>1, <2>1 DEF PlaySet, Nobody
<1>5. /\ want \in Wants /\ want.image \in Images /\ want.json \in Jsons /\ want.custom \in Named
      /\ MaxPlays \in Nat /\ MaxEdits \in Nat /\ MaxFaults \in Nat
  BY <1>1, RolloutAssumption DEF RolloutAssumption, Images, Jsons, Named
<1>6. \A x \in Ids : daemon[x] = [state |-> "running", image |-> want.image, json |-> want.json,
                                  conf |-> want.custom]
  BY DEF Init
<1>7. /\ daemon \in [Ids -> DaemonSet]
      /\ file \in [DOMAIN HostFiles -> [KindsPresent -> FileSet]]
  <2>1. /\ [state |-> "running", image |-> want.image, json |-> want.json, conf |-> want.custom]
              \in DaemonSet
        /\ [json |-> want.json, conf |-> want.custom] \in FileSet
    BY <1>5 DEF DaemonSet, FileSet, States
  <2> QED
    BY <2>1 DEF Init
<1>8. Rest /\ Looked /\ Probed /\ Checked /\ Flagged /\ Halfway
  BY <1>3, Idle
<1>9. Unflagged /\ Healed /\ Upgraded /\ FilesWritten /\ Reconfigured /\ FailedOnce
  BY <1>1, <1>2 DEF Unflagged, Healed, Upgraded, FilesWritten, Reconfigured, FailedOnce
<1>10. UpToDate
  BY <1>3 DEF UpToDate
<1>11. TypeOK
  <2>1. \A x \in Ids : /\ daemon[x].state \in States /\ daemon[x].image \in Images
                       /\ daemon[x].json \in Jsons /\ daemon[x].conf \in Named
    BY <1>5, <1>6 DEF States
  <2>2. want \in Wants
    BY <1>5
  <2>3. plays \in 0 .. MaxPlays /\ edits \in 0 .. MaxEdits /\ faults \in 0 .. MaxFaults
    BY <1>1, <1>5
  <2>4. ~At("bring_up") /\ (play.result = "running" <=> play.todo # <<>>)
    BY <1>2 DEF At
  <2>5. noout \in BOOLEAN /\ recovered \in BOOLEAN /\ play.action \in {"none", "upgrade", "reconfigure"}
    BY <1>1, <1>2
  <2> QED
    BY <2>1, <2>2, <2>3, <2>4, <2>5 DEF TypeOK, Images, Jsons, Named
<1>12. Types
  BY <1>4, <1>7, <1>11 DEF Types
<1> QED
  BY <1>8, <1>9, <1>10, <1>12 DEF RInv

LEMMA StepKeeps == RInv /\ [Next]_vars => RInv'
<1> SUFFICES ASSUME RInv, [Next]_vars PROVE RInv'
  OBVIOUS
<1>0. Types /\ Rest /\ Healed
  BY DEF RInv
<1>1. ASSUME NEW action \in {"upgrade", "reconfigure"}, NEW kinds \in (SUBSET KindsPresent) \ {{}},
             StartPlay(action, kinds)
      PROVE  RInv'
  BY <1>1, StartKeeps
<1>2. CASE WriteJson
  BY <1>0, <1>2, JsonIsDone, DoneKeeps
<1>3. CASE WriteConf
  BY <1>0, <1>3, ConfIsDone, DoneKeeps
<1>4. CASE Look
  BY <1>0, <1>4, LookIsDone, DoneKeeps
<1>5. CASE Probe
  BY <1>0, <1>5, ProbeIsDone, DoneKeeps
<1>6. CASE CheckHealth
  BY <1>0, <1>6, HealthIsDone, DoneKeeps, FailingKeeps
<1>7. CASE SetFlags
  BY <1>0, <1>7, FlagsAreDone, DoneKeeps, FailingKeeps
<1>8. CASE SkipHandler
  BY <1>0, <1>8, SkipIsDone, DoneKeeps
<1>9. CASE TakeDown
  BY <1>9, TakeDownKeeps
<1>10. CASE BringUp
  BY <1>10, BringUpKeeps
<1>11. CASE TaskFails
  BY <1>0, <1>11, FailsIsFailing, FailingKeeps
<1>12. ASSUME NEW id \in Ids, Join(id) PROVE RInv'
  BY <1>0, <1>12, JoinStirs, StirsKeeps
<1>13. ASSUME NEW id \in Ids, GoesDown(id) PROVE RInv'
  BY <1>0, <1>13, GoesDownStirs, StirsKeeps
<1>14. CASE Edit
  BY <1>14, EditKeeps
<1>15. CASE UNCHANGED vars
  <2>1. /\ UNCHANGED <<want, file, daemon, noout, play, recovered>>
        /\ UNCHANGED <<plays, edits, faults>>
    BY <1>15 DEF vars, counts
  <2>2. Types'
    BY <1>0, <2>1 DEF Types, TypeOK, At, Here, Up
  <2>3. Rest' /\ Looked' /\ Probed' /\ Checked' /\ Flagged' /\ Halfway' /\ Unflagged'
    BY <2>1 DEF RInv, Rest, Looked, Probed, Checked, Flagged, Halfway, Unflagged, FlagsWhen,
                At, Up, Fresh, Applies, Pending, P, Now, Busy
  <2>4. Healed' /\ Upgraded' /\ FilesWritten' /\ Reconfigured' /\ UpToDate' /\ FailedOnce'
    BY <2>1 DEF RInv, Healed, Healthy, Upgraded, FilesWritten, Reconfigured, UpToDate,
                FailedOnce, Up, Fresh, Applies, Pending, P, Now, Busy
  <2> QED
    BY <2>2, <2>3, <2>4 DEF RInv
<1> QED
  BY <1>1, <1>2, <1>3, <1>4, <1>5, <1>6, <1>7, <1>8, <1>9, <1>10, <1>11, <1>12, <1>13, <1>14,
     <1>15 DEF Next, PlayStep

-----------------------------------------------------------------------------
(* The theorems                                                             *)

(* In every state of every rollout the invariant holds.                        *)
LEMMA Invariant == Spec => []RInv
<1>1. Init => RInv
  BY InitKeeps
<1>2. RInv /\ [Next]_vars => RInv'
  BY StepKeeps
<1> QED
  BY <1>1, <1>2, PTL DEF Spec

(* The variables keep their types, a play runs exactly as long as it has tasks  *)
(* to do, and the container that the second half of a restart starts does not   *)
(* run (recreate_or_restart_container).                                       *)
THEOREM TypeCorrect == Spec => []TypeOK
<1>1. RInv => TypeOK
  BY DEF RInv, Types
<1> QED
  BY <1>1, Invariant, PTL

(* A play takes a daemon down only when the cluster has recovered from the one  *)
(* before, and a running osd only under noout (start_upgrade_*.yml).            *)
THEOREM SafeRestarts == Spec => RestartsAreSafe
<1> DEFINE Safe ==
      \A id \in Ids : play.todo # <<>> /\ play' # play /\ Up(id) /\ daemon'[id].state \in {"absent", "exited"} =>
           /\ want.healthCheck /\ Of(id).kind # "ceph-mds" => recovered
           /\ Of(id).kind = "ceph-osd" => noout
<1>1. RInv /\ [Next]_vars => Safe
  <2> SUFFICES ASSUME RInv, [Next]_vars, NEW id \in Ids, Busy, play' # play, Up(id),
                      daemon'[id].state \in {"absent", "exited"}
               PROVE  /\ want.healthCheck /\ Of(id).kind # "ceph-mds" => recovered
                      /\ Of(id).kind = "ceph-osd" => noout
    BY DEF Busy
  <2>0. Types /\ Rest /\ Checked /\ Flagged
    BY DEF RInv
  <2>1. daemon' # daemon
    BY DEF Up
  <2>2. play.todo # <<>>
    BY DEF Busy
  <2>3. TakeDown \/ BringUp
    BY <2>1, <2>2 DEF Next, PlayStep, StartPlay, WriteJson, WriteConf, Look, Probe, CheckHealth,
                      SetFlags, SkipHandler, TaskFails, Join, GoesDown, Edit, vars
  <2>4. daemon \in [Ids -> DaemonSet]
    BY <2>0 DEF Types
  <2>5. CASE TakeDown
    <3>1. PICK x : x = P[Now].on
      OBVIOUS
    <3>2. /\ ~At("bring_up") /\ P[Now].task = "flush" /\ RestartWhen
          /\ x \in Ids /\ Here.id = x /\ Here.kind = KindOf(x)
          /\ daemon' = [daemon EXCEPT ![x].state = IF Differs(x) THEN "absent" ELSE "exited"]
      BY <2>0, <2>5, <3>1, TakesDown
    <3>3. x = id
      BY <2>4, <3>2 DEF Up
    <3>4. /\ Now \in Nat /\ Now \in Flushes(P) /\ P[Now].on = id /\ Here.kind = KindOf(id)
          /\ Now <= Now
      BY <2>0, <3>1, <3>2, <3>3, Place DEF Flushes
    <3>5. want.healthCheck /\ ~Mds(id) => recovered
      <4>1. ~Mds(id) => Now - Now < HealthDist(id)
        BY <3>4, DistIs
      <4> QED
        BY <2>0, <3>2, <3>4, <4>1 DEF Checked
    <3>6. ASSUME Osd(id) PROVE noout
      <4>1. FlagsWhen
        BY <3>2, <3>4, <3>6 DEF RestartWhen, FlagsWhen, Osd
      <4>2. At("flush") /\ Head(play.todo).on = id
        BY <2>0, <3>1, <3>2, <3>3, Place DEF TaskNames
      <4> QED
        BY <2>0, <3>6, <4>1, <4>2 DEF Flagged
    <3> QED
      BY <3>5, <3>6 DEF Mds, Osd, KindOf
  <2>6. CASE BringUp
    <3>1. Here.id \in Ids
      BY <2>0, Place
    <3>2. daemon'[id].state = "starting" \/ daemon'[id] = daemon[id]
      BY <2>4, <2>6, <3>1 DEF BringUp, Started
    <3> QED
      BY <3>2 DEF Up
  <2> QED
    BY <2>3, <2>5, <2>6
<1>2. RInv /\ [Next]_vars => [Safe]_vars
  BY <1>1
<1>3. Spec => [][Safe]_vars
  BY <1>2, Invariant, PTL DEF Spec
<1> QED
  BY <1>3 DEF RestartsAreSafe

(* What a play that ended well has achieved: the wanted image in every daemon   *)
(* it did not pass over; the wanted files, if it was a reconfigure, in those of  *)
(* them that had their host's files when it began; and no flag left set unless  *)
(* a play failed.                                                           *)
THEOREM TakesEffect == Spec => []RolloutTakesEffect
<1>1. RInv => RolloutTakesEffect
  <2> SUFFICES ASSUME RInv, play.result = "ok" PROVE
        /\ play.action = "upgrade" =>
               \A id \in Targets \ play.down : daemon[id].image = play.want.image
        /\ play.action = "reconfigure" =>
               \A id \in Targets \ (play.differed \cup play.down \cup play.stale) :
                   /\ daemon[id].json = play.want.json
                   /\ play.want.confRestart =>
                          SameConf(daemon[id].conf, play.want.custom, Of(id).host)
        /\ ~play.everFailed => ~noout
    BY DEF RolloutTakesEffect
  <2>0. Types /\ Upgraded /\ FilesWritten /\ Reconfigured /\ Unflagged
    BY DEF RInv
  <2>1. ~Busy
    BY <2>0, PlayIs
  <2>2. /\ Len(P) \in Nat /\ DOMAIN P = 1 .. Len(P) /\ Grouped(P)
        /\ \A x \in Ids : KindOf(x) \in play.kinds => \E f \in Flushes(P) : P[f].on = x
    BY <2>0, ThePlay
  <2>3. \A i \in DOMAIN P : i < Now
    <3>1. Now = Len(P) - Len(play.todo) + 1 /\ Len(play.todo) = 0
      BY <2>0, <2>1, Todo DEF Now
    <3> HIDE DEF P, Now
    <3> QED
      BY <2>2, <3>1
  <2>4. \A x \in Targets : x \in Ids /\ \E f \in Flushes(P) : P[f].on = x /\ f < Now
    BY <2>2, <2>3 DEF Targets, KindOf, Flushes
  <2>5. play.action = "upgrade" =>
            \A x \in Targets \ play.down : daemon[x].image = play.want.image
    BY <2>0, <2>4 DEF Upgraded
  <2>6. ASSUME play.action = "reconfigure",
               NEW x \in Targets \ (play.differed \cup play.down \cup play.stale)
        PROVE  /\ daemon[x].json = play.want.json
               /\ play.want.confRestart => SameConf(daemon[x].conf, play.want.custom, Of(x).host)
    <3>1. PICK f \in Flushes(P) : P[f].on = x /\ f < Now
      BY <2>4
    <3>2. Fresh(x)
      BY <2>0, <2>6, <3>1 DEF Reconfigured
    <3>3. PICK b \in DOMAIN P : Group(P, b, f)
      BY <2>2, <3>1 DEF Grouped
    <3>4. /\ P[b].task = "json" /\ P[b + 1].task = "conf" /\ P[b + 1].on = P[b].on
          /\ HostOf(P[b].on) = HostOf(x) /\ KindOf(P[b].on) = KindOf(x) /\ b + 1 < f
      BY <3>1, <3>3 DEF Group, SameGroup
    <3>5. b + 1 \in DOMAIN P
      BY <2>2, <3>1, <3>4 DEF Flushes
    <3>6. /\ file[HostOf(x)][KindOf(x)].json = play.want.json
          /\ file[HostOf(x)][KindOf(x)].conf = play.want.custom
      BY <2>0, <2>3, <3>4, <3>5 DEF FilesWritten
    <3> QED
      BY <3>2, <3>6 DEF Fresh, Applies, HostOf
  <2>7. ~play.everFailed => ~noout
    BY <2>0, <2>1 DEF Unflagged
  <2> QED
    BY <2>5, <2>6, <2>7
<1> QED
  BY <1>1, Invariant, PTL

(* At first, and after every edit before the first play, the merged ceph.conf   *)
(* of every host means what the three files say (merge_configs).               *)
THEOREM MergedMeans == Spec => []MergeMeans
<1>1. RInv => MergeMeans
  <2> SUFFICES ASSUME RInv, NEW h \in DOMAIN HostFiles,
                      \A i \in 1 .. 3 : BeginsWithHeader(Sources(want.custom, h)[i])
               PROVE  LastWins(Sources(want.custom, h), Confs[want.custom][h])
    BY DEF MergeMeans
  <2>1. want.custom \in Customs
    BY RolloutAssumption DEF RInv, Types, TypeOK, RolloutAssumption, Customs
  <2> DEFINE custom == want.custom
             s == Sources(custom, h)
  <2>2. /\ DOMAIN s = 1 .. 3 /\ Len(s) = 3
        /\ s[1] = Template /\ s[2] = CustomFiles[custom] /\ s[3] = HostFiles[h]
    BY DEF Sources
  <2> HIDE DEF custom
  <2>3. ASSUME NEW i \in 1 .. 3, s[i] # Null PROVE IsFile(s[i]) /\ BeginsWithHeader(s[i])
    <3>1. s[i] \in {Template} \cup Range(CustomFiles) \cup Range(HostFiles)
      BY <2>1, <2>2 DEF custom, Customs, Range
    <3>2. BeginsWithHeader(s[i])
      BY DEF custom
    <3> QED
      BY <2>3, <3>1, <3>2, FilesAssumption DEF FilesAssumption
  <2>4. Confs[custom][h] = Merge(s)
    BY <2>1 DEF Confs, custom
  <2> HIDE DEF s
  <2>5. LastWins(s, Merge(s))
    BY <2>2, <2>3, MergesAll
  <2> QED
    BY <2>4, <2>5 DEF s, custom
<1> QED
  BY <1>1, Invariant, PTL
=============================================================================
