-------------------------- MODULE CephDeploy_proofs --------------------------
(***************************************************************************)
(* Proofs about CephDeploy: the types and the one cluster, for any inventories, *)
(* texts and leftovers.                                                      *)
(*                                                                         *)
(* What a play still has to do is a sequence that one task shortens at its     *)
(* head; Rank says how far the play is, and the invariant says what holds of   *)
(* every host that has done the task before it.                             *)
(***************************************************************************)
EXTENDS CephDeploy, FiniteSetTheorems, SequenceTheorems, TLAPS

StepNames == <<"check", "volume", "write", "generate", "register", "fetch", "push", "up">>
Steps == {"check", "volume", "write", "generate", "register", "fetch", "push", "up"}
PoolOps == Settings \cup {"profile", "rule", "unset_limit"}

CommandSet ==
    [op : {"get_or_create", "caps"}, x : Keyrings]
    \cup [op : {"rm_device_class", "set_device_class"}, x : Range(Osds)]
    \cup [op : PoolOps, x : Pools]
    \cup [op : {"fs_new"}, x : {"cephfs"}]

AskSet ==
    [task : {"keyring"}, arg : Keyrings] \cup [task : {"class"}, arg : Range(Osds)]
    \cup [task : {"pool"}, arg : Pools] \cup [task : {"fs"}, arg : {"cephfs"}]

(* What follows the steps of the monitors.                                   *)
LaterSet == AskSet \cup [task : {"refetch"}, arg : {"keys"}]

TaskSet ==
    [task : {"mons"}, arg : Steps] \cup [task : {"bootstrap"}, arg : Nat \ {0}]
    \cup [task : {"first"}, arg : Hosts] \cup LaterSet
    \cup [task : {"command"}, arg : CommandSet]

(* How far a play is whose next task is t; the tasks of the first monitor      *)
(* stand for the one that made them.                                        *)
Rank(t) ==
    IF t.task \in {"bootstrap", "first"} THEN 4
    ELSE IF t.task # "mons" THEN 9
    ELSE IF t.arg = "check" THEN 1 ELSE IF t.arg = "volume" THEN 2
    ELSE IF t.arg = "write" THEN 3 ELSE IF t.arg = "generate" THEN 4
    ELSE IF t.arg = "register" THEN 5 ELSE IF t.arg = "fetch" THEN 6
    ELSE IF t.arg = "push" THEN 7 ELSE 8

After(r) == IF r < 8 THEN r + 1 ELSE 9

Chained(s) ==
    /\ \A i \in DOMAIN s : i > 1 =>
           s[i].task \notin {"bootstrap", "first"} /\ Rank(s[i]) = After(Rank(s[i - 1]))
    /\ s # <<>> => Rank(s[Len(s)]) = 9

Stage == IF play.todo # <<>> THEN Rank(Head(play.todo))
         ELSE IF play.result = "ok" THEN 9 ELSE 0

-----------------------------------------------------------------------------
(* The types, in full.                                                       *)

PlaySet ==
    [todo : Seq(TaskSet), alive : SUBSET Hosts, left : SUBSET Hosts, fresh : SUBSET Hosts,
     active : Hosts \cup {None}, temp : Hosts \cup {None}, generated : BOOLEAN,
     available : Hosts \cup {None}, keys : Seq(Nat), result : {"none", "running", "ok", "failed"}]

CephSet ==
    [caps : [Keyrings -> Nat], class : [Range(Osds) -> {"hdd", "none", "ssd", "nvme"}],
     pools : [Pools -> SUBSET Settings], fs : BOOLEAN]

Types ==
    /\ want \in [mons : Inventories, caps : Nat, class : {"ssd", "nvme"}, named : BOOLEAN]
    /\ want.caps \in 1 .. edits + 1
    /\ volume \in [Hosts -> Seq(Nat) \cup {None}]
    /\ pushed \in [Hosts -> Seq(Nat)]
    /\ mon \in [Hosts -> [state : {"down", "starting", "up"}, key : {0} \cup DOMAIN Text]]
    /\ made \in Nat
    /\ ceph \in CephSet
    /\ play \in PlaySet
    /\ tainted \in BOOLEAN
    /\ plays \in 0 .. MaxPlays /\ edits \in 0 .. MaxEdits /\ faults \in 0 .. MaxFaults

(* The play: who is in it, and what its tasks are.                           *)
Playing ==
    /\ play.left \subseteq play.alive /\ play.alive \subseteq Range(want.mons)
    /\ {play.active, play.temp, play.available} \subseteq Range(want.mons) \cup {None}
    /\ play.result = "running" <=> play.todo # <<>>
    /\ play.todo # <<>> => play.left # {}
    /\ play.result = "ok" => play.alive = Range(want.mons)
    /\ Chained(play.todo)

-----------------------------------------------------------------------------
(* The volumes, and the keys made.                                           *)

Filled(h) == volume[h] \notin {None, <<>>}
FilledHosts == {h \in Range(want.mons) : Filled(h)}

(* The hosts that have done the task of that rank, if the play is there.       *)
HaveDone(r) == IF Stage > r THEN play.alive
               ELSE IF Stage = r THEN play.alive \ play.left ELSE {}

BeforeKeys == /\ play.todo # <<>> /\ Stage <= 4 /\ ~AtTask("first")
              /\ AtTask("bootstrap") => Head(play.todo).arg = 1
Making == AtTask("first") \/ (AtTask("bootstrap") /\ Head(play.todo).arg > 1)

Volumes ==
    /\ \A h \in Hosts : mon[h].state # "down" => volume[h] # None
    /\ \A h \in Hosts : mon[h].state = "up" => mon[h].key # 0
    /\ \A h \in HaveDone(2) : volume[h] # None
    /\ BeforeKeys => \A h \in play.fresh : volume[h] = <<>> /\ mon[h].state = "down"
    /\ BeforeKeys => \A h \in HaveDone(3) : h \in play.fresh \/ play.temp # None
    /\ AtTask("bootstrap") /\ BeforeKeys => play.temp = None
    /\ AtTask("bootstrap") => First \in play.alive
    /\ Making => Filled(First) /\ made > 0 
    /\ AtTask("bootstrap") =>
           Head(play.todo).arg <= Len(Text[IF Making THEN made ELSE made + 1])
    /\ made <= Cardinality(FilledHosts)
    /\ Stage > 6 => play.keys # <<>>

-----------------------------------------------------------------------------
(* As long as nothing is tainted, there is one generation of keys, the first.  *)

(* What holds a beginning of the first text, or all of it.                    *)
Begun(t) == \A i \in DOMAIN t : i <= Len(Text[1]) => t[i] = 1
Whole(t) == Len(t) >= Len(Text[1]) /\ Begun(t)

Keys ==
    /\ made <= 1
    /\ made = 1 => \E h \in Range(want.mons) : Filled(h)
    /\ \A h \in Hosts : Filled(h) => made = 1 /\ Begun(volume[h])
    /\ \A h \in Hosts : mon[h].key # 0 => mon[h].key = 1 /\ Filled(h)
    /\ \A h \in Hosts : mon[h].state # "down" => made = 1 /\ Begun(pushed[h])
    /\ Making => pushed[First] = <<>>
    /\ play.keys # <<>> => made = 1 /\ Whole(play.keys)
    /\ \A h \in HaveDone(7) : Whole(pushed[h])

ClusterInv == Types /\ Playing /\ Volumes /\ (~tainted => Keys)

-----------------------------------------------------------------------------
(* The tasks of a play.                                                      *)

LEMMA Assumed ==
    /\ \A inv \in Inventories : inv \in Seq(Hosts) /\ inv # <<>> /\ inv[1] \in Range(inv)
    /\ \A inv \in Inventories : /\ Range(inv) \subseteq Hosts /\ IsFiniteSet(Range(inv))
                                /\ Cardinality(Range(inv)) <= Len(inv)
    /\ Entities \in Seq(Range(Entities)) /\ Osds \in Seq(Range(Osds))
    /\ FsPools \in Seq(Pools) /\ OtherPools \in Seq(Pools)
    /\ None \notin Hosts /\ None \notin Seq(Nat)
<1>1. \A inv \in Inventories : inv \in Seq(Range(inv)) /\ inv # <<>> /\ Range(inv) \subseteq Hosts
  BY DeployAssumption DEF DeployAssumption, Hosts
<1>2. ASSUME NEW inv \in Inventories
      PROVE  /\ inv \in Seq(Hosts) /\ inv[1] \in Range(inv)
             /\ IsFiniteSet(Range(inv)) /\ Cardinality(Range(inv)) <= Len(inv)
  <2>1. inv \in Seq(Range(inv)) /\ inv # <<>> /\ Range(inv) \subseteq Hosts
    BY <1>1
  <2>2. inv \in Seq(Hosts)
    BY <2>1, SeqMonotonic
  <2>3. Len(inv) \in Nat /\ DOMAIN inv = 1 .. Len(inv) /\ inv[1] \in Range(inv)
    BY <2>1
  <2>4. IsFiniteSet(1 .. Len(inv)) /\ Cardinality(1 .. Len(inv)) = Len(inv)
    BY <2>3, FS_Interval
  <2>5. inv \in [1 .. Len(inv) -> Range(inv)] /\ \A h \in Range(inv) : \E i \in 1 .. Len(inv) : inv[i] = h
    BY <2>1, <2>3 DEF Range
  <2>6. inv \in Surjection(1 .. Len(inv), Range(inv))
    BY <2>5 DEF Surjection
  <2> QED
    BY <2>2, <2>3, <2>4, <2>6, FS_Surjection
<1>4. Range(FsPools) \subseteq Pools /\ Range(OtherPools) \subseteq Pools
  BY DEF Pools
<1>5. /\ FsPools \in Seq(Range(FsPools)) /\ OtherPools \in Seq(Range(OtherPools))
      /\ Entities \in Seq(Range(Entities)) /\ Osds \in Seq(Range(Osds))
  BY DeployAssumption DEF DeployAssumption
<1>6. FsPools \in Seq(Pools) /\ OtherPools \in Seq(Pools)
  BY <1>4, <1>5, SeqMonotonic
<1> QED
  BY <1>1, <1>2, <1>5, <1>6, DeployAssumption DEF DeployAssumption

LEMMA Ranks ==
    \A t \in TaskSet :
        /\ Rank(t) \in 1 .. 9
        /\ (Rank(t) = 9) <=> (t.task \in {"keyring", "class", "pool", "fs", "command", "refetch"})
        /\ t.task \in {"bootstrap", "first"} => Rank(t) = 4
        /\ t.task = "mons" /\ t.arg = "check" => Rank(t) = 1
        /\ t.task = "mons" /\ t.arg = "volume" => Rank(t) = 2
        /\ t.task = "mons" /\ t.arg = "write" => Rank(t) = 3
        /\ t.task = "mons" /\ t.arg = "generate" => Rank(t) = 4
        /\ t.task = "mons" /\ t.arg = "register" => Rank(t) = 5
        /\ t.task = "mons" /\ t.arg = "fetch" => Rank(t) = 6
        /\ t.task = "mons" /\ t.arg = "push" => Rank(t) = 7
        /\ t.task = "mons" /\ t.arg = "up" => Rank(t) = 8
<1> SUFFICES ASSUME NEW t \in TaskSet
    PROVE  /\ Rank(t) \in 1 .. 9
           /\ (Rank(t) = 9) <=> (t.task \in {"keyring", "class", "pool", "fs", "command", "refetch"})
           /\ t.task \in {"bootstrap", "first"} => Rank(t) = 4
           /\ t.task = "mons" /\ t.arg = "check" => Rank(t) = 1
           /\ t.task = "mons" /\ t.arg = "volume" => Rank(t) = 2
           /\ t.task = "mons" /\ t.arg = "write" => Rank(t) = 3
           /\ t.task = "mons" /\ t.arg = "generate" => Rank(t) = 4
           /\ t.task = "mons" /\ t.arg = "register" => Rank(t) = 5
           /\ t.task = "mons" /\ t.arg = "fetch" => Rank(t) = 6
           /\ t.task = "mons" /\ t.arg = "push" => Rank(t) = 7
           /\ t.task = "mons" /\ t.arg = "up" => Rank(t) = 8
  OBVIOUS
<1>1. CASE t \in [task : {"mons"}, arg : Steps]
  <2>1. t.task = "mons" /\ t.arg \in Steps
    BY <1>1
  <2> QED
    BY <2>1 DEF Rank, Steps
<1>2. CASE t \in [task : {"bootstrap"}, arg : Nat \ {0}] \cup [task : {"first"}, arg : Hosts]
  BY <1>2 DEF Rank
<1>3. CASE t \in LaterSet \cup [task : {"command"}, arg : CommandSet]
  BY <1>3 DEF Rank, AskSet, LaterSet
<1> QED
  BY <1>1, <1>2, <1>3 DEF TaskSet

LEMMA EachTask ==
    ASSUME NEW S, NEW T, NEW args \in Seq(S), NEW name, [task : {name}, arg : S] \subseteq T
    PROVE  /\ Each(name, args) \in Seq(T) /\ Len(Each(name, args)) = Len(args)
           /\ \A i \in DOMAIN args : Each(name, args)[i] = Task(name, args[i])
<1>1. Each(name, args) \in [1 .. Len(args) -> T]
  BY DEF Each, Task
<1>2. Each(name, args) \in Seq(T)
  BY <1>1, SeqDef
<1> QED
  BY <1>1, <1>2 DEF Each

(* The steps of the monitors, and then what is asked of ceph and of the first    *)
(* host.                                                                    *)
Laid(s) ==
    /\ s \in Seq(TaskSet) /\ Len(s) >= 8
    /\ \A i \in 1 .. 8 : s[i] = Task("mons", StepNames[i])
    /\ \A i \in 9 .. Len(s) : s[i] \in LaterSet
Among(t, s) == \E i \in DOMAIN s : s[i] = t

LEMMA Extend ==
    ASSUME NEW s, Laid(s), NEW t \in Seq(LaterSet)
    PROVE  /\ Laid(s \o t)
           /\ Len(s \o t) = Len(s) + Len(t)
           /\ \A u : Among(u, s) => Among(u, s \o t)
           /\ \A i \in DOMAIN t : Among(t[i], s \o t)
<1>1. t \in Seq(TaskSet)
  BY SeqMonotonic DEF TaskSet
<1>2. /\ s \o t \in Seq(TaskSet) /\ Len(s \o t) = Len(s) + Len(t)
      /\ \A i \in 1 .. Len(s) : (s \o t)[i] = s[i]
      /\ \A i \in 1 .. Len(t) : (s \o t)[Len(s) + i] = t[i]
  BY <1>1 DEF Laid
<1>3. \A i \in 9 .. Len(s \o t) : (s \o t)[i] \in LaterSet
  <2> SUFFICES ASSUME NEW i \in 9 .. Len(s \o t) PROVE (s \o t)[i] \in LaterSet
    OBVIOUS
  <2>1. CASE i <= Len(s)
    BY <1>2, <2>1 DEF Laid
  <2>2. CASE i > Len(s)
    <3>1. i - Len(s) \in 1 .. Len(t) /\ Len(s) + (i - Len(s)) = i
      BY <1>2, <2>2 DEF Laid
    <3>2. (s \o t)[i] = t[i - Len(s)]
      BY <1>2, <3>1
    <3> QED
      BY <3>1, <3>2
  <2> QED
    BY <2>1, <2>2, <1>2 DEF Laid
<1>4. Laid(s \o t)
  <2>1. Len(s \o t) >= 8 /\ \A i \in 1 .. 8 : (s \o t)[i] = s[i]
    BY <1>2 DEF Laid
  <2> QED
    BY <1>2, <1>3, <2>1 DEF Laid
<1>5. ASSUME NEW u, Among(u, s) PROVE Among(u, s \o t)
  <2>1. PICK i \in DOMAIN s : s[i] = u
    BY <1>5 DEF Among
  <2>2. i \in DOMAIN (s \o t) /\ (s \o t)[i] = u
    BY <1>2, <2>1 DEF Laid
  <2> QED
    BY <2>2 DEF Among
<1>6. ASSUME NEW i \in DOMAIN t PROVE Among(t[i], s \o t)
  <2>1. Len(s) + i \in DOMAIN (s \o t) /\ (s \o t)[Len(s) + i] = t[i]
    BY <1>2 DEF Laid
  <2> QED
    BY <2>1 DEF Among
<1>7. Len(s \o t) = Len(s) + Len(t)
  BY <1>2
<1> QED
  BY <1>4, <1>5, <1>6, <1>7

(* The include comes right after the keyring of client.admin.                  *)
Admin == Task("keyring", "client.admin")
Once(s) == /\ s \in Seq(TaskSet) /\ Len(s) >= 10 /\ s[9] = Admin
           /\ \A i \in 1 .. Len(s) : s[i].task = "refetch" => i = 10

LEMMA OnceExtend ==
    ASSUME NEW s, Once(s), NEW t \in Seq(AskSet) PROVE Once(s \o t)
<1>1. t \in Seq(TaskSet) /\ s \in Seq(TaskSet)
  BY SeqMonotonic DEF TaskSet, LaterSet, Once
<1>2. /\ s \o t \in Seq(TaskSet) /\ Len(s \o t) = Len(s) + Len(t)
      /\ \A i \in 1 .. Len(s) : (s \o t)[i] = s[i]
      /\ \A i \in 1 .. Len(t) : (s \o t)[Len(s) + i] = t[i]
      /\ Len(s) \in Nat /\ Len(t) \in Nat
  BY <1>1
<1>3. ASSUME NEW i \in 1 .. Len(s \o t), (s \o t)[i].task = "refetch" PROVE i = 10
  <2>1. CASE i <= Len(s)
    BY <1>2, <1>3, <2>1 DEF Once
  <2>2. CASE i > Len(s)
    <3>1. i - Len(s) \in 1 .. Len(t) /\ Len(s) + (i - Len(s)) = i
      BY <1>2, <2>2
    <3>2. (s \o t)[i] = t[i - Len(s)] /\ t[i - Len(s)] \in AskSet
      BY <1>2, <3>1
    <3> QED
      BY <1>3, <3>2 DEF AskSet
  <2> QED
    BY <1>2, <2>1, <2>2
<1> QED
  BY <1>2, <1>3 DEF Once

LEMMA DeployedOnce == Once(DeployTasks)
<1> DEFINE m == Each("mons", StepNames)
           g == <<Task("keyring", "client.admin"), Task("refetch", "keys")>>
           k == Each("keyring", Entities)
           c == Each("class", Osds)
           f == Each("pool", FsPools)
           l == <<Task("fs", "cephfs")>>
           o == Each("pool", OtherPools)
<1>1. Once(m \o g)
  <2>1. StepNames \in Seq(Steps) /\ Len(StepNames) = 8 /\ DOMAIN StepNames = 1 .. 8
    BY DEF StepNames, Steps
  <2>2. [task : {"mons"}, arg : Steps] \subseteq TaskSet
    BY DEF TaskSet
  <2>3. /\ m \in Seq(TaskSet) /\ Len(m) = 8
        /\ \A i \in 1 .. 8 : m[i] = Task("mons", StepNames[i])
    BY <2>1, <2>2, EachTask
  <2>4. \A i \in 1 .. 8 : m[i].task = "mons"
    BY <2>3 DEF Task
  <2>5. g \in Seq(TaskSet) /\ Len(g) = 2 /\ g[1] = Admin /\ g[2].task = "refetch"
    <3>1. Task("keyring", "client.admin") \in TaskSet /\ Task("refetch", "keys") \in TaskSet
      BY DEF TaskSet, LaterSet, AskSet, Keyrings, Task
    <3> QED
      BY <3>1 DEF Task, Admin
  <2> HIDE DEF m, g
  <2>6. /\ m \o g \in Seq(TaskSet) /\ Len(m \o g) = 10
        /\ \A i \in 1 .. 8 : (m \o g)[i] = m[i]
        /\ (m \o g)[9] = g[1] /\ (m \o g)[10] = g[2]
    <3>1. /\ m \o g \in Seq(TaskSet) /\ Len(m \o g) = Len(m) + Len(g)
          /\ \A i \in 1 .. Len(m) : (m \o g)[i] = m[i]
          /\ \A i \in 1 .. Len(g) : (m \o g)[Len(m) + i] = g[i]
      <4>1. m \in Seq(TaskSet) /\ g \in Seq(TaskSet)
        BY <2>3, <2>5
      <4> QED
        BY <4>1
    <3> QED
      BY <3>1, <2>3, <2>5
  <2>7. \A i \in 1 .. 10 : i \in 1 .. 8 \/ i = 9 \/ i = 10
    OBVIOUS
  <2>8. Admin.task # "refetch"
    BY DEF Admin, Task
  <2> QED
    BY <2>4, <2>5, <2>6, <2>7, <2>8 DEF Once
<1>2. /\ k \in Seq(AskSet) /\ c \in Seq(AskSet) /\ f \in Seq(AskSet) /\ o \in Seq(AskSet)
      /\ l \in Seq(AskSet)
  <2>1. k \in Seq(AskSet)
    BY EachTask, Assumed DEF AskSet, Keyrings
  <2>2. c \in Seq(AskSet)
    BY EachTask, Assumed DEF AskSet
  <2>3. f \in Seq(AskSet) /\ o \in Seq(AskSet)
    BY EachTask, Assumed DEF AskSet
  <2>4. l \in Seq(AskSet)
    BY DEF AskSet, Task
  <2> QED
    BY <2>1, <2>2, <2>3, <2>4
<1>3. DeployTasks = (((((m \o g) \o k) \o c) \o f) \o l) \o o
  BY DEF DeployTasks, StepNames
<1> HIDE DEF m, g, k, c, f, l, o
<1>4. Once((((m \o g) \o k) \o c) \o f)
  <2>1. Once((m \o g) \o k)
    BY <1>1, <1>2, OnceExtend
  <2>2. Once(((m \o g) \o k) \o c)
    BY <2>1, <1>2, OnceExtend
  <2> QED
    BY <2>2, <1>2, OnceExtend
<1>5. Once(((((m \o g) \o k) \o c) \o f) \o l)
  BY <1>4, <1>2, OnceExtend
<1> QED
  BY <1>3, <1>5, <1>2, OnceExtend

LEMMA Deployed ==
    /\ Laid(DeployTasks) /\ Len(DeployTasks) > 8
    /\ \A e \in Keyrings : Among(Task("keyring", e), DeployTasks)
    /\ \A o \in Range(Osds) : Among(Task("class", o), DeployTasks)
    /\ \A p \in Pools : Among(Task("pool", p), DeployTasks)
    /\ Among(Task("fs", "cephfs"), DeployTasks)
<1> DEFINE m == Each("mons", StepNames)
           g == <<Task("keyring", "client.admin"), Task("refetch", "keys")>>
           k == Each("keyring", Entities)
           c == Each("class", Osds)
           f == Each("pool", FsPools)
           l == <<Task("fs", "cephfs")>>
           o == Each("pool", OtherPools)
<1>1. Laid(m)
  <2>1. StepNames \in Seq(Steps) /\ Len(StepNames) = 8
    BY DEF StepNames, Steps
  <2>2. [task : {"mons"}, arg : Steps] \subseteq TaskSet
    BY DEF TaskSet
  <2>3. DOMAIN StepNames = 1 .. 8
    BY <2>1
  <2>4. /\ m \in Seq(TaskSet) /\ Len(m) = 8
        /\ \A i \in 1 .. 8 : m[i] = Task("mons", StepNames[i])
    BY <2>1, <2>2, <2>3, EachTask
  <2> QED
    BY <2>4 DEF Laid
<1>2. k \in Seq(LaterSet) /\ \A i \in DOMAIN Entities : i \in DOMAIN k /\ k[i] = Task("keyring", Entities[i])
  BY EachTask, Assumed DEF AskSet, LaterSet, Keyrings
<1>3. c \in Seq(LaterSet) /\ \A i \in DOMAIN Osds : i \in DOMAIN c /\ c[i] = Task("class", Osds[i])
  BY EachTask, Assumed DEF AskSet, LaterSet, Keyrings
<1>4. f \in Seq(LaterSet) /\ \A i \in DOMAIN FsPools : i \in DOMAIN f /\ f[i] = Task("pool", FsPools[i])
  BY EachTask, Assumed DEF AskSet, LaterSet, Keyrings
<1>5. o \in Seq(LaterSet) /\ \A i \in DOMAIN OtherPools : i \in DOMAIN o /\ o[i] = Task("pool", OtherPools[i])
  BY EachTask, Assumed DEF AskSet, LaterSet, Keyrings
<1>6. l \in Seq(LaterSet) /\ Len(l) = 1 /\ l[1] = Task("fs", "cephfs") /\ 1 \in DOMAIN l
  BY DEF AskSet, LaterSet, Task
<1>7. g \in Seq(LaterSet) /\ 1 \in DOMAIN g /\ g[1] = Task("keyring", "client.admin")
  BY DEF AskSet, LaterSet, Keyrings, Task
<1>13. DeployTasks = (((((m \o g) \o k) \o c) \o f) \o l) \o o
  BY DEF DeployTasks, StepNames
<1> HIDE DEF m, g, k, c, f, l, o
<1>14. Laid(m \o g) /\ Among(Task("keyring", "client.admin"), m \o g)
  BY <1>1, <1>7, Extend
<1>8. Laid((m \o g) \o k) /\ \A e \in Keyrings : Among(Task("keyring", e), (m \o g) \o k)
  <2>1. /\ Laid((m \o g) \o k) /\ Among(Task("keyring", "client.admin"), (m \o g) \o k)
        /\ \A e \in Range(Entities) : Among(Task("keyring", e), (m \o g) \o k)
    BY <1>14, <1>2, Extend DEF Range
  <2> QED
    BY <2>1 DEF Keyrings
<1>9. /\ Laid(((m \o g) \o k) \o c)
      /\ \A e \in Keyrings : Among(Task("keyring", e), ((m \o g) \o k) \o c)
      /\ \A x \in Range(Osds) : Among(Task("class", x), ((m \o g) \o k) \o c)
  BY <1>8, <1>3, Extend DEF Range
<1>10. /\ Laid((((m \o g) \o k) \o c) \o f)
       /\ \A u : Among(u, ((m \o g) \o k) \o c) => Among(u, (((m \o g) \o k) \o c) \o f)
       /\ \A p \in Range(FsPools) : Among(Task("pool", p), (((m \o g) \o k) \o c) \o f)
  BY <1>9, <1>4, Extend DEF Range
<1>11. /\ Laid(((((m \o g) \o k) \o c) \o f) \o l)
       /\ Len(((((m \o g) \o k) \o c) \o f) \o l) > 8
       /\ \A u : Among(u, (((m \o g) \o k) \o c) \o f) => Among(u, ((((m \o g) \o k) \o c) \o f) \o l)
       /\ Among(Task("fs", "cephfs"), ((((m \o g) \o k) \o c) \o f) \o l)
  <2>1. Laid(((((m \o g) \o k) \o c) \o f) \o l)
        /\ Len(((((m \o g) \o k) \o c) \o f) \o l) = Len((((m \o g) \o k) \o c) \o f) + 1
    BY <1>10, <1>6, Extend
  <2>2. Len((((m \o g) \o k) \o c) \o f) >= 8 /\ Len((((m \o g) \o k) \o c) \o f) \in Nat
    BY <1>10 DEF Laid
  <2>3. \A u : Among(u, (((m \o g) \o k) \o c) \o f) => Among(u, ((((m \o g) \o k) \o c) \o f) \o l)
    BY <1>10, <1>6, Extend
  <2>4. Among(l[1], ((((m \o g) \o k) \o c) \o f) \o l)
    <3>1. \A i \in DOMAIN l : Among(l[i], ((((m \o g) \o k) \o c) \o f) \o l)
      BY <1>10, <1>6, Extend
    <3> QED
      BY <3>1, <1>6
  <2> QED
    BY <2>1, <2>2, <2>3, <2>4, <1>6
<1>12. /\ Laid(DeployTasks) /\ Len(DeployTasks) > 8
       /\ \A u : Among(u, ((((m \o g) \o k) \o c) \o f) \o l) => Among(u, DeployTasks)
       /\ \A p \in Range(OtherPools) : Among(Task("pool", p), DeployTasks)
  <2>1. /\ Laid(DeployTasks) /\ Len(DeployTasks) = Len(((((m \o g) \o k) \o c) \o f) \o l) + Len(o)
        /\ \A u : Among(u, ((((m \o g) \o k) \o c) \o f) \o l) => Among(u, DeployTasks)
        /\ \A i \in DOMAIN o : Among(o[i], DeployTasks)
    BY <1>13, <1>11, <1>5, Extend
  <2>2. Len(o) \in Nat
    BY <1>5
  <2>3. \A s : Laid(s) => Len(s) \in Nat
    BY DEF Laid
  <2> QED
    <3>1. Len(DeployTasks) > 8
      BY <2>1, <2>2, <2>3, <1>11
    <3>2. \A i \in DOMAIN OtherPools : Among(Task("pool", OtherPools[i]), DeployTasks)
      BY <2>1, <1>5
    <3> QED
      BY <2>1, <3>1, <3>2 DEF Range
<1> QED
  BY <1>9, <1>10, <1>11, <1>12 DEF Pools

(* A play that begins has its tasks chained, and no command among them.        *)
LEMMA DeployedChain ==
    /\ DeployTasks \in Seq(TaskSet) /\ DeployTasks # <<>>
    /\ Head(DeployTasks) = Task("mons", "check")
    /\ Chained(DeployTasks)
    /\ \A i \in DOMAIN DeployTasks : DeployTasks[i].task # "command"
<1> DEFINE d == DeployTasks
<1>1. Laid(d) /\ Len(d) > 8
  BY Deployed
<1>2. d \in Seq(TaskSet) /\ d # <<>> /\ Head(d) = Task("mons", "check")
  BY <1>1 DEF Laid, StepNames
<1>3. \A i \in 1 .. 8 : d[i].task = "mons" /\ Rank(d[i]) = i
  BY <1>1 DEF Laid, Task, Rank, StepNames
<1>4. \A i \in 9 .. Len(d) : d[i].task \in {"keyring", "class", "pool", "fs", "refetch"} /\ Rank(d[i]) = 9
  BY <1>1 DEF Laid, AskSet, LaterSet, Rank
<1> HIDE DEF d
<1>5. ASSUME NEW i \in DOMAIN d, i > 1
      PROVE  d[i].task \notin {"bootstrap", "first"} /\ Rank(d[i]) = After(Rank(d[i - 1]))
  <2>1. i \in 2 .. Len(d) /\ Len(d) \in Nat
    BY <1>2, <1>5
  <2>2. CASE i <= 8
    <3>1. i - 1 \in 1 .. 8 /\ i \in 1 .. 8
      BY <2>1, <2>2
    <3> QED
      BY <3>1, <1>3 DEF After
  <2>3. CASE i = 9
    BY <2>1, <2>3, <1>3, <1>4 DEF After
  <2>4. CASE i > 9
    <3>1. i - 1 \in 9 .. Len(d) /\ i \in 9 .. Len(d)
      BY <2>1, <2>4
    <3> QED
      BY <3>1, <1>4 DEF After
  <2> QED
    BY <2>1, <2>2, <2>3, <2>4
<1>6. Rank(d[Len(d)]) = 9
  BY <1>1, <1>2, <1>4
<1>7. \A i \in DOMAIN d : d[i].task # "command"
  BY <1>1, <1>2, <1>3, <1>4
<1> QED
  BY <1>2, <1>5, <1>6, <1>7 DEF d, Chained
-----------------------------------------------------------------------------
(* What a task that is done does to the play, field by field.                  *)

Others(p, q) ==
    /\ p.alive = q.alive /\ p.fresh = q.fresh /\ p.active = q.active /\ p.temp = q.temp
    /\ p.generated = q.generated /\ p.available = q.available /\ p.keys = q.keys

Result(p) ==
    IF Tail(play.todo) # <<>> THEN play.result
    ELSE IF p.alive = Range(want.mons) THEN "ok" ELSE "failed"

LEMMA TodoTail ==
    ASSUME NEW s \in Seq(TaskSet), s # <<>>
    PROVE  /\ Tail(s) \in Seq(TaskSet) /\ Len(Tail(s)) = Len(s) - 1
           /\ Head(s) \in TaskSet /\ Head(s) = s[1] /\ Len(s) \in Nat \ {0}
           /\ \A i \in DOMAIN Tail(s) : i + 1 \in DOMAIN s /\ Tail(s)[i] = s[i + 1]
           /\ Tail(s) = <<>> <=> Len(s) = 1
<1>1. /\ Tail(s) \in Seq(TaskSet) /\ Len(Tail(s)) = Len(s) - 1 /\ Len(s) \in Nat \ {0}
      /\ Head(s) = s[1] /\ DOMAIN s = 1 .. Len(s) /\ DOMAIN Tail(s) = 1 .. Len(s) - 1
  OBVIOUS
<1>2. \A i \in 1 .. Len(s) - 1 : Tail(s)[i] = s[i + 1]
  OBVIOUS
<1>3. Head(s) \in TaskSet
  BY <1>1
<1>4. (Tail(s) = <<>>) <=> (Len(s) = 1)
  BY <1>1
<1> QED
  BY <1>1, <1>2, <1>3, <1>4

LEMMA PassFields ==
    ASSUME play \in PlaySet, play.todo # <<>>,
           NEW q \in PlaySet, q.todo = play.todo, q.result = play.result
    PROVE  /\ Pass(q) \in PlaySet /\ Others(Pass(q), q)
           /\ Pass(q).todo = Tail(play.todo) /\ Pass(q).left = q.alive
           /\ Pass(q).result = Result(q)
<1>1. Tail(play.todo) \in Seq(TaskSet)
  BY TodoTail DEF PlaySet
<1> DEFINE r == [q EXCEPT !.todo = Tail(@), !.left = q.alive]
<1>2. /\ r \in PlaySet /\ Others(r, q) /\ r.todo = Tail(play.todo) /\ r.left = q.alive
      /\ r.result = play.result
  BY <1>1 DEF PlaySet, Others
<1>3. Pass(q) = Over(r)
  BY DEF Pass
<1> HIDE DEF r
<1>4. CASE r.todo # <<>>
  BY <1>2, <1>3, <1>4 DEF Over, Result
<1>5. CASE r.todo = <<>>
  <2> DEFINE end == IF r.alive = Range(want.mons) THEN "ok" ELSE "failed"
  <2>1. Over(r) = [r EXCEPT !.result = end]
    BY <1>5 DEF Over
  <2>2. end \in {"none", "running", "ok", "failed"} /\ end = Result(q)
    BY <1>2, <1>5 DEF Result, Others
  <2> HIDE DEF end
  <2>3. /\ [r EXCEPT !.result = end] \in PlaySet /\ Others([r EXCEPT !.result = end], r)
        /\ [r EXCEPT !.result = end].todo = r.todo
        /\ [r EXCEPT !.result = end].left = r.left
        /\ [r EXCEPT !.result = end].result = end
    BY <1>2, <2>2 DEF PlaySet, Others
  <2> QED
    BY <1>2, <1>3, <2>1, <2>2, <2>3 DEF Others
<1> QED
  BY <1>4, <1>5

LEMMA DoneFields ==
    ASSUME play \in PlaySet, play.todo # <<>>,
           NEW q \in PlaySet, q.todo = play.todo, q.result = play.result, q.left = play.left,
           NEW h
    PROVE  /\ Done(q, h) \in PlaySet /\ Others(Done(q, h), q)
           /\ play.left = {h} =>
                  /\ Done(q, h).todo = Tail(play.todo) /\ Done(q, h).left = q.alive
                  /\ Done(q, h).result = Result(q)
           /\ play.left # {h} =>
                  /\ Done(q, h).todo = play.todo /\ Done(q, h).left = play.left \ {h}
                  /\ Done(q, h).result = play.result
<1>1. CASE play.left = {h}
  BY <1>1, PassFields DEF Done
<1>2. CASE play.left # {h}
  <2>1. Done(q, h) = [q EXCEPT !.left = @ \ {h}]
    BY <1>2 DEF Done
  <2>2. /\ [q EXCEPT !.left = @ \ {h}] \in PlaySet /\ Others([q EXCEPT !.left = @ \ {h}], q)
        /\ [q EXCEPT !.left = @ \ {h}].todo = q.todo
        /\ [q EXCEPT !.left = @ \ {h}].left = q.left \ {h}
        /\ [q EXCEPT !.left = @ \ {h}].result = q.result
    BY DEF PlaySet, Others
  <2> QED
    BY <1>2, <2>1, <2>2
<1> QED
  BY <1>1, <1>2

(* A step of the play: the task before it is over, or done on the host h.      *)
Passes == /\ play'.todo = Tail(play.todo) /\ play'.left = play'.alive
          /\ play'.result = Result(play')
DoneOn(h) == /\ play.left = {h} => Passes
             /\ play.left # {h} =>
                    /\ play'.todo = play.todo /\ play'.left = play.left \ {h}
                    /\ play'.result = play.result

Advances(H) ==
    /\ play.todo # <<>> /\ want' = want
    /\ play' \in PlaySet
    /\ play'.alive \subseteq play.alive /\ play'.alive # {}
    /\ {play'.active, play'.temp, play'.available} \subseteq Range(want.mons) \cup {None}
    /\ \/ Passes /\ H = play.left
       \/ \E h \in play.left :
              DoneOn(h) /\ H = {h} /\ play.left \ {h} \subseteq play'.alive

LEMMA Chain ==
    ASSUME NEW s \in Seq(TaskSet), s # <<>>, Chained(s)
    PROVE  /\ Chained(Tail(s))
           /\ Tail(s) # <<>> => /\ Rank(Head(Tail(s))) = After(Rank(Head(s)))
                                /\ Head(Tail(s)).task \notin {"bootstrap", "first"}
           /\ Tail(s) = <<>> => Rank(Head(s)) = 9
<1>1. /\ Tail(s) \in Seq(TaskSet) /\ Len(Tail(s)) = Len(s) - 1 /\ Head(s) = s[1]
      /\ \A i \in DOMAIN Tail(s) : i + 1 \in DOMAIN s /\ Tail(s)[i] = s[i + 1]
      /\ Len(s) \in Nat \ {0} /\ (Tail(s) = <<>> <=> Len(s) = 1)
  BY TodoTail
<1>2. ASSUME NEW i \in DOMAIN Tail(s), i > 1
      PROVE  /\ Tail(s)[i].task \notin {"bootstrap", "first"}
             /\ Rank(Tail(s)[i]) = After(Rank(Tail(s)[i - 1]))
  <2>1. i - 1 \in DOMAIN Tail(s) /\ (i - 1) + 1 = i /\ (i + 1) - 1 = i /\ i + 1 > 1
    BY <1>1, <1>2
  <2>2. Tail(s)[i] = s[i + 1] /\ Tail(s)[i - 1] = s[i] /\ i + 1 \in DOMAIN s
    BY <1>1, <2>1
  <2>3. s[i + 1].task \notin {"bootstrap", "first"} /\ Rank(s[i + 1]) = After(Rank(s[(i + 1) - 1]))
    BY <2>1, <2>2 DEF Chained
  <2> QED
    BY <2>1, <2>2, <2>3
<1>3. ASSUME Tail(s) # <<>>
      PROVE  /\ Rank(Head(Tail(s))) = After(Rank(Head(s)))
             /\ Head(Tail(s)).task \notin {"bootstrap", "first"}
             /\ Rank(Tail(s)[Len(Tail(s))]) = 9
  <2>1. 1 \in DOMAIN Tail(s) /\ Len(Tail(s)) \in DOMAIN Tail(s) /\ Head(Tail(s)) = Tail(s)[1]
    BY <1>1, <1>3
  <2>2. Head(Tail(s)) = s[2] /\ 2 \in DOMAIN s /\ Tail(s)[Len(Tail(s))] = s[Len(s)]
    BY <1>1, <2>1
  <2>3. s[2].task \notin {"bootstrap", "first"} /\ Rank(s[2]) = After(Rank(s[2 - 1])) /\ 2 - 1 = 1
    BY <2>2 DEF Chained
  <2> QED
    BY <1>1, <2>2, <2>3 DEF Chained
<1> QED
  BY <1>1, <1>2, <1>3 DEF Chained

LEMMA AdvancePlaying ==
    ASSUME Types, Playing, NEW H, Advances(H)
    PROVE  Playing'
<1>1. /\ play.todo \in Seq(TaskSet) /\ play.todo # <<>> /\ Tail(play.todo) \in Seq(TaskSet)
      /\ play.result = "running"
  BY TodoTail DEF Types, PlaySet, Playing, Advances
<1>2. Chained(Tail(play.todo)) /\ Chained(play.todo)
  BY <1>1, Chain DEF Playing
<1>3. CASE Passes
  BY <1>1, <1>2, <1>3 DEF Advances, Passes, Result, Playing
<1>4. CASE \E h \in play.left :
               DoneOn(h) /\ play.left # {h} /\ play.left \ {h} \subseteq play'.alive
  BY <1>1, <1>2, <1>4 DEF Advances, DoneOn, Playing
<1> QED
  BY <1>3, <1>4 DEF Advances, DoneOn

LEMMA AdvanceStage ==
    ASSUME Types, Playing, NEW H, Advances(H)
    PROVE  /\ \A r \in 1 .. 8 : HaveDone(r)' \subseteq
                  HaveDone(r) \cup (IF Stage = r THEN H ELSE {})
           /\ \A r \in 1 .. 8 : HaveDone(r)' \subseteq play'.alive
           /\ BeforeKeys' => BeforeKeys
           /\ AtTask("bootstrap")' => AtTask("bootstrap") /\ play'.todo = play.todo
           /\ Making' => Making
           /\ Stage' > 6 => Stage >= 6
           /\ Stage \in 1 .. 9
<1>1. /\ play.todo \in Seq(TaskSet) /\ play.todo # <<>> /\ Tail(play.todo) \in Seq(TaskSet)
      /\ Head(play.todo) \in TaskSet
  BY TodoTail DEF Types, PlaySet, Playing, Advances
<1>2. Stage = Rank(Head(play.todo)) /\ Stage \in 1 .. 9
  BY <1>1, Ranks DEF Stage
<1>3. CASE Passes /\ H = play.left
  <2>1. H = play.left /\ play'.alive \subseteq play.alive
    BY <1>3 DEF Advances
  <2>2. /\ play'.todo # <<>> => /\ Stage' = After(Stage)
                                /\ Head(play'.todo).task \notin {"bootstrap", "first"}
        /\ play'.todo = <<>> => Stage = 9 /\ Stage' \in {0, 9}
    BY <1>1, <1>2, <1>3, Chain DEF Passes, Stage, Playing
  <2>3. Stage' \in {0} \cup 1 .. 9 /\ (Stage' # 0 /\ Stage < 9 => Stage' = Stage + 1)
        /\ (Stage < 9 => play'.todo # <<>>)
    BY <1>2, <2>2 DEF After
  <2>4. ASSUME NEW r \in 1 .. 8
        PROVE  HaveDone(r)' \subseteq HaveDone(r) \cup (IF Stage = r THEN H ELSE {})
    <3>1. CASE Stage' > r
      <4>1. HaveDone(r)' = play'.alive /\ Stage >= r
        BY <1>2, <2>2, <2>3, <3>1 DEF HaveDone
      <4> QED
        BY <1>2, <2>1, <4>1 DEF HaveDone
    <3>2. CASE ~(Stage' > r)
      BY <1>3, <3>2 DEF HaveDone, Passes
    <3> QED
      BY <3>1, <3>2
  <2>5. \A r \in 1 .. 8 : HaveDone(r)' \subseteq play'.alive
    BY DEF HaveDone
  <2>6. ~AtTask("bootstrap")' /\ ~Making'
    BY <2>2 DEF AtTask, Making
  <2>7. BeforeKeys' => BeforeKeys
    <3> SUFFICES ASSUME BeforeKeys' PROVE BeforeKeys
      OBVIOUS
    <3>1. Stage <= 3
      BY <1>2, <2>2 DEF BeforeKeys, After
    <3>2. ~AtTask("bootstrap") /\ ~AtTask("first")
      BY <1>1, <1>2, <3>1, Ranks DEF AtTask
    <3> QED
      BY <1>1, <1>2, <3>1, <3>2 DEF BeforeKeys
  <2>8. Stage' > 6 => Stage >= 6
    BY <1>2, <2>2 DEF After
  <2> QED
    BY <1>2, <2>4, <2>5, <2>6, <2>7, <2>8
<1>4. CASE \E h \in play.left :
               DoneOn(h) /\ H = {h} /\ play.left # {h} /\ play.left \ {h} \subseteq play'.alive
  <2>1. PICK h \in play.left : DoneOn(h) /\ H = {h} /\ play.left # {h}
    BY <1>4
  <2>2. /\ play'.todo = play.todo /\ play'.left = play.left \ {h} /\ play'.alive \subseteq play.alive
        /\ play'.result = play.result
    BY <2>1 DEF DoneOn, Advances
  <2>3. Stage' = Stage
    BY <1>1, <2>2 DEF Stage
  <2>4. \A name : AtTask(name)' <=> AtTask(name)
    BY <2>2 DEF AtTask
  <2>5. \A r \in 1 .. 8 : /\ HaveDone(r)' \subseteq HaveDone(r) \cup (IF Stage = r THEN H ELSE {})
                          /\ HaveDone(r)' \subseteq play'.alive
    BY <2>1, <2>2, <2>3 DEF HaveDone
  <2>6. (BeforeKeys' => BeforeKeys) /\ (Making' => Making)
    BY <2>2, <2>3, <2>4 DEF BeforeKeys, Making
  <2> QED
    BY <1>2, <2>2, <2>3, <2>4, <2>5, <2>6
<1> QED
  BY <1>3, <1>4 DEF Advances, DoneOn
-----------------------------------------------------------------------------
(* The volumes and the keys when the play goes on or ends; H are the hosts     *)
(* that have just done the task before them.                                 *)

Follows(H) ==
    /\ \A r \in 1 .. 8 :
           HaveDone(r)' \subseteq HaveDone(r) \cup (IF Stage = r THEN H ELSE {})
    /\ BeforeKeys' => BeforeKeys
    /\ ~AtTask("bootstrap")'
    /\ Making' => Making
    /\ Stage' > 6 => Stage >= 6

LEMMA FollowVolumes ==
    ASSUME Types, Volumes, NEW H, Follows(H), want' = want, volume' = volume, made' = made,
           \A h \in Hosts : mon'[h].state # "down" => volume[h] # None,
           \A h \in Hosts : mon'[h].state = "up" => mon'[h].key # 0,
           BeforeKeys' => mon' = mon /\ play'.fresh = play.fresh,
           BeforeKeys' /\ play.temp # None => play'.temp # None,
           Stage # 2,
           Stage = 3 => \A h \in H \cap HaveDone(3)' : h \in play.fresh \/ play'.temp # None,
           Stage = 6 /\ Stage' > 6 => play'.keys # <<>>,
           Stage # 6 => play'.keys = play.keys \/ play'.keys # <<>>,
           Stage \in 0 .. 9
    PROVE  Volumes'
<1>1. \A h \in HaveDone(2)' : volume[h] # None
  BY DEF Follows, Volumes
<1>2. BeforeKeys' => \A h \in HaveDone(3)' : h \in play'.fresh \/ play'.temp # None
  BY DEF Follows, Volumes
<1>3. BeforeKeys' => \A h \in play'.fresh : volume[h] = <<>> /\ mon'[h].state = "down"
  BY DEF Follows, Volumes
<1>4. (\A h : Filled(h)' <=> Filled(h)) /\ FilledHosts' = FilledHosts /\ First' = First
  BY DEF Filled, FilledHosts, First
<1>5. Making' => Filled(First)' /\ made' > 0
  BY <1>4 DEF Follows, Volumes
<1>6. Stage' > 6 => play'.keys # <<>>
  BY DEF Follows, Volumes
<1>7. made' <= Cardinality(FilledHosts')
  BY <1>4 DEF Volumes
<1>8. ~AtTask("bootstrap")'
  BY DEF Follows
<1> HIDE DEF HaveDone, BeforeKeys, Making, Stage, Filled, FilledHosts, First, AtTask
<1> QED
  BY <1>1, <1>2, <1>3, <1>5, <1>6, <1>7, <1>8 DEF Volumes

LEMMA FollowKeys ==
    ASSUME Keys, NEW H, Follows(H), want' = want, volume' = volume, made' = made,
           \A h \in Hosts : mon'[h].key = mon[h].key,
           \A h \in Hosts : mon'[h].state # "down" => made = 1 /\ Begun(pushed'[h]),
           \A h \in HaveDone(7)' : Whole(pushed'[h]),
           Making' => pushed' = pushed,
           play'.keys # <<>> => made = 1 /\ Whole(play'.keys)
    PROVE  Keys'
<1>1. (\A h : Filled(h)' <=> Filled(h)) /\ First' = First
  BY DEF Filled, First
<1>2. Making' => pushed'[First'] = <<>>
  BY <1>1 DEF Keys, Follows
<1> QED
  BY <1>1, <1>2 DEF Keys, Begun, Whole

LEMMA FailFacts ==
    ASSUME Types, Playing, AllFail, want' = want
    PROVE  /\ play' \in PlaySet /\ Playing' /\ Follows({}) /\ Others(play', play)
           /\ play'.todo = <<>> /\ play'.result = "failed" /\ Stage' = 0
           /\ ~BeforeKeys' /\ ~Making'
<1>1. /\ play' \in PlaySet /\ Others(play', play) /\ play'.left = play.left
      /\ play'.todo = <<>> /\ play'.result = "failed"
  <2>1. play \in PlaySet /\ play' = [play EXCEPT !.todo = <<>>, !.result = "failed"]
    BY DEF AllFail, Types
  <2>2. <<>> \in Seq(TaskSet)
    OBVIOUS
  <2> QED
    BY <2>1, <2>2 DEF PlaySet, Others
<1>2. Stage' = 0 /\ ~BeforeKeys' /\ ~Making' /\ ~AtTask("bootstrap")'
  BY <1>1 DEF Stage, BeforeKeys, Making, AtTask
<1>3. \A r \in 1 .. 8 : HaveDone(r)' = {}
  BY <1>2 DEF HaveDone
<1>4. Chained(play'.todo)
  BY <1>1 DEF Chained
<1>5. Playing'
  BY <1>1, <1>4 DEF Playing, Others
<1> QED
  BY <1>1, <1>2, <1>3, <1>5 DEF Follows

LEMMA StageType ==
    ASSUME Types PROVE Stage \in 0 .. 9
<1>1. play.todo # <<>> => Head(play.todo) \in TaskSet
  BY TodoTail DEF Types, PlaySet
<1> QED
  BY <1>1, Ranks DEF Stage

(* The task at the head tells the stage.                                      *)
LEMMA StageOf ==
    ASSUME Types
    PROVE  /\ At("check") => Stage = 1
           /\ At("volume") => Stage = 2
           /\ At("write") => Stage = 3
           /\ At("generate") => Stage = 4
           /\ At("register") => Stage = 5
           /\ At("fetch") => Stage = 6
           /\ At("push") => Stage = 7
           /\ At("up") => Stage = 8
           /\ AtTask("bootstrap") \/ AtTask("first") => Stage = 4
           /\ (InCeph \/ AtTask("refetch")) <=> (play.todo # <<>> /\ Stage = 9)
           /\ \A s : At(s) => play.todo # <<>> /\ ~AtTask("bootstrap") /\ ~AtTask("first")
           /\ \A s : AtTask(s) => play.todo # <<>>
<1>1. play.todo # <<>> => Head(play.todo) \in TaskSet
  BY TodoTail DEF Types, PlaySet
<1>2. play.todo # <<>> => Stage = Rank(Head(play.todo))
  BY DEF Stage
<1>3. \A s : At(s) => play.todo # <<>> /\ Head(play.todo).task = "mons" /\ Head(play.todo).arg = s
  BY DEF At, AtTask
<1>4. (InCeph \/ AtTask("refetch")) <=> (play.todo # <<>> /\ Stage = 9)
  BY <1>1, <1>2, Ranks DEF InCeph, AtTask
<1> QED
  BY <1>1, <1>2, <1>3, <1>4, Ranks DEF AtTask

LEMMA AdvanceFollows ==
    ASSUME Types, Playing, NEW H, Advances(H), Passes \/ ~AtTask("bootstrap")
    PROVE  Follows(H)
<1>1. play.todo # Tail(play.todo)
  BY TodoTail DEF Types, PlaySet, Advances
<1>2. ~AtTask("bootstrap")'
  BY <1>1, AdvanceStage DEF Passes
<1> QED
  BY <1>2, AdvanceStage DEF Follows

LEMMA HostFailFacts ==
    ASSUME Types, Playing, NEW h \in play.left, HostFails(h), want' = want,
           play.todo # <<>>, ~AtTask("bootstrap")
    PROVE  /\ play' \in PlaySet /\ Playing' /\ Follows({})
           /\ play'.fresh = play.fresh /\ play'.temp = play.temp /\ play'.keys = play.keys
           /\ play'.alive \subseteq play.alive
<1>1. CASE play.alive = {h}
  BY <1>1, FailFacts DEF HostFails, Others
<1>2. CASE play.alive # {h}
  <2> DEFINE q == [play EXCEPT !.alive = @ \ {h}]
  <2>1. /\ q \in PlaySet /\ q.todo = play.todo /\ q.result = play.result /\ q.left = play.left
        /\ q.alive = play.alive \ {h} /\ Others(q, [play EXCEPT !.alive = q.alive])
        /\ q.fresh = play.fresh /\ q.active = play.active /\ q.temp = play.temp
        /\ q.available = play.available /\ q.keys = play.keys
    BY DEF Types, PlaySet, Others
  <2>2. play' = Done(q, h)
    BY <1>2 DEF HostFails
  <2> HIDE DEF q
  <2>3. /\ play' \in PlaySet /\ Others(play', q)
        /\ play.left = {h} =>
               /\ play'.todo = Tail(play.todo) /\ play'.left = q.alive /\ play'.result = Result(q)
        /\ play.left # {h} =>
               /\ play'.todo = play.todo /\ play'.left = play.left \ {h}
               /\ play'.result = play.result
    BY <2>1, <2>2, DoneFields DEF Types
  <2>4. DoneOn(h)
    BY <2>3 DEF DoneOn, Passes, Others, Result
  <2>5. Advances({h})
    BY <1>2, <2>1, <2>3, <2>4 DEF Advances, Others, Playing
  <2>6. Playing' /\ Follows({h})
    BY <2>5, AdvancePlaying, AdvanceFollows
  <2>7. \A r \in 1 .. 8 : HaveDone(r)' \subseteq play.alive \ {h}
    BY <2>1, <2>3, <2>5, AdvanceStage DEF Others
  <2>8. Follows({})
    BY <2>6, <2>7 DEF Follows
  <2> QED
    BY <2>1, <2>3, <2>6, <2>8 DEF Others
<1> QED
  BY <1>1, <1>2
-----------------------------------------------------------------------------
(* Tasks that change the play and nothing else.                               *)

Quiet == UNCHANGED <<want, volume, pushed, mon, made, tainted>>

LEMMA QuietStep ==
    ASSUME ClusterInv, Types', Playing', Quiet, NEW H, Follows(H),
           BeforeKeys' => play'.fresh = play.fresh,
           BeforeKeys' /\ play.temp # None => play'.temp # None,
           Stage # 2,
           Stage = 3 => \A h \in H \cap HaveDone(3)' : h \in play.fresh \/ play'.temp # None,
           Stage = 7 => H = {},
           Stage = 6 /\ Stage' > 6 => play'.keys # <<>>,
           Stage # 6 => play'.keys = play.keys \/ play'.keys # <<>>,
           ~tainted /\ play'.keys \notin {<<>>, play.keys} => made = 1 /\ Whole(play'.keys)
    PROVE  ClusterInv'
<1>1. Types /\ Playing /\ Volumes /\ (~tainted => Keys)
  BY DEF ClusterInv
<1>2. /\ want' = want /\ volume' = volume /\ pushed' = pushed /\ mon' = mon /\ made' = made
      /\ tainted' = tainted
  BY DEF Quiet
<1>3. Volumes'
  <2>1. \A h \in Hosts : mon'[h].state # "down" => volume[h] # None
    BY <1>1, <1>2 DEF Volumes
  <2>2. \A h \in Hosts : mon'[h].state = "up" => mon'[h].key # 0
    BY <1>1, <1>2 DEF Volumes
  <2> QED
    BY <1>1, <1>2, <2>1, <2>2, FollowVolumes, StageType
<1>4. ASSUME ~tainted PROVE Keys'
  <2>1. \A h \in HaveDone(7)' : Whole(pushed'[h])
    BY <1>1, <1>2, <1>4 DEF Keys, Follows
  <2>2. play'.keys # <<>> => made = 1 /\ Whole(play'.keys)
    BY <1>1, <1>4 DEF Keys
  <2>3. \A h \in Hosts : mon'[h].state # "down" => made = 1 /\ Begun(pushed'[h])
    BY <1>1, <1>2, <1>4 DEF Keys
  <2> QED
    BY <1>1, <1>2, <1>4, <2>1, <2>2, <2>3, FollowKeys
<1> QED
  BY <1>2, <1>3, <1>4 DEF ClusterInv

LEMMA PassStep ==
    ASSUME ClusterInv, Types', Quiet, play.todo # <<>>,
           NEW q \in PlaySet, play' = Pass(q), q.todo = play.todo, q.result = play.result,
           q.alive \subseteq play.alive, q.alive # {},
           {q.active, q.temp, q.available} \subseteq Range(want.mons) \cup {None},
           q.fresh = play.fresh, q.temp = play.temp,
           Stage \notin {2, 3, 7},
           Stage = 6 => q.keys # <<>>,
           Stage # 6 => q.keys = play.keys \/ q.keys # <<>>,
           ~tainted /\ q.keys # play.keys => made = 1 /\ Whole(q.keys)
    PROVE  ClusterInv'
<1>1. Types /\ Playing /\ want' = want
  BY DEF ClusterInv, Quiet
<1>2. /\ play' \in PlaySet /\ Others(play', q) /\ play'.todo = Tail(play.todo)
      /\ play'.left = q.alive /\ play'.result = Result(q)
  BY <1>1, PassFields DEF Types
<1>3. Passes
  BY <1>2 DEF Passes, Others, Result
<1>4. Advances(play.left)
  BY <1>1, <1>2, <1>3 DEF Advances, Others
<1>5. Playing' /\ Follows(play.left)
  BY <1>1, <1>3, <1>4, AdvancePlaying, AdvanceFollows
<1> QED
  BY <1>2, <1>5, QuietStep DEF Others

LEMMA FailStep ==
    ASSUME ClusterInv, AllFail, Quiet, Types'
    PROVE  ClusterInv'
<1>1. Types /\ Playing /\ Volumes /\ (~tainted => Keys)
  BY DEF ClusterInv
<1>2. /\ want' = want /\ volume' = volume /\ pushed' = pushed /\ mon' = mon /\ made' = made
      /\ tainted' = tainted
  BY DEF Quiet
<1>3. /\ Playing' /\ Follows({}) /\ Others(play', play) /\ Stage' = 0
      /\ ~BeforeKeys' /\ ~Making'
  BY <1>1, <1>2, FailFacts
<1>4. (\A h : Filled(h)' <=> Filled(h)) /\ FilledHosts' = FilledHosts
  BY <1>2 DEF Filled, FilledHosts
<1>5. ~AtTask("bootstrap")' /\ HaveDone(2)' = {} /\ HaveDone(3)' = {} /\ HaveDone(7)' = {}
  BY <1>3 DEF Follows, HaveDone
<1>6. Volumes'
  <2> HIDE DEF HaveDone, BeforeKeys, Making, Stage, Filled, FilledHosts, First, AtTask
  <2> QED
    BY <1>1, <1>2, <1>3, <1>4, <1>5 DEF Volumes
<1>7. ASSUME ~tainted PROVE Keys'
  <2> HIDE DEF HaveDone, Making, Stage, Filled, First, AtTask
  <2> QED
    BY <1>1, <1>2, <1>3, <1>4, <1>5, <1>7 DEF Keys, Others, Begun, Whole
<1> QED
  BY <1>2, <1>3, <1>6, <1>7 DEF ClusterInv

LEMMA HostFailStep ==
    ASSUME ClusterInv, Types', NEW h \in play.left, HostFails(h), Quiet,
           play.todo # <<>>, ~AtTask("bootstrap"), Stage # 6
    PROVE  ClusterInv'
<1>1. Types /\ Playing /\ Volumes /\ (~tainted => Keys)
  BY DEF ClusterInv
<1>2. /\ want' = want /\ volume' = volume /\ pushed' = pushed /\ mon' = mon /\ made' = made
      /\ tainted' = tainted
  BY DEF Quiet
<1>3. /\ Playing' /\ Follows({})
      /\ play'.fresh = play.fresh /\ play'.temp = play.temp /\ play'.keys = play.keys
  BY <1>1, <1>2, HostFailFacts
<1>4. Volumes'
  <2>1. \A r \in 1 .. 8 : HaveDone(r)' \subseteq HaveDone(r)
    BY <1>3 DEF Follows
  <2>2. /\ \A g \in HaveDone(2)' : volume'[g] # None
        /\ BeforeKeys' => \A g \in HaveDone(3)' : g \in play'.fresh \/ play'.temp # None
        /\ BeforeKeys' => \A g \in play'.fresh : volume'[g] = <<>> /\ mon'[g].state = "down"
    BY <1>1, <1>2, <1>3, <2>1 DEF Volumes, Follows
  <2>3. (\A g : Filled(g)' <=> Filled(g)) /\ FilledHosts' = FilledHosts /\ First' = First
    BY <1>2 DEF Filled, FilledHosts, First
  <2>4. ~AtTask("bootstrap")' /\ (Making' => Filled(First)' /\ made' > 0)
    BY <1>1, <1>2, <1>3, <2>3 DEF Volumes, Follows
  <2>5. Stage' > 6 => play'.keys # <<>>
    BY <1>1, <1>3, StageType DEF Volumes, Follows
  <2>6. made' <= Cardinality(FilledHosts')
    BY <1>1, <1>2, <2>3 DEF Volumes
  <2> HIDE DEF HaveDone, BeforeKeys, Making, Stage, Filled, FilledHosts, First, AtTask
  <2> QED
    BY <1>1, <1>2, <2>2, <2>4, <2>5, <2>6 DEF Volumes
<1>5. ASSUME ~tainted PROVE Keys'
  <2>1. \A g \in HaveDone(7)' : Whole(pushed'[g])
    BY <1>1, <1>2, <1>3, <1>5 DEF Keys, Follows
  <2>2. play'.keys # <<>> => made = 1 /\ Whole(play'.keys)
    BY <1>1, <1>3, <1>5 DEF Keys
  <2>3. \A g \in Hosts : mon'[g].state # "down" => made = 1 /\ Begun(pushed'[g])
    BY <1>1, <1>2, <1>5 DEF Keys
  <2> QED
    BY <1>1, <1>2, <1>3, <1>5, <2>1, <2>2, <2>3, FollowKeys
<1> QED
  BY <1>2, <1>3, <1>4, <1>5 DEF ClusterInv
-----------------------------------------------------------------------------
(* The actions of the play, one by one.                                       *)

LEMMA FirstFacts ==
    ASSUME Types
    PROVE  First \in Range(want.mons) /\ Range(want.mons) \subseteq Hosts
BY Assumed DEF Types, First

LEMMA FilledFinite ==
    ASSUME Types
    PROVE  /\ IsFiniteSet(FilledHosts) /\ Cardinality(FilledHosts) \in Nat
           /\ Cardinality(FilledHosts) <= Len(want.mons) /\ Len(want.mons) \in Nat
           /\ First \notin FilledHosts => Cardinality(FilledHosts) < Len(want.mons)
<1>1. /\ IsFiniteSet(Range(want.mons)) /\ Cardinality(Range(want.mons)) <= Len(want.mons)
      /\ Len(want.mons) \in Nat /\ FilledHosts \in SUBSET Range(want.mons)
      /\ First \in Range(want.mons)
  BY Assumed, FirstFacts DEF Types, FilledHosts
<1>2. /\ IsFiniteSet(FilledHosts) /\ Cardinality(FilledHosts) <= Cardinality(Range(want.mons))
      /\ Cardinality(Range(want.mons)) = Cardinality(FilledHosts) => Range(want.mons) = FilledHosts
  BY <1>1, FS_Subset
<1>3. Cardinality(FilledHosts) \in Nat /\ Cardinality(Range(want.mons)) \in Nat
  BY <1>1, <1>2, FS_CardinalityType
<1> QED
  BY <1>1, <1>2, <1>3

(* There is a text for each generation that is made.                          *)
LEMMA Texts ==
    ASSUME Types, Volumes
    PROVE  /\ made > 0 => made \in DOMAIN Text
           /\ ~Filled(First) => made + 1 \in DOMAIN Text
           /\ \A g \in DOMAIN Text : /\ g \in Nat \ {0} /\ Text[g] \in Seq(Nat)
                                     /\ Len(Text[g]) \in Nat \ {0} /\ Text[g][1] = g
                                     /\ \A i \in 1 .. Len(Text[g]) : Text[g][i] = g
           /\ 1 \in DOMAIN Text
<1>1. DOMAIN want.mons \subseteq DOMAIN Text /\ DOMAIN want.mons = 1 .. Len(want.mons)
  BY Assumed, DeployAssumption DEF DeployAssumption, Types
<1>2. /\ Cardinality(FilledHosts) \in Nat /\ Cardinality(FilledHosts) <= Len(want.mons)
      /\ Len(want.mons) \in Nat
      /\ First \notin FilledHosts => Cardinality(FilledHosts) < Len(want.mons)
  BY FilledFinite
<1>3. made <= Cardinality(FilledHosts) /\ made \in Nat
  BY DEF Volumes, Types
<1>4. want.mons \in Seq(Hosts) /\ want.mons # <<>>
  BY Assumed DEF Types
<1>5. 1 \in DOMAIN want.mons
  BY <1>4
<1>6. ASSUME NEW g \in DOMAIN Text
      PROVE  /\ g \in Nat \ {0} /\ Text[g] \in Seq(Nat)
             /\ Len(Text[g]) \in Nat \ {0} /\ Text[g][1] = g
             /\ \A i \in 1 .. Len(Text[g]) : Text[g][i] = g
  <2>1. /\ g \in Nat \ {0} /\ Text[g] \in Seq(Nat) /\ Text[g] # <<>>
        /\ \A i \in DOMAIN Text[g] : Text[g][i] = g
    BY DeployAssumption DEF DeployAssumption
  <2>2. Len(Text[g]) \in Nat \ {0} /\ DOMAIN Text[g] = 1 .. Len(Text[g])
    BY <2>1
  <2> QED
    BY <2>1, <2>2
<1>7. ~Filled(First) => First \notin FilledHosts
  BY DEF FilledHosts
<1>8. made > 0 => made \in 1 .. Len(want.mons)
  BY <1>2, <1>3
<1>9. ~Filled(First) => made + 1 \in 1 .. Len(want.mons)
  BY <1>2, <1>3, <1>7
<1> QED
  BY <1>1, <1>5, <1>6, <1>8, <1>9

LEMMA StartCluster ==
    ASSUME Init PROVE ClusterInv
<1>1. Types
  <2>1. want \in [mons : Inventories, caps : Nat, class : {"ssd", "nvme"}, named : BOOLEAN] /\ want.caps \in 1 .. edits + 1
    BY DEF Init
  <2>2. /\ volume \in [Hosts -> Seq(Nat) \cup {None}] /\ pushed \in [Hosts -> Seq(Nat)]
        /\ mon \in [Hosts -> [state : {"down", "starting", "up"}, key : {0} \cup DOMAIN Text]]
    BY DeployAssumption DEF Init, DeployAssumption
  <2>3. ceph \in CephSet
    BY DEF Init, CephSet
  <2>4. play \in PlaySet
    <3>1. <<>> \in Seq(TaskSet) /\ <<>> \in Seq(Nat)
      OBVIOUS
    <3> QED
      BY <3>1 DEF Init, Idle, PlaySet
  <2>5. /\ made \in Nat /\ tainted \in BOOLEAN
        /\ plays \in 0 .. MaxPlays /\ edits \in 0 .. MaxEdits /\ faults \in 0 .. MaxFaults
    <3>1. MaxPlays \in Nat /\ MaxEdits \in Nat /\ MaxFaults \in Nat
      BY DeployAssumption DEF DeployAssumption
    <3>2. made = 0 /\ plays = 0 /\ edits = 0 /\ faults = 0
      BY DEF Init
    <3>3. tainted \in BOOLEAN
      BY DEF Init
    <3> QED
      BY <3>1, <3>2, <3>3
  <2> QED
    BY <2>1, <2>2, <2>3, <2>4, <2>5 DEF Types
<1>2. /\ play.todo = <<>> /\ play.result = "none" /\ play.left = {} /\ play.alive = {}
      /\ play.keys = <<>> /\ play.active = None /\ play.temp = None /\ play.available = None
  BY DEF Init, Idle
<1>3. Stage = 0 /\ ~BeforeKeys /\ ~Making /\ ~AtTask("bootstrap") /\ \A r \in 1 .. 8 : HaveDone(r) = {}
  BY <1>2 DEF Stage, BeforeKeys, Making, AtTask, HaveDone
<1>4. Playing
  BY <1>2 DEF Playing, Chained
<1>5. \A h \in Hosts : volume[h] = None /\ mon[h].state = "down" /\ mon[h].key = 0 /\ ~Filled(h)
  BY DEF Init, Filled
<1>6. made = 0 /\ Cardinality(FilledHosts) \in Nat
  BY <1>1, FilledFinite DEF Init
<1>7. Volumes
  BY <1>3, <1>5, <1>6 DEF Volumes
<1>8. Keys
  BY <1>2, <1>3, <1>5, <1>6 DEF Keys
<1> QED
  BY <1>1, <1>4, <1>7, <1>8 DEF ClusterInv

LEMMA StartPlayCluster ==
    ASSUME ClusterInv, StartPlay PROVE ClusterInv'
<1>1. Types /\ Playing /\ Volumes /\ (~tainted => Keys)
  BY DEF ClusterInv
<1>2. /\ play'.todo = DeployTasks /\ play'.alive = Range(want.mons) /\ play'.left = Range(want.mons)
      /\ play'.result = "running" /\ play'.fresh = {} /\ play'.keys = <<>>
      /\ play'.active = None /\ play'.temp = None /\ play'.available = None
      /\ play'.generated = FALSE
      /\ play' \in PlaySet
  <2>1. <<>> \in Seq(Nat) /\ DeployTasks \in Seq(TaskSet) /\ Range(want.mons) \subseteq Hosts
    BY <1>1, FirstFacts, DeployedChain
  <2>2. play' = [Idle EXCEPT !.todo = DeployTasks, !.alive = Range(want.mons),
                             !.left = Range(want.mons), !.result = "running"]
    BY DEF StartPlay
  <2> QED
    BY <2>1, <2>2 DEF Idle, PlaySet
<1>3. /\ want' = want /\ volume' = volume /\ pushed' = pushed /\ mon' = mon /\ made' = made
      /\ tainted' = tainted /\ ceph' = ceph /\ edits' = edits /\ faults' = faults
      /\ plays' = plays + 1 /\ plays < MaxPlays
  BY DEF StartPlay, history
<1>4. Types'
  BY <1>1, <1>2, <1>3, DeployAssumption DEF Types, DeployAssumption
<1>5. /\ Stage' = 1 /\ ~AtTask("bootstrap")' /\ ~AtTask("first")' /\ ~Making'
      /\ play'.todo # <<>>
  BY <1>2, DeployedChain DEF Stage, AtTask, Making, Task, Rank
<1>6. Playing'
  BY <1>1, <1>2, <1>3, DeployedChain, FirstFacts DEF Playing
<1>7. HaveDone(2)' = {} /\ HaveDone(3)' = {} /\ HaveDone(7)' = {}
  BY <1>5 DEF HaveDone
<1>8. (\A h : Filled(h)' <=> Filled(h)) /\ FilledHosts' = FilledHosts
  BY <1>3 DEF Filled, FilledHosts
<1>9. Volumes'
  <2> HIDE DEF HaveDone, BeforeKeys, Making, Stage, Filled, FilledHosts, First, AtTask
  <2> QED
    BY <1>1, <1>2, <1>3, <1>5, <1>7, <1>8 DEF Volumes
<1>10. ASSUME ~tainted PROVE Keys'
  <2> HIDE DEF HaveDone, Making, Stage, Filled, First, AtTask
  <2> QED
    BY <1>1, <1>2, <1>3, <1>5, <1>7, <1>8, <1>10 DEF Keys, Begun, Whole
<1> QED
  BY <1>3, <1>4, <1>6, <1>9, <1>10 DEF ClusterInv

LEMMA CheckMonsCluster ==
    ASSUME ClusterInv, CheckMons PROVE ClusterInv'
<1>1. Types /\ Playing /\ Quiet
  BY DEF ClusterInv, CheckMons, Quiet, history
<1>2. Stage = 1 /\ play.todo # <<>>
  BY <1>1, StageOf DEF CheckMons
<1>3. PICK answer \in {None} \cup {h \in Range(want.mons) : Serves(h)} :
          play' = Pass([play EXCEPT !.active = answer])
  BY DEF CheckMons
<1> DEFINE q == [play EXCEPT !.active = answer]
<1>4. /\ q \in PlaySet /\ q.todo = play.todo /\ q.result = play.result /\ q.alive = play.alive
      /\ q.active = answer /\ q.temp = play.temp /\ q.available = play.available
      /\ q.fresh = play.fresh /\ q.keys = play.keys
  BY <1>1, FirstFacts DEF Types, PlaySet
<1>5. play' = Pass(q)
  BY <1>3
<1> HIDE DEF q
<1>6. Types'
  BY <1>1, <1>2, <1>4, <1>5, PassFields DEF CheckMons, Types, history, counts
<1>7. q.alive # {}
  BY <1>1, <1>2, <1>4 DEF Playing
<1> QED
  BY <1>1, <1>2, <1>4, <1>5, <1>6, <1>7, PassStep DEF Playing

LEMMA RegisterCluster ==
    ASSUME ClusterInv, Register PROVE ClusterInv'
<1>1. Types /\ Playing /\ Quiet
  BY DEF ClusterInv, Register, Quiet, history
<1>2. Stage = 5 /\ play.todo # <<>>
  BY <1>1, StageOf DEF Register
<1>9. PICK h \in play.alive : play' = Pass([play EXCEPT !.available = Available(h)])
  BY DEF Register
<1> DEFINE who == Available(h)
           q == [play EXCEPT !.available = who]
<1>3. who \in Range(want.mons) \cup {None} /\ who \in Hosts \cup {None}
  BY <1>1, FirstFacts DEF Playing, Available
<1>4. play' = Pass(q)
  BY <1>9
<1> HIDE DEF who
<1>5. /\ q \in PlaySet /\ q.todo = play.todo /\ q.result = play.result /\ q.alive = play.alive
      /\ q.active = play.active /\ q.temp = play.temp /\ q.available = who
      /\ q.fresh = play.fresh /\ q.keys = play.keys
  BY <1>1, <1>3 DEF Types, PlaySet
<1> HIDE DEF q
<1>6. Types'
  BY <1>1, <1>2, <1>4, <1>5, PassFields DEF Register, Types, history, counts
<1>7. q.alive # {}
  BY <1>1, <1>2, <1>5 DEF Playing
<1> QED
  BY <1>1, <1>2, <1>3, <1>4, <1>5, <1>6, <1>7, PassStep DEF Playing

(* The keys that are fetched are those of a monitor.                           *)
LEMMA FetchStep ==
    ASSUME ClusterInv, Quiet, Stage \in {6, 9}, play.todo # <<>>,
           FetchKeys, UNCHANGED <<ceph, plays, edits, faults>>
    PROVE  ClusterInv'
<1> DEFINE h == play.available
<1>3. Types /\ Playing /\ Volumes /\ (~tainted => Keys)
  BY DEF ClusterInv
<1>1. CASE ~Fetchable
  <2>1. AllFail
    BY <1>1 DEF FetchKeys
  <2>2. Types'
    BY <1>3, <2>1, FailFacts DEF Types, Quiet
  <2> QED
    BY <2>1, <2>2, FailStep
<1>2. CASE Fetchable
  <2>1. h \in Hosts /\ volume[h] \in Seq(Nat) /\ volume[h] # <<>> /\ Filled(h) /\ HasFiles(volume[h])
    BY <1>2, <1>3, FirstFacts DEF Types, PlaySet, Volumes, Filled, Fetchable
  <2> DEFINE q == [play EXCEPT !.keys = volume[h]]
  <2>2. play' = Pass(q)
    BY <1>2 DEF FetchKeys
  <2>3. /\ q \in PlaySet /\ q.todo = play.todo /\ q.result = play.result /\ q.alive = play.alive
        /\ q.active = play.active /\ q.temp = play.temp /\ q.available = play.available
        /\ q.fresh = play.fresh /\ q.keys = volume[h]
    BY <1>3, <2>1 DEF Types, PlaySet
  <2>4. ASSUME ~tainted PROVE made = 1 /\ Whole(volume[h])
    <3>1. made = 1 /\ Begun(volume[h])
      BY <1>3, <2>1, <2>4 DEF Keys
    <3>2. Len(Text[1]) \in Nat \ {0} /\ Len(volume[h]) \in Nat \ {0}
      BY <1>3, <2>1, Texts
    <3>3. Head(volume[h]) = 1
      BY <2>1, <3>1, <3>2 DEF Begun
    <3> QED
      BY <2>1, <3>1, <3>3 DEF HasFiles, Whole
  <2> HIDE DEF q, h
  <2>5. q.alive # {}
    BY <1>3, <2>3 DEF Playing
  <2>6. Types'
    BY <1>3, <2>2, <2>3, <2>5, PassFields DEF Types, Quiet
  <2> QED
    BY <1>3, <2>1, <2>2, <2>3, <2>4, <2>5, <2>6, PassStep DEF Playing
<1> QED
  BY <1>1, <1>2

LEMMA FetchCluster ==
    ASSUME ClusterInv, Fetch PROVE ClusterInv'
<1>1. /\ Types /\ Playing /\ Quiet /\ Volumes /\ (~tainted => Keys)
      /\ UNCHANGED <<ceph, plays, edits, faults>> /\ FetchKeys
  BY DEF ClusterInv, Fetch, Quiet, history, counts
<1>2. Stage = 6 /\ play.todo # <<>>
  BY <1>1, StageOf DEF Fetch
<1> QED
  BY <1>1, <1>2, FetchStep

LEMMA RefetchCluster ==
    ASSUME ClusterInv, Refetch PROVE ClusterInv'
<1>1. /\ Types /\ Playing /\ Quiet /\ Volumes /\ (~tainted => Keys)
      /\ UNCHANGED <<ceph, plays, edits, faults>>
  BY DEF ClusterInv, Refetch, Quiet, history, counts
<1>2. Stage = 9 /\ play.todo # <<>>
  BY <1>1, StageOf DEF Refetch
<1>3. CASE FetchKeys
  BY <1>1, <1>2, <1>3, FetchStep
<1>4. CASE AllFail
  <2>1. Types'
    BY <1>1, <1>4, FailFacts DEF Types, Quiet
  <2> QED
    BY <1>1, <1>4, <2>1, FailStep
<1>5. CASE play' = Pass(play)
  <2>1. play \in PlaySet /\ play.alive # {}
    BY <1>1, <1>2 DEF Types, Playing
  <2>2. Types'
    BY <1>1, <1>2, <1>5, <2>1, PassFields DEF Types, Quiet
  <2> QED
    BY <1>1, <1>2, <1>5, <2>1, <2>2, PassStep DEF Playing
<1> QED
  BY <1>3, <1>4, <1>5 DEF Refetch

LEMMA DoneStep ==
    ASSUME Types, Playing, want' = want, play.todo # <<>>, ~AtTask("bootstrap"),
           NEW h \in play.left, NEW q \in PlaySet, play' = Done(q, h),
           q.todo = play.todo, q.result = play.result, q.left = play.left,
           q.alive = play.alive,
           {q.active, q.temp, q.available} \subseteq Range(want.mons) \cup {None}
    PROVE  play' \in PlaySet /\ Playing' /\ Follows({h}) /\ Others(play', q)
<1>1. /\ play' \in PlaySet /\ Others(play', q)
      /\ play.left = {h} =>
             /\ play'.todo = Tail(play.todo) /\ play'.left = q.alive /\ play'.result = Result(q)
      /\ play.left # {h} =>
             /\ play'.todo = play.todo /\ play'.left = play.left \ {h}
             /\ play'.result = play.result
  BY DoneFields DEF Types
<1>2. DoneOn(h)
  BY <1>1 DEF DoneOn, Passes, Others, Result
<1>3. Advances({h})
  BY <1>1, <1>2 DEF Advances, Others, Playing
<1> QED
  BY <1>1, <1>3, AdvancePlaying, AdvanceFollows

LEMMA CreateVolumeCluster ==
    ASSUME ClusterInv, NEW h \in Hosts, CreateVolume(h) PROVE ClusterInv'
<1>1. /\ Types /\ Playing /\ Volumes /\ (~tainted => Keys)
      /\ want' = want /\ pushed' = pushed /\ mon' = mon /\ made' = made /\ tainted' = tainted
      /\ h \in play.left /\ At("volume")
  BY DEF ClusterInv, CreateVolume, history
<1>2. Stage = 2 /\ play.todo # <<>> /\ ~AtTask("bootstrap") /\ ~AtTask("first")
  BY <1>1, StageOf
<1> DEFINE q == [play EXCEPT !.fresh = IF volume[h] = None THEN @ \cup {h} ELSE @]
<1>3. /\ q \in PlaySet /\ q.todo = play.todo /\ q.result = play.result /\ q.alive = play.alive
      /\ q.left = play.left /\ q.active = play.active /\ q.temp = play.temp
      /\ q.available = play.available /\ q.keys = play.keys
      /\ q.fresh = IF volume[h] = None THEN play.fresh \cup {h} ELSE play.fresh
  BY <1>1 DEF Types, PlaySet
<1>4. play' = Done(q, h)
  BY DEF CreateVolume
<1> HIDE DEF q
<1>5. play' \in PlaySet /\ Playing' /\ Follows({h}) /\ Others(play', q)
  BY <1>1, <1>2, <1>3, <1>4, DoneStep DEF Playing
<1>6. volume' \in [Hosts -> Seq(Nat) \cup {None}]
      /\ \A g \in Hosts : volume'[g] = IF g = h /\ volume[g] = None THEN <<>> ELSE volume[g]
  <2>1. <<>> \in Seq(Nat)
    OBVIOUS
  <2> QED
    BY <1>1, <2>1 DEF CreateVolume, Types
<1>7. None # <<>>
  <2>1. <<>> \in Seq(Nat)
    OBVIOUS
  <2> QED
    BY <2>1, Assumed
<1>8. Types'
  BY <1>1, <1>5, <1>6 DEF CreateVolume, Types, counts
<1>9. \A g \in Hosts : /\ Filled(g)' <=> Filled(g)
                       /\ Filled(g) => volume'[g] = volume[g]
  BY <1>6, <1>7 DEF Filled
<1>10. FilledHosts' = FilledHosts
  BY <1>1, <1>9, FirstFacts DEF FilledHosts
<1>11. BeforeKeys /\ ~Making /\ HaveDone(3)' = {} /\ HaveDone(7)' = {}
       /\ \A g \in HaveDone(2)' : g \in HaveDone(2) \/ g = h
  BY <1>2, <1>5 DEF BeforeKeys, Making, HaveDone, Follows
<1>12. /\ ~AtTask("bootstrap")' /\ ~Making' /\ ~(Stage' > 6)
       /\ HaveDone(2)' \subseteq play.alive
  BY <1>1, <1>2, <1>5, <1>11 DEF Follows, HaveDone, Playing
<1>13. play.alive \subseteq Hosts
  BY <1>1, FirstFacts DEF Playing
<1>14. \A g \in play'.fresh : volume'[g] = <<>> /\ mon[g].state = "down"
  <2> SUFFICES ASSUME NEW g \in play'.fresh PROVE volume'[g] = <<>> /\ mon[g].state = "down"
    OBVIOUS
  <2>1. g \in play.fresh \/ (g = h /\ volume[h] = None)
    BY <1>3, <1>5 DEF Others
  <2>2. CASE g \in play.fresh
    <3>1. volume[g] = <<>> /\ mon[g].state = "down" /\ g \in Hosts
      BY <1>1, <1>11, <2>2 DEF Volumes, Types, PlaySet
    <3> QED
      BY <3>1, <1>6
  <2>3. CASE g = h /\ volume[h] = None
    <3>1. mon[h].state = "down"
      BY <1>1, <2>3 DEF Volumes
    <3> QED
      BY <3>1, <1>6, <2>3
  <2> QED
    BY <2>1, <2>2, <2>3
<1>15. Volumes'
  <2>1. \A g \in Hosts : mon[g].state # "down" => volume'[g] # None
    BY <1>1, <1>6, <1>7 DEF Volumes
  <2>2. \A g \in HaveDone(2)' : volume'[g] # None
    BY <1>1, <1>6, <1>7, <1>11, <1>12, <1>13 DEF Volumes
  <2> HIDE DEF HaveDone, BeforeKeys, Making, Stage, Filled, FilledHosts, First, AtTask
  <2> QED
    BY <1>1, <1>10, <1>11, <1>12, <1>14, <2>1, <2>2 DEF Volumes
<1>16. ASSUME ~tainted PROVE Keys'
  <2>1. Range(want.mons) \subseteq Hosts
    BY <1>1, FirstFacts
  <2>2. play'.keys = play.keys
    BY <1>3, <1>5 DEF Others
  <2> HIDE DEF HaveDone, Making, Stage, Filled, First, AtTask
  <2> QED
    BY <1>1, <1>9, <1>11, <1>12, <1>16, <2>1, <2>2 DEF Keys, Begun, Whole
<1> QED
  BY <1>1, <1>5, <1>8, <1>15, <1>16 DEF ClusterInv

LEMMA WriteTempCluster ==
    ASSUME ClusterInv, NEW h \in Hosts, WriteTemp(h) PROVE ClusterInv'
<1>1. /\ Types /\ Playing /\ Volumes /\ want' = want
      /\ h \in play.left /\ At("write") /\ Quiet
  BY DEF ClusterInv, WriteTemp, history, Quiet
<1>2. Stage = 3 /\ play.todo # <<>> /\ ~AtTask("bootstrap") /\ ~AtTask("first")
  BY <1>1, StageOf
<1> DEFINE q == [play EXCEPT !.temp = IF h \in play.fresh THEN @ ELSE h]
<1>3. /\ q \in PlaySet /\ q.todo = play.todo /\ q.result = play.result /\ q.alive = play.alive
      /\ q.left = play.left /\ q.active = play.active /\ q.fresh = play.fresh
      /\ q.available = play.available /\ q.keys = play.keys
      /\ q.temp = IF h \in play.fresh THEN play.temp ELSE h
  BY <1>1 DEF Types, PlaySet
<1>4. play' = Done(q, h)
  BY DEF WriteTemp
<1> HIDE DEF q
<1>5. h \in Range(want.mons)
  BY <1>1 DEF Playing
<1>6. play' \in PlaySet /\ Playing' /\ Follows({h}) /\ Others(play', q)
  BY <1>1, <1>2, <1>3, <1>4, <1>5, DoneStep DEF Playing
<1>7. Types'
  BY <1>1, <1>6 DEF WriteTemp, Types, counts, history
<1>8. play.temp # None => play'.temp # None
  BY <1>3, <1>6, Assumed DEF Others
<1>9. h \in play.fresh \/ play'.temp # None
  BY <1>3, <1>6, Assumed DEF Others
<1> QED
  BY <1>1, <1>2, <1>3, <1>6, <1>7, <1>8, <1>9, QuietStep DEF Others
(* Tasks of the same rank take the place of the one at the head.               *)
LEMMA Prepend ==
    ASSUME NEW s \in Seq(TaskSet), s # <<>>, Chained(s), NEW c \in Seq(TaskSet),
           \A i \in DOMAIN c : Rank(c[i]) = Rank(Head(s)),
           \A i \in DOMAIN c : i > 1 => c[i].task \notin {"bootstrap", "first"},
           Len(c) <= 1 \/ Rank(Head(s)) = 9
    PROVE  /\ c \o Tail(s) \in Seq(TaskSet) /\ Chained(c \o Tail(s))
           /\ Len(c \o Tail(s)) = Len(c) + (Len(s) - 1)
           /\ \A i \in 1 .. Len(c) : (c \o Tail(s))[i] = c[i]
           /\ \A i \in 2 .. Len(s) : (c \o Tail(s))[Len(c) + (i - 1)] = s[i]
           /\ c # <<>> => c \o Tail(s) # <<>> /\ Head(c \o Tail(s)) = c[1]
           /\ c \o Tail(s) = <<>> => Rank(Head(s)) = 9
<1> DEFINE u == Tail(s)
           d == c \o Tail(s)
<1>1. /\ u \in Seq(TaskSet) /\ Len(u) = Len(s) - 1 /\ Head(s) = s[1]
      /\ \A i \in DOMAIN u : i + 1 \in DOMAIN s /\ u[i] = s[i + 1]
      /\ Len(s) \in Nat \ {0} /\ (u = <<>> <=> Len(s) = 1)
  BY TodoTail
<1>2. /\ Chained(u)
      /\ u # <<>> => /\ Rank(Head(u)) = After(Rank(Head(s)))
                     /\ Head(u).task \notin {"bootstrap", "first"}
      /\ u = <<>> => Rank(Head(s)) = 9
  BY Chain
<1> HIDE DEF u
<1>3. /\ d \in Seq(TaskSet) /\ Len(d) = Len(c) + Len(u) /\ Len(c) \in Nat /\ Len(u) \in Nat
      /\ \A i \in 1 .. Len(c) : d[i] = c[i]
      /\ \A i \in 1 .. Len(u) : d[Len(c) + i] = u[i]
      /\ DOMAIN d = 1 .. Len(d) /\ DOMAIN c = 1 .. Len(c) /\ DOMAIN u = 1 .. Len(u)
  BY <1>1 DEF u
<1> HIDE DEF d
<1>4. \A i \in 2 .. Len(s) : d[Len(c) + (i - 1)] = s[i]
  <2> SUFFICES ASSUME NEW i \in 2 .. Len(s) PROVE d[Len(c) + (i - 1)] = s[i]
    OBVIOUS
  <2>1. i - 1 \in 1 .. Len(u) /\ (i - 1) + 1 = i
    BY <1>1
  <2> QED
    BY <1>1, <1>3, <2>1
<1>5. ASSUME NEW i \in DOMAIN d, i > 1
      PROVE  d[i].task \notin {"bootstrap", "first"} /\ Rank(d[i]) = After(Rank(d[i - 1]))
  <2>1. CASE i <= Len(c)
    <3>1. i \in DOMAIN c /\ i - 1 \in DOMAIN c /\ i - 1 \in 1 .. Len(c) /\ Rank(Head(s)) = 9
      BY <1>3, <1>5, <2>1
    <3> QED
      BY <1>3, <1>5, <3>1 DEF After
  <2>2. CASE i = Len(c) + 1
    <3>1. Len(c) \in DOMAIN c /\ 1 \in DOMAIN u /\ i - 1 = Len(c) /\ Head(u) = u[1] /\ u # <<>>
      BY <1>1, <1>3, <1>5, <2>2
    <3>2. d[i] = u[1] /\ d[i - 1] = c[Len(c)]
      BY <1>3, <2>2, <3>1
    <3> QED
      BY <1>2, <3>1, <3>2
  <2>3. CASE i > Len(c) + 1
    <3>1. /\ i - Len(c) \in 2 .. Len(u) /\ (i - 1) - Len(c) \in 1 .. Len(u)
          /\ i = Len(c) + (i - Len(c)) /\ i - 1 = Len(c) + ((i - Len(c)) - 1)
      BY <1>3, <1>5, <2>3
    <3>2. d[i] = u[i - Len(c)] /\ d[i - 1] = u[(i - Len(c)) - 1]
      BY <1>3, <3>1
    <3>3. i - Len(c) > 1 /\ i - Len(c) \in DOMAIN u
      BY <1>3, <3>1
    <3> QED
      BY <1>2, <3>2, <3>3 DEF Chained
  <2> QED
    BY <1>3, <1>5, <2>1, <2>2, <2>3
<1>6. ASSUME d # <<>> PROVE Rank(d[Len(d)]) = 9
  <2>1. CASE u # <<>>
    <3>1. Len(u) \in 1 .. Len(u) /\ d[Len(d)] = u[Len(u)]
      BY <1>1, <1>3, <2>1
    <3> QED
      BY <1>2, <2>1, <3>1 DEF Chained
  <2>2. CASE u = <<>>
    <3>1. Len(c) \in 1 .. Len(c) /\ d[Len(d)] = c[Len(c)] /\ Len(c) \in DOMAIN c
      BY <1>3, <1>6, <2>2
    <3> QED
      BY <1>2, <2>2, <3>1
  <2> QED
    BY <2>1, <2>2
<1>7. c # <<>> => d # <<>> /\ Head(d) = c[1]
  BY <1>3
<1>8. d = <<>> => Rank(Head(s)) = 9
  BY <1>2, <1>3
<1> QED
  BY <1>1, <1>3, <1>4, <1>5, <1>6, <1>7, <1>8 DEF Chained, d, u

LEMMA ReplaceHead ==
    ASSUME NEW s \in Seq(TaskSet), s # <<>>, Chained(s), NEW t \in TaskSet,
           Rank(t) = Rank(Head(s))
    PROVE  /\ <<t>> \o Tail(s) \in Seq(TaskSet) /\ Chained(<<t>> \o Tail(s))
           /\ <<t>> \o Tail(s) # <<>> /\ Head(<<t>> \o Tail(s)) = t
<1> DEFINE c == <<t>>
<1>1. c \in Seq(TaskSet) /\ Len(c) = 1 /\ DOMAIN c = {1} /\ c[1] = t /\ c # <<>>
  OBVIOUS
<1> HIDE DEF c
<1>2. /\ c \o Tail(s) \in Seq(TaskSet) /\ Chained(c \o Tail(s))
      /\ c \o Tail(s) # <<>> /\ Head(c \o Tail(s)) = c[1]
  <2>1. \A i \in DOMAIN c : Rank(c[i]) = Rank(Head(s))
    BY <1>1
  <2>2. \A i \in DOMAIN c : i > 1 => c[i].task \notin {"bootstrap", "first"}
    BY <1>1
  <2>3. Len(c) <= 1
    BY <1>1
  <2>4. c \in Seq(TaskSet) /\ c # <<>>
    BY <1>1
  <2> QED
    BY <2>1, <2>2, <2>3, <2>4, Prepend
<1> QED
  BY <1>1, <1>2 DEF c

LEMMA GenerateCluster ==
    ASSUME ClusterInv, Generate PROVE ClusterInv'
<1>1. Types /\ Playing /\ Volumes /\ (~tainted => Keys) /\ Quiet /\ At("generate")
  BY DEF ClusterInv, Generate, Quiet, history
<1>2. Stage = 4 /\ play.todo # <<>> /\ ~AtTask("bootstrap") /\ ~AtTask("first")
  BY <1>1, StageOf
<1>3. CASE ~Generates
  <2>1. play' = Pass(play)
    BY <1>3 DEF Generate
  <2>2. Types'
    BY <1>1, <1>2, <2>1, PassFields DEF Generate, Types, history, counts
  <2>3. play \in PlaySet /\ play.alive # {}
    BY <1>1, <1>2 DEF Types, Playing
  <2> QED
    BY <1>1, <1>2, <2>1, <2>2, <2>3, PassStep DEF Playing
<1>4. CASE Generates
  <2> DEFINE t == Task("bootstrap", 1)
  <2>1. /\ play.todo \in Seq(TaskSet) /\ Chained(play.todo) /\ Rank(Head(play.todo)) = 4
        /\ play \in PlaySet
    BY <1>1, <1>2 DEF Types, PlaySet, Playing, Stage
  <2>2. t \in TaskSet /\ Rank(t) = 4
    BY DEF TaskSet, Task, Rank
  <2> DEFINE d == <<t>> \o Tail(play.todo)
  <2>3. d \in Seq(TaskSet) /\ Chained(d) /\ d # <<>> /\ Head(d) = t
    BY <1>2, <2>1, <2>2, ReplaceHead
  <2>4. play' = [play EXCEPT !.todo = d]
    BY <1>4 DEF Generate
  <2> HIDE DEF d
  <2>5. /\ play' \in PlaySet /\ Others(play', play) /\ play'.todo = d /\ play'.left = play.left
        /\ play'.result = play.result
    BY <2>1, <2>3, <2>4 DEF PlaySet, Others
  <2>6. Types' /\ Playing'
    <3>1. Types'
      BY <1>1, <2>5 DEF Generate, Types, counts, history
    <3>2. Playing'
      BY <1>1, <1>2, <2>3, <2>5 DEF Playing, Quiet, Others
    <3> QED
      BY <3>1, <3>2
  <2>7. /\ Stage' = 4 /\ AtTask("bootstrap")' /\ ~AtTask("first")' /\ ~Making' /\ BeforeKeys'
        /\ Head(play'.todo).arg = 1 /\ BeforeKeys
    BY <1>2, <2>2, <2>3, <2>5 DEF Stage, AtTask, Making, BeforeKeys, Task
  <2>8. \A r \in 1 .. 8 : HaveDone(r)' = HaveDone(r)
    BY <1>2, <2>5, <2>7 DEF HaveDone, Others
  <2>9. First \in play.alive /\ play.temp = None /\ ~Filled(First)
    <3>1. First \in play.alive /\ play.temp = None /\ First \in HaveDone(3)
      BY <1>2, <1>4 DEF Generates, HaveDone
    <3>2. volume[First] = <<>>
      BY <1>1, <2>7, <3>1 DEF Volumes
    <3> QED
      BY <3>1, <3>2 DEF Filled
  <2>10. 1 <= Len(Text[made + 1])
    BY <1>1, <2>9, Texts
  <2>11. (\A h : Filled(h)' <=> Filled(h)) /\ FilledHosts' = FilledHosts /\ First' = First
    BY <1>1 DEF Filled, FilledHosts, First, Quiet
  <2>12. Volumes'
    <3> HIDE DEF HaveDone, BeforeKeys, Making, Stage, Filled, FilledHosts, First, AtTask
    <3> QED
      BY <1>1, <2>5, <2>7, <2>8, <2>9, <2>10, <2>11 DEF Volumes, Quiet, Others
  <2>13. ASSUME ~tainted PROVE Keys'
    <3> HIDE DEF HaveDone, Making, Stage, Filled, First, AtTask
    <3> QED
      BY <1>1, <2>5, <2>7, <2>8, <2>11, <2>13 DEF Keys, Quiet, Others, Begun, Whole
  <2> QED
    BY <1>1, <2>6, <2>12, <2>13 DEF ClusterInv, Quiet
<1> QED
  BY <1>3, <1>4
(* The first monitor has nothing when its keys are made, and nobody who is in  *)
(* the play had the volume.                                                   *)
LEMMA NothingBefore ==
    ASSUME Types, Playing, Volumes, AtTask("bootstrap"), BeforeKeys
    PROVE  /\ ~Filled(First) /\ made + 1 \in DOMAIN Text
           /\ \A h \in play.alive : volume[h] = <<>>
<1>1. Stage = 4
  BY StageOf
<1>2. \A h \in play.alive : h \in play.fresh
  BY <1>1 DEF Volumes, HaveDone
<1>3. \A h \in play.alive : volume[h] = <<>>
  BY <1>2 DEF Volumes
<1>4. ~Filled(First)
  BY <1>3 DEF Volumes, Filled
<1> QED
  BY <1>3, <1>4, Texts

LEMMA Beginning ==
    ASSUME NEW s \in Seq(Nat), NEW i \in 1 .. Len(s), NEW g, \A k \in 1 .. Len(s) : s[k] = g
    PROVE  /\ SubSeq(s, 1, i) \in Seq(Nat) /\ Len(SubSeq(s, 1, i)) = i
           /\ SubSeq(s, 1, i) # <<>> /\ \A k \in 1 .. i : SubSeq(s, 1, i)[k] = g
<1>1. /\ SubSeq(s, 1, i) \in Seq(Nat) /\ Len(SubSeq(s, 1, i)) = i
      /\ \A k \in 1 .. i : SubSeq(s, 1, i)[k] = s[k]
  OBVIOUS
<1> QED
  BY <1>1

LEMMA BootstrapCluster ==
    ASSUME ClusterInv, Bootstrap PROVE ClusterInv'
<1> DEFINE i == Head(play.todo).arg
           g == IF i = 1 THEN made + 1 ELSE made
           t == IF i < Len(Text[g]) THEN Task("bootstrap", i + 1) ELSE Task("first", First)
           d == <<t>> \o Tail(play.todo)
           text == SubSeq(Text[g], 1, i)
<1>1. /\ Types /\ Playing /\ Volumes /\ (~tainted => Keys) /\ AtTask("bootstrap")
      /\ want' = want /\ pushed' = pushed /\ mon' = mon /\ ceph' = ceph
      /\ made' = g /\ volume' = [volume EXCEPT ![First] = text]
      /\ play' = [play EXCEPT !.todo = d]
      /\ tainted' = (tainted \/ pushed[First] # <<>> \/ Unheard # {})
      /\ plays' = plays /\ edits' = edits /\ faults' = faults
  BY DEF ClusterInv, Bootstrap, counts
<1>2. /\ Stage = 4 /\ play.todo # <<>> /\ First \in play.alive /\ First \in Hosts
      /\ play.todo \in Seq(TaskSet) /\ Chained(play.todo) /\ Rank(Head(play.todo)) = 4
      /\ play \in PlaySet /\ play.alive \subseteq Range(want.mons) /\ First \in Range(want.mons)
  BY <1>1, StageOf, FirstFacts DEF Types, PlaySet, Playing, Stage, Volumes
<1>3. i \in Nat \ {0}
  <2>1. Head(play.todo) \in TaskSet /\ Head(play.todo).task = "bootstrap"
    BY <1>1, <1>2, TodoTail DEF AtTask
  <2> QED
    BY <2>1 DEF TaskSet, AskSet, LaterSet
<1>4. (BeforeKeys <=> i = 1) /\ (Making <=> i > 1)
  BY <1>1, <1>2, <1>3 DEF BeforeKeys, Making, AtTask
<1>5. g \in DOMAIN Text /\ g > 0 /\ g \in Nat /\ i <= Len(Text[g])
  <2>1. CASE i = 1
    <3>1. g = made + 1 /\ g \in DOMAIN Text
      BY <1>1, <1>4, <2>1, NothingBefore
    <3>2. g \in Nat \ {0} /\ Len(Text[g]) \in Nat \ {0}
      BY <1>1, <3>1, Texts
    <3> QED
      BY <3>1, <3>2, <2>1
  <2>2. CASE i # 1
    <3>1. Making /\ g = made /\ made > 0
      BY <1>1, <1>3, <1>4, <2>2 DEF Volumes
    <3> QED
      BY <1>1, <3>1, Texts DEF Volumes, Types
  <2> QED
    BY <2>1, <2>2
<1>6. /\ text \in Seq(Nat) /\ Len(text) = i /\ text # <<>>
      /\ \A k \in 1 .. i : text[k] = g
  <2>1. Text[g] \in Seq(Nat) /\ \A k \in 1 .. Len(Text[g]) : Text[g][k] = g
    BY <1>1, <1>5, Texts
  <2>2. i \in 1 .. Len(Text[g])
    BY <1>3, <1>5, <2>1
  <2> HIDE DEF i, g
  <2> QED
    BY <2>1, <2>2, Beginning
<1>7. t \in TaskSet /\ Rank(t) = 4
  BY <1>2, <1>3 DEF TaskSet, Task, Rank
<1>8. d \in Seq(TaskSet) /\ Chained(d) /\ d # <<>> /\ Head(d) = t
  BY <1>2, <1>7, ReplaceHead
<1> HIDE DEF d, text
<1>9. /\ play' \in PlaySet /\ Others(play', play) /\ play'.todo = d /\ play'.left = play.left
      /\ play'.result = play.result
  BY <1>1, <1>2, <1>8 DEF PlaySet, Others
<1>10. /\ volume' \in [Hosts -> Seq(Nat) \cup {None}] /\ volume'[First] = text
       /\ \A h \in Hosts : h # First => volume'[h] = volume[h]
  BY <1>1, <1>2, <1>6 DEF Types
<1>11. Types'
  <2>1. tainted' \in BOOLEAN
    BY <1>1
  <2> QED
    BY <1>1, <1>5, <1>9, <1>10, <2>1 DEF Types
<1>12. Playing'
  BY <1>1, <1>2, <1>8, <1>9 DEF Playing, Others
<1>13. None # text
  BY <1>6, Assumed
<1>14. First' = First /\ Filled(First)' /\ \A h \in Hosts : h # First => (Filled(h)' <=> Filled(h))
  <2>1. First' = First
    BY <1>1 DEF First
  <2> QED
    BY <2>1, <1>6, <1>10, <1>13 DEF Filled
<1>15. i < Len(Text[g]) => AtTask("bootstrap")' /\ Head(play'.todo).arg = i + 1
  BY <1>8, <1>9 DEF AtTask, Task
<1>16. /\ ~BeforeKeys' /\ Making' /\ First' = First /\ Stage' = 4
       /\ AtTask("bootstrap")' => Head(play'.todo).arg = i + 1 /\ i < Len(Text[g])
  BY <1>1, <1>3, <1>7, <1>8, <1>9 DEF BeforeKeys, Making, AtTask, First, Task, Stage
<1>17. \A r \in 1 .. 8 : HaveDone(r)' = HaveDone(r)
  BY <1>2, <1>9, <1>16 DEF HaveDone, Others
<1> HIDE DEF t
<1>18. g <= Cardinality(FilledHosts')
  <2>1. /\ Cardinality(FilledHosts) \in Nat /\ made <= Cardinality(FilledHosts)
        /\ IsFiniteSet(FilledHosts)
    BY <1>1, FilledFinite DEF Volumes
  <2>2. FilledHosts' = FilledHosts \cup {First}
    BY <1>1, <1>2, <1>14, FirstFacts DEF FilledHosts
  <2>3. CASE i = 1
    <3>1. First \notin FilledHosts
      BY <1>1, <1>4, <2>3, NothingBefore DEF FilledHosts
    <3>2. Cardinality(FilledHosts') = Cardinality(FilledHosts) + 1
      BY <2>1, <2>2, <3>1, FS_AddElement
    <3> QED
      BY <1>1, <2>1, <2>3, <3>2 DEF Types
  <2>4. CASE i # 1
    <3>1. First \in FilledHosts
      BY <1>1, <1>2, <1>3, <1>4, <2>4 DEF Volumes, FilledHosts
    <3>2. FilledHosts' = FilledHosts
      BY <2>2, <3>1
    <3> QED
      BY <2>1, <2>4, <3>2
  <2> QED
    BY <2>3, <2>4
<1>19. Volumes'
  <2>1. \A h \in Hosts : volume[h] # None => volume'[h] # None
    BY <1>10, <1>13
  <2>2. \A h \in HaveDone(2)' : h \in Hosts /\ volume[h] # None
    BY <1>1, <1>2, <1>17, FirstFacts DEF Volumes, HaveDone
  <2>3. AtTask("bootstrap")' => First' \in play'.alive
    BY <1>2, <1>9, <1>16 DEF Others
  <2>4. AtTask("bootstrap")' =>
            Head(play'.todo).arg <= Len(Text[IF Making' THEN made' ELSE made' + 1])
    <3>1. Len(Text[g]) \in Nat
      BY <1>1, <1>5, Texts
    <3> QED
      BY <1>1, <1>3, <1>16, <3>1
  <2>5. Filled(First)' /\ made' > 0
    BY <1>1, <1>5, <1>14
  <2> HIDE DEF g, i, HaveDone, BeforeKeys, Making, Stage, Filled, FilledHosts, First, AtTask
  <2> QED
    BY <1>1, <1>16, <1>18, <2>1, <2>2, <2>3, <2>4, <2>5 DEF Volumes
<1>20. ASSUME ~tainted' PROVE Keys'
  <2>1. ~tainted /\ pushed[First] = <<>> /\ Unheard = {} /\ Keys
    BY <1>1, <1>20
  <2>2. (i = 1 => made = 0) /\ (i # 1 => made = 1)
    <3>1. CASE i = 1
      <4>1. \A h \in play.alive : volume[h] = <<>>
        BY <1>1, <1>4, <3>1, NothingBefore
      <4>2. \A h \in Range(want.mons) : ~Filled(h)
        BY <2>1, <4>1 DEF Unheard, Filled
      <4>3. made # 1 /\ made <= 1 /\ made \in Nat
        BY <1>1, <2>1, <4>2 DEF Keys, Types
      <4> QED
        BY <3>1, <4>3
    <3>2. CASE i # 1
      <4>1. Making
        BY <1>3, <1>4, <3>2
      <4>2. made > 0
        BY <1>1, <4>1 DEF Volumes
      <4>3. made <= 1 /\ made \in Nat
        BY <1>1, <2>1 DEF Keys, Types
      <4> QED
        BY <3>2, <4>2, <4>3
    <3> QED
      BY <3>1, <3>2
  <2>3. made' = 1 /\ Begun(volume'[First])
    <3>1. g = 1
      BY <2>2
    <3>2. DOMAIN text = 1 .. i
      BY <1>6
    <3> HIDE DEF g, i
    <3> QED
      BY <1>1, <1>6, <1>10, <3>1, <3>2 DEF Begun
  <2>4. \A h \in Hosts : Filled(h)' => Begun(volume'[h])
    BY <1>10, <1>14, <2>1, <2>3 DEF Keys
  <2>5. \A h \in Hosts : mon[h].key # 0 => mon[h].key = 1 /\ Filled(h)'
    BY <1>14, <2>1, <1>16 DEF Keys
  <2>6. \A h \in Hosts : mon[h].state # "down" => Begun(pushed[h])
    BY <2>1 DEF Keys
  <2>7. play'.keys # <<>> => Whole(play'.keys)
    BY <1>9, <2>1 DEF Keys, Others
  <2>8. \A h \in HaveDone(7)' : Whole(pushed[h])
    BY <1>17, <2>1 DEF Keys
  <2>9. \E h \in Range(want'.mons) : Filled(h)'
    <3>1. First \in Range(want'.mons) /\ First' = First
      BY <1>1, <1>2, <1>16
    <3> QED
      BY <1>14, <3>1
  <2> HIDE DEF g, i, HaveDone, Making, Stage, Filled, First, AtTask
  <2> QED
    BY <1>1, <1>16, <2>1, <2>3, <2>4, <2>5, <2>6, <2>7, <2>8, <2>9 DEF Keys, Begun, Whole
<1> QED
  BY <1>11, <1>12, <1>19, <1>20 DEF ClusterInv
LEMMA StartFirstCluster ==
    ASSUME ClusterInv, StartFirst PROVE ClusterInv'
<1>1. /\ Types /\ Playing /\ Volumes /\ (~tainted => Keys) /\ AtTask("first")
      /\ want' = want /\ volume' = volume /\ pushed' = pushed /\ made' = made
      /\ tainted' = tainted /\ mon' = [mon EXCEPT ![First].state = "starting"]
  BY DEF ClusterInv, StartFirst, history
<1>2. Stage = 4 /\ play.todo # <<>> /\ First \in Hosts /\ Making /\ ~BeforeKeys
  BY <1>1, StageOf, FirstFacts DEF Making, BeforeKeys
<1> DEFINE q == [play EXCEPT !.generated = TRUE]
<1>3. /\ q \in PlaySet /\ q.todo = play.todo /\ q.result = play.result /\ q.alive = play.alive
      /\ q.active = play.active /\ q.temp = play.temp /\ q.available = play.available
      /\ q.fresh = play.fresh /\ q.keys = play.keys
  BY <1>1 DEF Types, PlaySet
<1>4. play' = Pass(q)
  BY DEF StartFirst
<1> HIDE DEF q
<1>5. /\ play' \in PlaySet /\ Others(play', q) /\ play'.todo = Tail(play.todo)
      /\ play'.left = q.alive /\ play'.result = Result(q)
  BY <1>1, <1>2, <1>3, <1>4, PassFields DEF Types
<1>6. Passes
  BY <1>5 DEF Passes, Others, Result
<1>7. Advances(play.left)
  BY <1>1, <1>2, <1>3, <1>5, <1>6 DEF Advances, Others, Playing
<1>8. Playing' /\ Follows(play.left)
  BY <1>1, <1>6, <1>7, AdvancePlaying, AdvanceFollows
<1>9. /\ mon' \in [Hosts -> [state : {"down", "starting", "up"}, key : {0} \cup DOMAIN Text]]
      /\ mon'[First].state = "starting"
      /\ \A h \in Hosts : mon'[h].key = mon[h].key
      /\ \A h \in Hosts : h # First => mon'[h].state = mon[h].state
  BY <1>1, <1>2 DEF Types
<1>10. Types'
  BY <1>1, <1>5, <1>9 DEF StartFirst, Types, counts
<1>11. play'.keys = play.keys
  BY <1>3, <1>5 DEF Others
<1>12. Volumes'
  <2>1. \A h \in Hosts : mon'[h].state # "down" => volume[h] # None
    BY <1>1, <1>2, <1>9 DEF Volumes, Filled
  <2>2. \A h \in Hosts : mon'[h].state = "up" => mon'[h].key # 0
    <3>1. "starting" # "up"
      OBVIOUS
    <3> QED
      BY <1>1, <1>9, <3>1 DEF Volumes
  <2>3. ~BeforeKeys'
    BY <1>2, <1>8 DEF Follows
  <2> QED
    BY <1>1, <1>2, <1>8, <1>11, <2>1, <2>2, <2>3, FollowVolumes
<1>13. ASSUME ~tainted PROVE Keys'
  <2>1. made = 1 /\ Begun(pushed[First])
    <3>1. made > 0 /\ made \in Nat
      BY <1>1, <1>2 DEF Volumes, Types
    <3>2. made <= 1 /\ pushed[First] = <<>>
      BY <1>1, <1>2, <1>13 DEF Keys
    <3> QED
      BY <3>1, <3>2 DEF Begun
  <2>2. \A h \in Hosts : mon'[h].state # "down" => made = 1 /\ Begun(pushed'[h])
    <3>1. \A h \in Hosts : mon[h].state # "down" => made = 1 /\ Begun(pushed[h])
      BY <1>1, <1>13 DEF Keys
    <3> HIDE DEF Begun
    <3> QED
      BY <1>1, <1>9, <2>1, <3>1
  <2>3. \A h \in HaveDone(7)' : Whole(pushed'[h])
    BY <1>2, <1>8 DEF Follows, HaveDone
  <2>4. play'.keys # <<>> => made = 1 /\ Whole(play'.keys)
    BY <1>1, <1>11, <1>13 DEF Keys
  <2> QED
    BY <1>1, <1>8, <1>9, <1>13, <2>2, <2>3, <2>4, FollowKeys
<1> QED
  BY <1>1, <1>8, <1>10, <1>12, <1>13 DEF ClusterInv

LEMMA RestOf ==
    ASSUME NEW b \in Seq(Nat), NEW n \in Nat
    PROVE  /\ SubSeq(b, n + 1, Len(b)) \in Seq(Nat)
           /\ \A i \in DOMAIN SubSeq(b, n + 1, Len(b)) :
                  n + i \in DOMAIN b /\ SubSeq(b, n + 1, Len(b))[i] = b[n + i]
<1>1. n + 1 \in Int /\ Len(b) \in Int /\ \A i \in n + 1 .. Len(b) : b[i] \in Nat
  OBVIOUS
<1>2. /\ SubSeq(b, n + 1, Len(b)) \in Seq(Nat)
      /\ Len(SubSeq(b, n + 1, Len(b))) = IF n + 1 <= Len(b) THEN Len(b) - (n + 1) + 1 ELSE 0
      /\ \A i \in 1 .. Len(b) - (n + 1) + 1 : SubSeq(b, n + 1, Len(b))[i] = b[(n + 1) + i - 1]
  BY <1>1, SubSeqProperties
<1> DEFINE r == SubSeq(b, n + 1, Len(b))
<1>3. DOMAIN r = 1 .. Len(r) /\ Len(r) \in Nat
  BY <1>2
<1> HIDE DEF r
<1>4. \A i \in 1 .. Len(b) - (n + 1) + 1 :
          n + i \in 1 .. Len(b) /\ (n + 1) + i - 1 = n + i
  BY <1>1
<1>5. DOMAIN r \subseteq 1 .. Len(b) - (n + 1) + 1
  BY <1>1, <1>2, <1>3 DEF r
<1>6. \A i \in 1 .. Len(b) - (n + 1) + 1 : r[i] = b[(n + 1) + i - 1]
  BY <1>2 DEF r
<1>7. \A i \in 1 .. Len(b) - (n + 1) + 1 : r[i] = b[n + i]
  BY <1>4, <1>6
<1>8. DOMAIN b = 1 .. Len(b)
  OBVIOUS
<1>9. \A i \in DOMAIN r : n + i \in DOMAIN b /\ r[i] = b[n + i]
  <2> HIDE DEF r
  <2> QED
    BY <1>4, <1>5, <1>7, <1>8
<1> QED
  BY <1>2, <1>9 DEF r

LEMMA Laying ==
    ASSUME NEW a \in Seq(Nat), NEW b \in Seq(Nat), NEW r \in Seq(Nat),
           \A i \in DOMAIN r : Len(a) + i \in DOMAIN b /\ r[i] = b[Len(a) + i]
    PROVE  /\ a \o r \in Seq(Nat) /\ Len(a \o r) >= Len(a)
           /\ \A i \in 1 .. Len(a) : (a \o r)[i] = a[i]
           /\ \A i \in DOMAIN (a \o r) :
                  i > Len(a) => i \in DOMAIN b /\ (a \o r)[i] = b[i]
<1>1. /\ a \o r \in Seq(Nat) /\ Len(a \o r) = Len(a) + Len(r)
      /\ \A i \in 1 .. Len(a) : (a \o r)[i] = a[i]
      /\ \A i \in 1 .. Len(r) : (a \o r)[Len(a) + i] = r[i]
      /\ Len(a) \in Nat /\ Len(r) \in Nat /\ DOMAIN r = 1 .. Len(r)
      /\ DOMAIN (a \o r) = 1 .. Len(a) + Len(r)
  OBVIOUS
<1>2. ASSUME NEW i \in DOMAIN (a \o r), i > Len(a)
      PROVE  i \in DOMAIN b /\ (a \o r)[i] = b[i]
  <2>1. i - Len(a) \in DOMAIN r /\ Len(a) + (i - Len(a)) = i
    BY <1>1, <1>2
  <2> QED
    BY <1>1, <2>1
<1> QED
  BY <1>1, <1>2

(* What is copied over a file lies at its beginning, and the rest of a longer  *)
(* one after it.                                                             *)
LEMMA Copied ==
    ASSUME NEW a \in Seq(Nat), NEW b \in Seq(Nat)
    PROVE  /\ CopyToHost(a, b) \in Seq(Nat) /\ Len(CopyToHost(a, b)) >= Len(a)
           /\ \A i \in 1 .. Len(a) : CopyToHost(a, b)[i] = a[i]
           /\ \A i \in DOMAIN CopyToHost(a, b) :
                  i > Len(a) => i \in DOMAIN b /\ CopyToHost(a, b)[i] = b[i]
<1>1. CASE b = a
  BY <1>1 DEF CopyToHost
<1>2. CASE b # a
  <2>1. CopyToHost(a, b) = a \o SubSeq(b, Len(a) + 1, Len(b)) /\ Len(a) \in Nat
    BY <1>2 DEF CopyToHost
  <2> DEFINE r == SubSeq(b, Len(a) + 1, Len(b))
  <2>2. r \in Seq(Nat) /\ \A i \in DOMAIN r : Len(a) + i \in DOMAIN b /\ r[i] = b[Len(a) + i]
    BY <2>1, RestOf
  <2>3. CopyToHost(a, b) = a \o r
    BY <2>1
  <2> HIDE DEF r
  <2> QED
    BY <2>2, <2>3, Laying
<1> QED
  BY <1>1, <1>2

LEMMA PushCluster ==
    ASSUME ClusterInv, NEW h \in Hosts, Push(h) PROVE ClusterInv'
<1>1. /\ Types /\ Playing /\ Volumes /\ (~tainted => Keys) /\ At("push") /\ h \in play.left
      /\ want' = want /\ volume' = volume /\ mon' = mon /\ made' = made
      /\ tainted' = tainted /\ play' = Done(play, h)
      /\ pushed' = [pushed EXCEPT ![h] = CopyToHost(play.keys, @)]
  BY DEF ClusterInv, Push, history
<1>2. /\ Stage = 7 /\ play.todo # <<>> /\ ~AtTask("bootstrap") /\ ~AtTask("first") /\ ~Making
      /\ play.keys # <<>> /\ ~BeforeKeys
  BY <1>1, StageOf DEF Volumes, Making, BeforeKeys
<1>3. play \in PlaySet /\ play.keys \in Seq(Nat) /\ pushed \in [Hosts -> Seq(Nat)]
  BY <1>1 DEF Types, PlaySet
<1>4. play' \in PlaySet /\ Playing' /\ Follows({h}) /\ Others(play', play)
  BY <1>1, <1>2, <1>3, DoneStep DEF Playing
<1> DEFINE t == CopyToHost(play.keys, pushed[h])
<1>5. /\ t \in Seq(Nat) /\ Len(t) >= Len(play.keys)
      /\ \A i \in 1 .. Len(play.keys) : t[i] = play.keys[i]
  BY <1>2, <1>3, Copied
<1> HIDE DEF t
<1>6. /\ pushed' \in [Hosts -> Seq(Nat)] /\ pushed'[h] = t
      /\ \A g \in Hosts : g # h => pushed'[g] = pushed[g]
  BY <1>1, <1>3, <1>5 DEF t
<1>7. Types'
  BY <1>1, <1>4, <1>6 DEF Push, Types, counts
<1>8. Volumes'
  <2>1. \A g \in Hosts : mon'[g].state # "down" => volume[g] # None
    BY <1>1 DEF Volumes
  <2>2. \A g \in Hosts : mon'[g].state = "up" => mon'[g].key # 0
    BY <1>1 DEF Volumes
  <2>3. ~BeforeKeys' /\ play'.keys = play.keys
    BY <1>2, <1>4 DEF Follows, Others
  <2> QED
    BY <1>1, <1>2, <1>4, <2>1, <2>2, <2>3, FollowVolumes
<1>9. ASSUME ~tainted PROVE Keys'
  <2>1. made = 1 /\ Whole(play.keys)
    BY <1>1, <1>2, <1>9 DEF Keys
  <2>2. Whole(t) /\ Begun(t)
    <3>1. Len(Text[1]) \in Nat /\ Len(t) \in Nat /\ Len(play.keys) \in Nat
          /\ DOMAIN t = 1 .. Len(t) /\ DOMAIN play.keys = 1 .. Len(play.keys)
      BY <1>1, <1>3, <1>5, Texts
    <3>2. Len(t) >= Len(Text[1])
      BY <1>5, <2>1, <3>1 DEF Whole
    <3>3. \A i \in DOMAIN t : i <= Len(Text[1]) => t[i] = 1
      BY <1>5, <2>1, <3>1 DEF Whole, Begun
    <3> QED
      BY <3>2, <3>3 DEF Whole, Begun
  <2>3. \A g \in Hosts : mon[g].state # "down" => made = 1 /\ Begun(pushed[g])
    BY <1>1, <1>9 DEF Keys
  <2>4. \A g \in Hosts : mon'[g].state # "down" => made = 1 /\ Begun(pushed'[g])
    BY <1>1, <1>6, <2>1, <2>2, <2>3
  <2>5. \A g \in HaveDone(7) : Whole(pushed[g])
    BY <1>1, <1>9 DEF Keys
  <2>6. \A g \in HaveDone(7)' : g \in Hosts /\ (g \in HaveDone(7) \/ g = h)
    <3>1. HaveDone(7)' \subseteq HaveDone(7) \cup {h}
      BY <1>2, <1>4 DEF Follows
    <3>2. HaveDone(7) \subseteq Hosts
      BY <1>3 DEF HaveDone, PlaySet
    <3> QED
      BY <3>1, <3>2
  <2>7. \A g \in HaveDone(7)' : Whole(pushed'[g])
    BY <1>6, <2>2, <2>5, <2>6
  <2>8. play'.keys # <<>> => made = 1 /\ Whole(play'.keys)
    BY <1>4, <2>1 DEF Others
  <2>9. ~Making' /\ \A g \in Hosts : mon'[g].key = mon[g].key
    BY <1>1, <1>2, <1>4 DEF Follows
  <2> QED
    BY <1>1, <1>4, <1>9, <2>4, <2>7, <2>8, <2>9, FollowKeys
<1> QED
  BY <1>1, <1>4, <1>7, <1>8, <1>9 DEF ClusterInv
LEMMA PushBreaksCluster ==
    ASSUME ClusterInv, NEW h \in Hosts, PushBreaks(h) PROVE ClusterInv'
<1>1. /\ Types /\ Playing /\ Volumes /\ (~tainted => Keys) /\ At("push") /\ h \in play.left
      /\ want' = want /\ volume' = volume /\ mon' = mon /\ made' = made
      /\ tainted' = tainted /\ HostFails(h)
      /\ pushed' = [pushed EXCEPT ![h] = CopyToHost(<<Head(play.keys)>>, @)]
  BY DEF ClusterInv, PushBreaks, history
<1>2. /\ Stage = 7 /\ play.todo # <<>> /\ ~AtTask("bootstrap") /\ ~AtTask("first") /\ ~Making
      /\ play.keys # <<>> /\ ~BeforeKeys
  BY <1>1, StageOf DEF Volumes, Making, BeforeKeys
<1>3. play.keys \in Seq(Nat) /\ pushed \in [Hosts -> Seq(Nat)]
  BY <1>1 DEF Types, PlaySet
<1>4. /\ play' \in PlaySet /\ Playing' /\ Follows({}) /\ play'.keys = play.keys
  BY <1>1, <1>2, HostFailFacts
<1> DEFINE a == <<Head(play.keys)>>
           t == CopyToHost(a, pushed[h])
<1>5. a \in Seq(Nat) /\ Len(a) = 1 /\ a[1] = play.keys[1] /\ 1 \in DOMAIN play.keys
  BY <1>2, <1>3
<1>6. pushed' = [pushed EXCEPT ![h] = t]
  BY <1>1
<1> HIDE DEF a
<1>7. /\ t \in Seq(Nat) /\ t[1] = play.keys[1]
      /\ \A i \in DOMAIN t : i > 1 => i \in DOMAIN pushed[h] /\ t[i] = pushed[h][i]
  <2>1. pushed[h] \in Seq(Nat)
    BY <1>3
  <2>2. /\ t \in Seq(Nat) /\ \A i \in 1 .. Len(a) : t[i] = a[i]
        /\ \A i \in DOMAIN t : i > Len(a) => i \in DOMAIN pushed[h] /\ t[i] = pushed[h][i]
    BY <1>5, <2>1, Copied
  <2> HIDE DEF t
  <2> QED
    BY <1>5, <2>2
<1> HIDE DEF t
<1>8. /\ pushed' \in [Hosts -> Seq(Nat)] /\ pushed'[h] = t
      /\ \A g \in Hosts : g # h => pushed'[g] = pushed[g]
  BY <1>3, <1>6, <1>7
<1>9. Types'
  <2>1. faults' \in 0 .. MaxFaults
    <3>1. MaxFaults \in Nat
      BY DeployAssumption DEF DeployAssumption
    <3> QED
      BY <1>1, <3>1 DEF PushBreaks, Fault, Types
  <2> QED
    BY <1>1, <1>4, <1>8, <2>1 DEF PushBreaks, Types
<1>10. Volumes'
  <2>1. \A g \in Hosts : mon'[g].state # "down" => volume[g] # None
    BY <1>1 DEF Volumes
  <2>2. \A g \in Hosts : mon'[g].state = "up" => mon'[g].key # 0
    BY <1>1 DEF Volumes
  <2>3. ~BeforeKeys'
    BY <1>2, <1>4 DEF Follows
  <2> QED
    BY <1>1, <1>2, <1>4, <2>1, <2>2, <2>3, FollowVolumes
<1>11. ASSUME ~tainted PROVE Keys'
  <2>1. made = 1 /\ Whole(play.keys)
    BY <1>1, <1>2, <1>11 DEF Keys
  <2>2. \A g \in Hosts : mon[g].state # "down" => made = 1 /\ Begun(pushed[g])
    BY <1>1, <1>11 DEF Keys
  <2>3. ASSUME Begun(pushed[h]) PROVE Begun(t)
    <3>1. play.keys[1] = 1
      <4>1. Len(Text[1]) \in Nat \ {0}
        BY <1>1, Texts
      <4> QED
        BY <1>5, <2>1, <4>1 DEF Whole, Begun
    <3>2. ASSUME NEW i \in DOMAIN t, i <= Len(Text[1]) PROVE t[i] = 1
      <4>1. i \in Nat \ {0}
        BY <1>7
      <4>2. CASE i = 1
        BY <1>7, <3>1, <4>2
      <4>3. CASE i > 1
        BY <1>7, <2>3, <3>2, <4>3 DEF Begun
      <4> QED
        BY <4>1, <4>2, <4>3
    <3> QED
      BY <3>2 DEF Begun
  <2>4. \A g \in Hosts : mon'[g].state # "down" => made = 1 /\ Begun(pushed'[g])
    BY <1>1, <1>8, <2>2, <2>3
  <2>5. \A g \in HaveDone(7)' : g \in Hosts /\ g # h /\ Whole(pushed[g])
    <3>1. HaveDone(7)' \subseteq HaveDone(7)
      BY <1>4 DEF Follows
    <3>2. \A g \in HaveDone(7) : g \in Hosts /\ g # h
      BY <1>1, <1>2 DEF HaveDone, Types, PlaySet
    <3>3. \A g \in HaveDone(7) : Whole(pushed[g])
      BY <1>1, <1>11 DEF Keys
    <3> QED
      BY <3>1, <3>2, <3>3
  <2>6. \A g \in HaveDone(7)' : Whole(pushed'[g])
    BY <1>8, <2>5
  <2>7. ~Making' /\ \A g \in Hosts : mon'[g].key = mon[g].key
    BY <1>1, <1>2, <1>4 DEF Follows
  <2> QED
    BY <1>1, <1>4, <1>11, <2>1, <2>4, <2>6, <2>7, FollowKeys
<1> QED
  BY <1>1, <1>4, <1>9, <1>10, <1>11 DEF ClusterInv

LEMMA BringUpCluster ==
    ASSUME ClusterInv, NEW h \in Hosts, BringUp(h) PROVE ClusterInv'
<1>1. /\ Types /\ Playing /\ Volumes /\ (~tainted => Keys) /\ At("up") /\ h \in play.left
      /\ want' = want /\ volume' = volume /\ pushed' = pushed /\ made' = made
      /\ tainted' = tainted /\ play' = Done(play, h)
      /\ mon' = [mon EXCEPT ![h].state = IF @ = "down" THEN "starting" ELSE @]
  BY DEF ClusterInv, BringUp, history
<1>2. /\ Stage = 8 /\ play.todo # <<>> /\ ~AtTask("bootstrap") /\ ~AtTask("first") /\ ~Making
      /\ play.keys # <<>> /\ ~BeforeKeys
  BY <1>1, StageOf DEF Volumes, Making, BeforeKeys
<1>3. play \in PlaySet /\ h \in HaveDone(2) /\ h \in HaveDone(7)
  BY <1>1, <1>2 DEF Types, Playing, HaveDone
<1>4. play' \in PlaySet /\ Playing' /\ Follows({h}) /\ Others(play', play)
  BY <1>1, <1>2, <1>3, DoneStep DEF Playing
<1>5. /\ mon' \in [Hosts -> [state : {"down", "starting", "up"}, key : {0} \cup DOMAIN Text]]
      /\ \A g \in Hosts : mon'[g].key = mon[g].key
      /\ \A g \in Hosts : g # h => mon'[g].state = mon[g].state
      /\ mon'[h].state = IF mon[h].state = "down" THEN "starting" ELSE mon[h].state
  BY <1>1 DEF Types
<1>6. Types'
  BY <1>1, <1>4, <1>5 DEF BringUp, Types, counts
<1>7. Volumes'
  <2>1. \A g \in Hosts : mon'[g].state # "down" => volume[g] # None
    BY <1>1, <1>3, <1>5 DEF Volumes
  <2>2. \A g \in Hosts : mon'[g].state = "up" => mon'[g].key # 0
    BY <1>1, <1>5 DEF Volumes
  <2>3. ~BeforeKeys' /\ play'.keys = play.keys
    BY <1>2, <1>4 DEF Follows, Others
  <2> QED
    BY <1>1, <1>2, <1>4, <2>1, <2>2, <2>3, FollowVolumes
<1>8. ASSUME ~tainted PROVE Keys'
  <2>1. made = 1 /\ Whole(pushed[h]) /\ \A g \in HaveDone(7) : Whole(pushed[g])
    BY <1>1, <1>2, <1>3, <1>8 DEF Keys
  <2>2. \A g \in Hosts : mon'[g].state # "down" => made = 1 /\ Begun(pushed'[g])
    <3>1. \A g \in Hosts : mon[g].state # "down" => Begun(pushed[g])
      BY <1>1, <1>8 DEF Keys
    <3> HIDE DEF Begun
    <3> QED
      BY <1>1, <1>5, <2>1, <3>1 DEF Whole
  <2>3. \A g \in HaveDone(7)' : Whole(pushed'[g])
    BY <1>1, <1>2, <1>4, <2>1 DEF Follows
  <2>4. play'.keys # <<>> => made = 1 /\ Whole(play'.keys)
    BY <1>1, <1>4, <1>8 DEF Keys, Others
  <2> QED
    BY <1>1, <1>4, <1>5, <1>8, <2>2, <2>3, <2>4, FollowKeys
<1> QED
  BY <1>1, <1>4, <1>6, <1>7, <1>8 DEF ClusterInv

LEMMA MonStopsCluster ==
    ASSUME ClusterInv, NEW h \in Hosts, MonStops(h) PROVE ClusterInv'
<1>1. /\ Types /\ Playing /\ Volumes /\ (~tainted => Keys) /\ mon[h].state = "up"
      /\ want' = want /\ volume' = volume /\ pushed' = pushed /\ made' = made
      /\ tainted' = tainted /\ play' = play
  BY DEF ClusterInv, MonStops, history
<1>2. PICK s \in {"starting", "down"} : mon' = [mon EXCEPT ![h].state = s]
  BY DEF MonStops
<1>3. /\ mon' \in [Hosts -> [state : {"down", "starting", "up"}, key : {0} \cup DOMAIN Text]]
      /\ \A g \in Hosts : mon'[g].key = mon[g].key
      /\ \A g \in Hosts : g # h => mon'[g].state = mon[g].state
      /\ mon'[h].state = s
  BY <1>1, <1>2 DEF Types
<1>4. Types'
  <2>1. faults' \in 0 .. MaxFaults
    <3>1. MaxFaults \in Nat
      BY DeployAssumption DEF DeployAssumption
    <3> QED
      BY <1>1, <3>1 DEF MonStops, Fault, Types
  <2> QED
    BY <1>1, <1>3, <2>1 DEF MonStops, Types
<1>5. /\ Stage' = Stage /\ (BeforeKeys' <=> BeforeKeys) /\ (Making' <=> Making)
      /\ (\A r : HaveDone(r)' = HaveDone(r)) /\ (\A g : Filled(g)' <=> Filled(g))
      /\ FilledHosts' = FilledHosts /\ First' = First
      /\ \A name : AtTask(name)' <=> AtTask(name)
  BY <1>1 DEF Stage, BeforeKeys, Making, HaveDone, Filled, FilledHosts, First, AtTask
<1>6. Playing'
  BY <1>1 DEF Playing
<1>7. Volumes'
  <2>1. \A g \in Hosts : mon'[g].state # "down" => mon[g].state # "down"
    BY <1>1, <1>3
  <2>2. \A g \in Hosts : mon'[g].state = "up" => mon[g].state = "up"
    BY <1>1, <1>3
  <2>3. BeforeKeys => \A g \in play.fresh : volume[g] = <<>> /\ mon'[g].state = "down"
    <3>1. play.fresh \subseteq Hosts
      BY <1>1 DEF Types, PlaySet
    <3>2. BeforeKeys => \A g \in play.fresh : volume[g] = <<>> /\ mon[g].state = "down"
      BY <1>1 DEF Volumes
    <3> QED
      BY <1>1, <1>3, <3>1, <3>2
  <2> HIDE DEF HaveDone, BeforeKeys, Making, Stage, Filled, FilledHosts, First, AtTask
  <2> QED
    BY <1>1, <1>3, <1>5, <2>1, <2>2, <2>3 DEF Volumes
<1>8. ASSUME ~tainted PROVE Keys'
  <2>1. \A g \in Hosts : mon'[g].state # "down" => mon[g].state # "down"
    BY <1>1, <1>3
  <2> HIDE DEF HaveDone, BeforeKeys, Making, Stage, Filled, FilledHosts, First, AtTask
  <2> QED
    BY <1>1, <1>3, <1>5, <1>8, <2>1 DEF Keys, Begun, Whole
<1> QED
  BY <1>1, <1>4, <1>6, <1>7, <1>8 DEF ClusterInv
LEMMA MonStartsCluster ==
    ASSUME ClusterInv, NEW h \in Hosts, MonStarts(h) PROVE ClusterInv'
<1>1. /\ Types /\ Playing /\ Volumes /\ (~tainted => Keys) /\ mon[h].state = "starting"
      /\ want' = want /\ pushed' = pushed /\ made' = made /\ ceph' = ceph
      /\ tainted' = tainted /\ play' = play
      /\ plays' = plays /\ edits' = edits /\ faults' = faults
      /\ volume' = [volume EXCEPT ![h] = IF pushed[h] = <<>> THEN @ ELSE pushed[h]]
  BY DEF ClusterInv, MonStarts, history, counts
<1>2. volume[h] # None /\ pushed[h] \in Seq(Nat) /\ volume[h] \in Seq(Nat)
  BY <1>1 DEF Volumes, Types
<1>3. /\ volume' \in [Hosts -> Seq(Nat) \cup {None}] /\ volume'[h] \in Seq(Nat)
      /\ volume'[h] = IF pushed[h] = <<>> THEN volume[h] ELSE pushed[h]
      /\ \A g \in Hosts : g # h => volume'[g] = volume[g]
  BY <1>1, <1>2 DEF Types
<1>4. volume'[h] # None /\ <<>> \in Seq(Nat) /\ <<>> # None
  <2>1. <<>> \in Seq(Nat)
    OBVIOUS
  <2> QED
    BY <1>3, <2>1, Assumed
<1>5. \A g \in Hosts : /\ Filled(g) => Filled(g)'
                       /\ g # h => (Filled(g)' <=> Filled(g))
  BY <1>1, <1>3, <1>4 DEF Filled
(* The monitor starts with the key it has, is made of the keys there are, or   *)
(* does not start.                                                          *)
<1>6. PICK k \in {0} \cup DOMAIN Text, s \in {"starting", "up"} :
          /\ mon' = [mon EXCEPT ![h] = [state |-> s, key |-> k]]
          /\ s = "up" => k # 0
          /\ k = mon[h].key \/ (volume'[h] \in Range(Text) /\ k = Head(volume'[h]) /\ k # 0)
  <2>1. mon[h] \in [state : {"down", "starting", "up"}, key : {0} \cup DOMAIN Text]
        /\ mon \in [Hosts -> [state : {"down", "starting", "up"}, key : {0} \cup DOMAIN Text]]
    BY <1>1 DEF Types
  <2>2. CASE mon[h].key # 0 /\ mon' = [mon EXCEPT ![h].state = "up"]
    <3>1. mon' = [mon EXCEPT ![h] = [state |-> "up", key |-> mon[h].key]]
      <4>1. [mon[h] EXCEPT !.state = "up"] = [state |-> "up", key |-> mon[h].key]
        BY <2>1
      <4> QED
        BY <2>2, <4>1
    <3>2. mon[h].key \in {0} \cup DOMAIN Text
      BY <2>1
    <3> QED
      BY <2>2, <3>1, <3>2
  <2>3. CASE /\ volume'[h] \in Range(Text)
             /\ mon' = [mon EXCEPT ![h] = [state |-> "up", key |-> Head(volume'[h])]]
    <3>1. PICK g \in DOMAIN Text : volume'[h] = Text[g]
      BY <2>3 DEF Range
    <3>2. Head(Text[g]) = g /\ g # 0
      <4>1. g \in Nat \ {0} /\ Text[g] \in Seq(Nat) /\ Len(Text[g]) \in Nat \ {0} /\ Text[g][1] = g
        BY <1>1, Texts
      <4> QED
        BY <4>1
    <3> QED
      BY <2>3, <3>1, <3>2
  <2>4. CASE UNCHANGED mon
    <3>1. mon' = [mon EXCEPT ![h] = [state |-> "starting", key |-> mon[h].key]]
      BY <1>1, <2>1, <2>4
    <3> QED
      BY <2>1, <3>1
  <2> QED
    BY <2>2, <2>3, <2>4 DEF MonStarts
<1>7. /\ mon' \in [Hosts -> [state : {"down", "starting", "up"}, key : {0} \cup DOMAIN Text]]
      /\ mon'[h].state = s /\ mon'[h].key = k
      /\ \A g \in Hosts : g # h => mon'[g] = mon[g]
  BY <1>1, <1>6 DEF Types
<1>8. Types'
  BY <1>1, <1>3, <1>7 DEF Types
<1>9. Playing'
  BY <1>1 DEF Playing
<1>10. /\ Stage' = Stage /\ (BeforeKeys' <=> BeforeKeys) /\ (Making' <=> Making)
       /\ (\A r : HaveDone(r)' = HaveDone(r)) /\ First' = First
       /\ \A name : AtTask(name)' <=> AtTask(name)
  BY <1>1 DEF Stage, BeforeKeys, Making, HaveDone, First, AtTask
<1>11. made <= Cardinality(FilledHosts')
  <2>1. FilledHosts \subseteq FilledHosts'
    BY <1>1, <1>5, FirstFacts DEF FilledHosts
  <2>2. IsFiniteSet(FilledHosts') /\ Cardinality(FilledHosts') \in Nat
    <3>1. IsFiniteSet(Range(want.mons)) /\ FilledHosts' \in SUBSET Range(want.mons)
      BY <1>1, Assumed DEF Types, FilledHosts
    <3> QED
      BY <3>1, FS_Subset, FS_CardinalityType
  <2>3. Cardinality(FilledHosts) <= Cardinality(FilledHosts') /\ Cardinality(FilledHosts) \in Nat
    <3>1. Cardinality(FilledHosts) <= Cardinality(FilledHosts')
      BY <2>1, <2>2, FS_Subset
    <3> QED
      BY <1>1, <3>1, FilledFinite
  <2>4. made <= Cardinality(FilledHosts) /\ made \in Nat
    BY <1>1 DEF Volumes, Types
  <2> QED
    BY <2>2, <2>3, <2>4
<1>12. Volumes'
  <2>1. \A g \in Hosts : /\ volume[g] # None => volume'[g] # None
                         /\ mon'[g].state # "down" => mon[g].state # "down"
    BY <1>1, <1>3, <1>4, <1>7
  <2>2. \A g \in Hosts : mon'[g].state = "up" => mon'[g].key # 0
    BY <1>1, <1>6, <1>7 DEF Volumes
  <2>3. \A g \in HaveDone(2) : g \in Hosts /\ volume[g] # None
    BY <1>1 DEF Volumes, HaveDone, Types, PlaySet
  <2>4. BeforeKeys => \A g \in play.fresh : volume'[g] = <<>> /\ mon'[g].state = "down"
    <3>1. play.fresh \subseteq Hosts
      BY <1>1 DEF Types, PlaySet
    <3>2. BeforeKeys => \A g \in play.fresh : volume[g] = <<>> /\ mon[g].state = "down"
      BY <1>1 DEF Volumes
    <3> QED
      BY <1>1, <1>3, <1>7, <3>1, <3>2
  <2>5. Making => Filled(First)'
    <3>1. Making => Filled(First) /\ First \in Hosts
      BY <1>1, FirstFacts DEF Volumes
    <3>2. First' = First /\ (First \in Hosts /\ Filled(First) => Filled(First)')
      BY <1>5, <1>10 DEF Filled
    <3> QED
      BY <3>1, <3>2
  <2> HIDE DEF HaveDone, BeforeKeys, Making, Stage, Filled, FilledHosts, First, AtTask
  <2> QED
    BY <1>1, <1>10, <1>11, <2>1, <2>2, <2>3, <2>4, <2>5 DEF Volumes
<1>13. ASSUME ~tainted PROVE Keys'
  <2>1. /\ made = 1 /\ Begun(pushed[h])
        /\ \A g \in Hosts : mon[g].state # "down" => Begun(pushed[g])
    BY <1>1, <1>13 DEF Keys
  <2>2. \A g \in Hosts : Filled(g) => Begun(volume[g])
    BY <1>1, <1>13 DEF Keys
  <2>3. Filled(h)' => Begun(volume'[h])
    <3>1. CASE pushed[h] = <<>>
      <4>1. Filled(h)' => Filled(h)
        BY <1>3, <3>1 DEF Filled
      <4> QED
        BY <1>3, <2>2, <3>1, <4>1
    <3>2. CASE pushed[h] # <<>>
      BY <1>3, <2>1, <3>2
    <3> QED
      BY <3>1, <3>2
  <2>4. \A g \in Hosts : Filled(g)' => Begun(volume'[g])
    BY <1>3, <1>5, <2>2, <2>3
  <2>5. k # 0 => k = 1 /\ Filled(h)'
    <3>1. CASE k = mon[h].key
      BY <1>1, <1>5, <1>13, <3>1 DEF Keys
    <3>2. CASE volume'[h] \in Range(Text) /\ k = Head(volume'[h])
      <4>1. PICK g \in DOMAIN Text : volume'[h] = Text[g]
        BY <3>2 DEF Range
      <4>2. /\ g \in Nat \ {0} /\ Text[g] \in Seq(Nat) /\ Len(Text[g]) \in Nat \ {0}
            /\ Text[g][1] = g /\ Len(Text[1]) \in Nat \ {0}
        BY <1>1, Texts
      <4>3. volume'[h] # <<>> /\ k = g
        BY <3>2, <4>1, <4>2
      <4>4. Filled(h)'
        BY <1>4, <4>3 DEF Filled
      <4>5. Begun(Text[g])
        BY <2>3, <4>1, <4>4
      <4> QED
        BY <4>2, <4>3, <4>4, <4>5 DEF Begun
    <3> QED
      BY <1>6, <3>1, <3>2
  <2>6. \A g \in Hosts : mon'[g].key # 0 => mon'[g].key = 1 /\ Filled(g)'
    BY <1>1, <1>5, <1>7, <1>13, <2>5 DEF Keys
  <2>7. \A g \in Hosts : mon'[g].state # "down" => Begun(pushed[g])
    BY <1>1, <1>7, <2>1
  <2>8. \E g \in Range(want.mons) : Filled(g)'
    BY <1>1, <1>5, <1>13, <2>1, FirstFacts DEF Keys
  <2> HIDE DEF HaveDone, BeforeKeys, Making, Stage, Filled, FilledHosts, First, AtTask
  <2> QED
    BY <1>1, <1>10, <1>13, <2>1, <2>4, <2>6, <2>7, <2>8 DEF Keys, Begun, Whole
<1> QED
  BY <1>1, <1>8, <1>9, <1>12, <1>13 DEF ClusterInv
LEMMA EditCluster ==
    ASSUME ClusterInv, Edit PROVE ClusterInv'
<1>1. /\ Types /\ Playing /\ Volumes /\ (~tainted => Keys) /\ play.todo = <<>>
      /\ volume' = volume /\ pushed' = pushed /\ made' = made /\ mon' = mon /\ ceph' = ceph
      /\ tainted' = tainted /\ play' = Idle
      /\ plays' = plays /\ faults' = faults /\ edits' = edits + 1 /\ edits < MaxEdits
  BY DEF ClusterInv, Edit, history
<1>2. /\ want' \in [mons : Inventories, caps : Nat, class : {"ssd", "nvme"}, named : BOOLEAN]
      /\ want'.caps \in 1 .. edits' + 1
      /\ Range(want.mons) \subseteq Range(want'.mons)
  <2>1. want \in [mons : Inventories, caps : Nat, class : {"ssd", "nvme"}, named : BOOLEAN]
        /\ want.caps \in 1 .. edits + 1 /\ edits \in Nat
    BY <1>1 DEF Types
  <2>2. CASE \E inv \in Inventories : /\ Range(want.mons) \subseteq Range(inv)
                                      /\ want' = [want EXCEPT !.mons = inv]
    BY <1>1, <2>1, <2>2
  <2>3. CASE want' = [want EXCEPT !.caps = @ + 1]
    BY <1>1, <2>1, <2>3
  <2>4. CASE want' = [want EXCEPT !.class = "nvme"]
    BY <1>1, <2>1, <2>4
  <2>5. CASE want' = [want EXCEPT !.named = ~@]
    <3> DEFINE b == ~want.named
    <3>1. b \in BOOLEAN /\ want' = [want EXCEPT !.named = b]
      BY <2>1, <2>5
    <3> HIDE DEF b
    <3> QED
      BY <1>1, <2>1, <3>1
  <2> QED
    BY <2>2, <2>3, <2>4, <2>5 DEF Edit
<1>3. /\ play' \in PlaySet /\ play'.todo = <<>> /\ play'.result = "none" /\ play'.left = {}
      /\ play'.alive = {} /\ play'.keys = <<>> /\ play'.active = None /\ play'.temp = None
      /\ play'.available = None
  <2>1. <<>> \in Seq(TaskSet) /\ <<>> \in Seq(Nat)
    OBVIOUS
  <2> QED
    BY <1>1, <2>1 DEF Idle, PlaySet
<1>4. Types'
  <2>1. edits' \in 0 .. MaxEdits
    <3>1. MaxEdits \in Nat
      BY DeployAssumption DEF DeployAssumption
    <3> QED
      BY <1>1, <3>1 DEF Types
  <2> QED
    BY <1>1, <1>2, <1>3, <2>1 DEF Types
<1>5. /\ Stage' = 0 /\ ~BeforeKeys' /\ ~Making' /\ ~AtTask("bootstrap")'
      /\ \A r \in 1 .. 8 : HaveDone(r)' = {}
  BY <1>3 DEF Stage, BeforeKeys, Making, AtTask, HaveDone
<1>6. Playing'
  BY <1>3 DEF Playing, Chained
<1>7. \A h : Filled(h)' <=> Filled(h)
  BY <1>1 DEF Filled
<1>8. made <= Cardinality(FilledHosts')
  <2>1. FilledHosts \subseteq FilledHosts'
    BY <1>2, <1>7 DEF FilledHosts
  <2>2. IsFiniteSet(FilledHosts') /\ Cardinality(FilledHosts') \in Nat
    <3>1. IsFiniteSet(Range(want'.mons)) /\ FilledHosts' \in SUBSET Range(want'.mons)
      BY <1>2, Assumed DEF FilledHosts
    <3> QED
      BY <3>1, FS_Subset, FS_CardinalityType
  <2>3. Cardinality(FilledHosts) <= Cardinality(FilledHosts') /\ Cardinality(FilledHosts) \in Nat
    <3>1. Cardinality(FilledHosts) <= Cardinality(FilledHosts')
      BY <2>1, <2>2, FS_Subset
    <3> QED
      BY <1>1, <3>1, FilledFinite
  <2>4. made <= Cardinality(FilledHosts) /\ made \in Nat
    BY <1>1 DEF Volumes, Types
  <2> QED
    BY <2>2, <2>3, <2>4
<1>9. Volumes'
  <2> HIDE DEF HaveDone, BeforeKeys, Making, Stage, Filled, FilledHosts, First, AtTask
  <2> QED
    BY <1>1, <1>5, <1>8 DEF Volumes
<1>10. ASSUME ~tainted PROVE Keys'
  <2>1. made = 1 => \E h \in Range(want'.mons) : Filled(h)
    BY <1>1, <1>2, <1>10 DEF Keys
  <2> HIDE DEF HaveDone, Making, Stage, Filled, First, AtTask
  <2> QED
    BY <1>1, <1>3, <1>5, <1>7, <1>10, <2>1 DEF Keys, Begun, Whole
<1> QED
  BY <1>1, <1>4, <1>6, <1>9, <1>10 DEF ClusterInv

-----------------------------------------------------------------------------
(* The tasks that ask the cluster, and the commands.                          *)

CommandTasks == [task : {"command"}, arg : CommandSet]

LEMMA CommandsTyped ==
    ASSUME NEW S, NEW ops \in Seq(S), NEW x,
           \A i \in DOMAIN ops : [op |-> ops[i], x |-> x] \in CommandSet
    PROVE  /\ Cmds(ops, x) \in Seq(CommandTasks) /\ Len(Cmds(ops, x)) = Len(ops)
           /\ \A i \in 1 .. Len(ops) : Cmds(ops, x)[i] = Cmd(ops[i], x)
<1>1. Cmds(ops, x) \in [1 .. Len(ops) -> CommandTasks]
  BY DEF Cmds, Cmd, CommandTasks
<1>2. Cmds(ops, x) \in Seq(CommandTasks)
  BY <1>1, SeqDef
<1>3. Len(ops) \in Nat /\ DOMAIN Cmds(ops, x) = 1 .. Len(ops)
  BY <1>1
<1> QED
  BY <1>2, <1>3 DEF Cmds

(* The operations on a pool, in order: how it is made, and what a cache needs. *)
MakeOps(p) ==
    IF Pool[p].erasure THEN <<"profile", "created", "app", "overwrites">>
    ELSE <<"rule", "created", "app">>
CacheOps(p) ==
    IF Pool[p].cache /\ Pool[p].cacheRule
    THEN <<"rule", "cache", "tier", "mode", "overlay", "unset_limit">> ELSE <<>>

LEMMA PoolPlan ==
    ASSUME NEW p \in Pools
    PROVE  /\ Cmds(MakeOps(p), p) \in Seq(CommandTasks)
           /\ CacheCommands(p) = Cmds(CacheOps(p), p)
           /\ Cmds(CacheOps(p), p) \in Seq(CommandTasks)
           /\ PreparePool(p) =
                  IF "created" \in ceph.pools[p] \/ ~(Pool[p].erasure \/ Pool[p].rule) THEN <<>>
                  ELSE Cmds(MakeOps(p), p) \o Cmds(CacheOps(p), p)
<1>1. MakeOps(p) \in Seq(PoolOps) /\ CacheOps(p) \in Seq(PoolOps)
  <2>1. /\ <<"profile", "created", "app", "overwrites">> \in Seq(PoolOps)
        /\ <<"rule", "created", "app">> \in Seq(PoolOps)
    BY DEF PoolOps, Settings
  <2>2. /\ <<"rule", "cache", "tier", "mode", "overlay", "unset_limit">> \in Seq(PoolOps)
        /\ <<>> \in Seq(PoolOps)
    BY DEF PoolOps, Settings
  <2> QED
    BY <2>1, <2>2 DEF MakeOps, CacheOps
<1>2. \A o \in PoolOps : [op |-> o, x |-> p] \in CommandSet
  BY DEF CommandSet
<1>3. /\ \A i \in DOMAIN MakeOps(p) : [op |-> MakeOps(p)[i], x |-> p] \in CommandSet
      /\ \A i \in DOMAIN CacheOps(p) : [op |-> CacheOps(p)[i], x |-> p] \in CommandSet
  BY <1>1, <1>2
<1>4. Cmds(MakeOps(p), p) \in Seq(CommandTasks) /\ Cmds(CacheOps(p), p) \in Seq(CommandTasks)
  BY <1>1, <1>3, CommandsTyped
<1>5. CacheCommands(p) = Cmds(CacheOps(p), p)
  <2>1. Cmds(<<>>, p) = <<>>
    BY DEF Cmds
  <2> QED
    BY <2>1 DEF CacheCommands, CacheOps
<1>6. PreparePool(p) =
          IF "created" \in ceph.pools[p] \/ ~(Pool[p].erasure \/ Pool[p].rule) THEN <<>>
          ELSE Cmds(MakeOps(p), p) \o Cmds(CacheOps(p), p)
  BY <1>5 DEF PreparePool, MakeOps
<1> QED
  BY <1>4, <1>5, <1>6

LEMMA PlanTyped ==
    ASSUME NEW t \in AskSet PROVE Plan(t) \in Seq(CommandTasks)
<1>1. CASE t \in [task : {"keyring"}, arg : Keyrings]
  <2>1. Cmd("get_or_create", t.arg) \in CommandTasks /\ Cmd("caps", t.arg) \in CommandTasks
    BY <1>1 DEF Cmd, CommandTasks, CommandSet
  <2>2. EnsureKeyring(t.arg) \in {<<Cmd("get_or_create", t.arg)>>, <<Cmd("caps", t.arg)>>, <<>>}
    BY DEF EnsureKeyring
  <2>3. Plan(t) = EnsureKeyring(t.arg)
    BY <1>1 DEF Plan
  <2> HIDE DEF CommandTasks
  <2>4. /\ <<Cmd("get_or_create", t.arg)>> \in Seq(CommandTasks)
        /\ <<Cmd("caps", t.arg)>> \in Seq(CommandTasks) /\ <<>> \in Seq(CommandTasks)
    BY <2>1
  <2> QED
    BY <2>2, <2>3, <2>4
<1>2. CASE t \in [task : {"class"}, arg : Range(Osds)]
  <2> DEFINE ops == <<"rm_device_class", "set_device_class">>
  <2>1. ops \in Seq({"rm_device_class", "set_device_class"})
        /\ \A i \in DOMAIN ops : [op |-> ops[i], x |-> t.arg] \in CommandSet
    BY <1>2 DEF CommandSet
  <2>2. Cmds(ops, t.arg) \in Seq(CommandTasks)
    BY <2>1, CommandsTyped
  <2>3. Plan(t) = SetDeviceClass(t.arg)
    BY <1>2 DEF Plan
  <2> QED
    BY <2>2, <2>3 DEF SetDeviceClass
<1>3. CASE t \in [task : {"pool"}, arg : Pools]
  <2>1. Plan(t) = PreparePool(t.arg) /\ t.arg \in Pools
    BY <1>3 DEF Plan
  <2> DEFINE m == Cmds(MakeOps(t.arg), t.arg)
             c == Cmds(CacheOps(t.arg), t.arg)
  <2>2. m \in Seq(CommandTasks) /\ c \in Seq(CommandTasks) /\ PreparePool(t.arg) \in {<<>>, m \o c}
    BY <2>1, PoolPlan
  <2> HIDE DEF m, c
  <2>3. m \o c \in Seq(CommandTasks) /\ <<>> \in Seq(CommandTasks)
    BY <2>2
  <2> QED
    BY <2>1, <2>2, <2>3
<1>4. CASE t \in [task : {"fs"}, arg : {"cephfs"}]
  <2>1. Plan(t) = MakeFs /\ Cmd("fs_new", "cephfs") \in CommandTasks
    BY <1>4 DEF Plan, Cmd, CommandTasks, CommandSet
  <2> QED
    BY <2>1 DEF MakeFs
<1> QED
  BY <1>1, <1>2, <1>3, <1>4 DEF AskSet
LEMMA AskFacts ==
    ASSUME Types, Playing, Ask
    PROVE  /\ Stage = 9 /\ play.todo # <<>> /\ Head(play.todo) \in AskSet
           /\ play' \in PlaySet /\ Others(play', play) /\ play'.left = play.left
           /\ play'.todo = Plan(Head(play.todo)) \o Tail(play.todo) /\ Chained(play'.todo)
           /\ play'.result = IF play'.todo # <<>> THEN play.result
                             ELSE IF play.alive = Range(want.mons) THEN "ok" ELSE "failed"
           /\ \A i \in DOMAIN Plan(Head(play.todo)) : Rank(Plan(Head(play.todo))[i]) = 9
<1> DEFINE t == Head(play.todo)
           c == Plan(t)
           d == c \o Tail(play.todo)
<1>1. /\ Stage = 9 /\ play.todo # <<>> /\ play.todo \in Seq(TaskSet) /\ Chained(play.todo)
      /\ play \in PlaySet
  BY StageOf DEF Ask, Types, PlaySet, Playing
<1>2. t \in AskSet /\ Rank(t) = 9
  <2>1. t \in TaskSet /\ t.task \in {"keyring", "class", "pool", "fs"}
    BY <1>1, TodoTail DEF Ask, InCeph, AtTask
  <2> QED
    BY <1>1, <2>1 DEF TaskSet, LaterSet, Stage
<1>3. c \in Seq(CommandTasks)
  BY <1>2, PlanTyped
<1> HIDE DEF c
<1>4. /\ c \in Seq(TaskSet)
      /\ \A i \in DOMAIN c : Rank(c[i]) = 9 /\ c[i].task \notin {"bootstrap", "first"}
  <2>1. CommandTasks \subseteq TaskSet
    BY DEF CommandTasks, TaskSet
  <2>2. \A x \in CommandTasks : Rank(x) = 9 /\ x.task \notin {"bootstrap", "first"}
    BY DEF CommandTasks, Rank
  <2>3. \A i \in DOMAIN c : c[i] \in CommandTasks
    BY <1>3
  <2> QED
    BY <1>3, <2>1, <2>2, <2>3, SeqMonotonic
<1>5. d \in Seq(TaskSet) /\ Chained(d)
  <2>1. \A i \in DOMAIN c : Rank(c[i]) = Rank(Head(play.todo))
    BY <1>2, <1>4
  <2>2. \A i \in DOMAIN c : i > 1 => c[i].task \notin {"bootstrap", "first"}
    BY <1>4
  <2> QED
    BY <1>1, <1>2, <1>4, <2>1, <2>2, Prepend
<1> DEFINE r == [play EXCEPT !.todo = d]
<1>6. play' = Over(r)
  BY DEF Ask, c
<1> HIDE DEF d
<1>7. /\ r \in PlaySet /\ Others(r, play) /\ r.todo = d /\ r.left = play.left
      /\ r.result = play.result
  BY <1>1, <1>5 DEF PlaySet, Others
<1> HIDE DEF r
<1>8. CASE d # <<>>
  BY <1>1, <1>2, <1>4, <1>5, <1>6, <1>7, <1>8 DEF Over, d, c
<1>9. CASE d = <<>>
  <2> DEFINE end == IF r.alive = Range(want.mons) THEN "ok" ELSE "failed"
  <2>1. Over(r) = [r EXCEPT !.result = end]
    BY <1>7, <1>9 DEF Over
  <2>2. end \in {"none", "running", "ok", "failed"}
    OBVIOUS
  <2> HIDE DEF end
  <2>3. /\ [r EXCEPT !.result = end] \in PlaySet /\ Others([r EXCEPT !.result = end], r)
        /\ [r EXCEPT !.result = end].todo = r.todo
        /\ [r EXCEPT !.result = end].left = r.left
        /\ [r EXCEPT !.result = end].result = end
    BY <1>7, <2>2 DEF PlaySet, Others
  <2>4. r.alive = play.alive
    BY <1>7 DEF Others
  <2> QED
    BY <1>1, <1>2, <1>4, <1>5, <1>6, <1>7, <1>9, <2>1, <2>3, <2>4 DEF Others, d, c, end
<1> QED
  BY <1>8, <1>9

LEMMA AskCluster ==
    ASSUME ClusterInv, Ask PROVE ClusterInv'
<1>1. Types /\ Playing /\ Quiet
  BY DEF ClusterInv, Ask, Quiet, history
<1>2. /\ Stage = 9 /\ play.todo # <<>>
      /\ play' \in PlaySet /\ Others(play', play) /\ play'.left = play.left
      /\ Chained(play'.todo)
      /\ play'.result = IF play'.todo # <<>> THEN play.result
                        ELSE IF play.alive = Range(want.mons) THEN "ok" ELSE "failed"
  BY <1>1, AskFacts
<1>3. Types'
  BY <1>1, <1>2 DEF Ask, Types, counts, history
<1>4. Playing'
  BY <1>1, <1>2 DEF Playing, Others, Quiet
<1>5. Stage' \in {0, 9} /\ (play'.todo # <<>> => Rank(Head(play'.todo)) = 9)
  <2>1. CASE play'.todo # <<>>
    <3>1. play.todo \in Seq(TaskSet) /\ Chained(play.todo) /\ Rank(Head(play.todo)) = 9
      BY <1>1, <1>2 DEF Types, PlaySet, Playing, Stage
    <3> DEFINE c == Plan(Head(play.todo))
    <3>2. c \in Seq(CommandTasks) /\ play'.todo = c \o Tail(play.todo)
          /\ \A i \in DOMAIN c : Rank(c[i]) = 9
      BY <1>1, AskFacts, PlanTyped
    <3> HIDE DEF c
    <3>3. Rank(Head(play'.todo)) = 9
      <4>1. CASE c = <<>>
        <5>1. play'.todo = Tail(play.todo)
          BY <3>1, <3>2, <4>1
        <5> QED
          BY <1>2, <2>1, <3>1, <5>1, Chain DEF After
      <4>2. CASE c # <<>>
        <5>1. Head(play'.todo) = c[1] /\ 1 \in DOMAIN c
          BY <3>1, <3>2, <4>2
        <5> QED
          BY <3>2, <5>1
      <4> QED
        BY <4>1, <4>2
    <3> QED
      BY <2>1, <3>3 DEF Stage
  <2>2. CASE play'.todo = <<>>
    BY <2>2 DEF Stage
  <2> QED
    BY <2>1, <2>2
<1>6. Follows({})
  <2>1. \A r \in 1 .. 8 : HaveDone(r)' \subseteq HaveDone(r)
    BY <1>2, <1>5 DEF HaveDone, Others
  <2>2. ~AtTask("bootstrap")' /\ ~AtTask("first")'
    <3>1. ASSUME play'.todo # <<>> PROVE Head(play'.todo).task \notin {"bootstrap", "first"}
      BY <1>5, <3>1 DEF Rank
    <3> QED
      BY <3>1 DEF AtTask
  <2>3. ~BeforeKeys' /\ ~Making'
    BY <1>2, <1>5, <2>2 DEF BeforeKeys, Making, Stage
  <2> QED
    BY <1>2, <2>1, <2>2, <2>3 DEF Follows
<1>7. ~BeforeKeys'
  BY <1>5 DEF BeforeKeys, Stage
<1> QED
  BY <1>1, <1>2, <1>3, <1>4, <1>6, <1>7, QuietStep DEF Others
(* What a command changes in what the cluster holds.                           *)
Changed(c) ==
    /\ Applied(c) \in CephSet
    /\ \A e \in Keyrings : Applied(c).caps[e] =
           IF c.op \in {"get_or_create", "caps"} /\ e = c.x THEN want.caps ELSE ceph.caps[e]
    /\ \A o \in Range(Osds) : Applied(c).class[o] =
           IF c.op = "rm_device_class" /\ o = c.x THEN "none"
           ELSE IF c.op = "set_device_class" /\ o = c.x THEN want.class ELSE ceph.class[o]
    /\ \A p \in Pools : Applied(c).pools[p] =
           IF c.op \in Settings /\ p = c.x THEN ceph.pools[p] \cup {c.op} ELSE ceph.pools[p]
    /\ Applied(c).fs <=> ceph.fs \/ c.op = "fs_new"

LEMMA AppliedMeans ==
    ASSUME Types, NEW c \in CommandSet PROVE Changed(c)
<1>1. ceph \in CephSet /\ want.caps \in Nat /\ want.class \in {"ssd", "nvme"}
  BY DEF Types
<1>2. CASE c \in [op : {"get_or_create", "caps"}, x : Keyrings]
  <2>1. Applied(c) = [ceph EXCEPT !.caps[c.x] = want.caps]
    BY <1>2 DEF Applied, Settings
  <2>2. c.op \notin Settings \cup {"rm_device_class", "set_device_class", "fs_new"}
    BY <1>2 DEF Settings
  <2> HIDE DEF Settings
  <2> QED
    BY <1>1, <1>2, <2>1, <2>2 DEF CephSet, Changed
<1>3. CASE c \in [op : {"rm_device_class", "set_device_class"}, x : Range(Osds)]
  <2> DEFINE k == IF c.op = "rm_device_class" THEN "none" ELSE want.class
  <2>1. Applied(c) = [ceph EXCEPT !.class[c.x] = k] /\ k \in {"none", "ssd", "nvme"}
    BY <1>1, <1>3 DEF Applied, Settings
  <2>2. c.op \notin Settings \cup {"get_or_create", "caps", "fs_new"}
    BY <1>3 DEF Settings
  <2>3. /\ c.op = "rm_device_class" => k = "none"
        /\ c.op # "rm_device_class" => k = want.class /\ c.op = "set_device_class"
    BY <1>3
  <2> HIDE DEF Settings, k
  <2> QED
    BY <1>1, <1>3, <2>1, <2>2, <2>3 DEF CephSet, Changed
<1>4. CASE c \in [op : PoolOps, x : Pools]
  <2>1. c.op \notin {"get_or_create", "caps", "rm_device_class", "set_device_class", "fs_new"}
    BY <1>4 DEF PoolOps, Settings
  <2>2. CASE c.op \in Settings
    <3>1. Applied(c) = [ceph EXCEPT !.pools[c.x] = @ \cup {c.op}]
      BY <2>2 DEF Applied, Settings
    <3>2. ceph.pools \in [Pools -> SUBSET Settings] /\ c.x \in Pools
      BY <1>1, <1>4 DEF CephSet
    <3>3. /\ Applied(c).caps = ceph.caps /\ Applied(c).class = ceph.class
          /\ Applied(c).fs = ceph.fs
          /\ Applied(c).pools = [ceph.pools EXCEPT ![c.x] = @ \cup {c.op}]
      BY <1>1, <3>1 DEF CephSet
    <3>4. [ceph.pools EXCEPT ![c.x] = @ \cup {c.op}] \in [Pools -> SUBSET Settings]
      BY <2>2, <3>2
    <3>5. Applied(c) \in CephSet
      BY <1>1, <3>1, <3>4 DEF CephSet
    <3>6. \A p \in Pools : Applied(c).pools[p] =
              IF p = c.x THEN ceph.pools[p] \cup {c.op} ELSE ceph.pools[p]
      BY <3>2, <3>3
    <3> HIDE DEF Settings
    <3> QED
      BY <2>1, <2>2, <3>3, <3>5, <3>6 DEF Changed
  <2>3. CASE c.op \notin Settings
    <3>1. Applied(c) = ceph
      BY <2>1, <2>3 DEF Applied
    <3> HIDE DEF Settings
    <3> QED
      BY <1>1, <1>4, <2>1, <2>3, <3>1 DEF CephSet, Changed
  <2> QED
    BY <2>2, <2>3
<1>5. CASE c \in [op : {"fs_new"}, x : {"cephfs"}]
  <2>1. Applied(c) = [ceph EXCEPT !.fs = TRUE]
    BY <1>5 DEF Applied, Settings
  <2>2. c.op \notin Settings \cup {"get_or_create", "caps", "rm_device_class", "set_device_class"}
    BY <1>5 DEF Settings
  <2> HIDE DEF Settings
  <2> QED
    BY <1>1, <1>5, <2>1, <2>2 DEF CephSet, Changed
<1> QED
  BY <1>2, <1>3, <1>4, <1>5 DEF CommandSet

LEMMA CommandFacts ==
    ASSUME Types, AtTask("command")
    PROVE  /\ Stage = 9 /\ play.todo # <<>> /\ Head(play.todo) \in CommandTasks
           /\ Head(play.todo).arg \in CommandSet /\ Applied(Head(play.todo).arg) \in CephSet
<1>1. Stage = 9 /\ play.todo # <<>>
  BY StageOf DEF InCeph, AtTask
<1>2. Head(play.todo) \in TaskSet /\ Head(play.todo).task = "command"
  BY <1>1, TodoTail DEF Types, PlaySet, AtTask
<1>3. Head(play.todo) \in CommandTasks /\ Head(play.todo).arg \in CommandSet
  BY <1>2 DEF TaskSet, LaterSet, AskSet, CommandTasks
<1> QED
  BY <1>1, <1>3, AppliedMeans DEF Changed

LEMMA CommandCluster ==
    ASSUME ClusterInv, Command PROVE ClusterInv'
<1>1. Types /\ Playing /\ Quiet /\ AtTask("command")
  BY DEF ClusterInv, Command, Quiet, history
<1>2. Stage = 9 /\ play.todo # <<>> /\ Applied(Head(play.todo).arg) \in CephSet
  BY <1>1, CommandFacts
<1>3. /\ plays' = plays /\ edits' = edits /\ faults' = faults
  BY DEF Command, counts
<1>4. CASE Refused(Head(play.todo).arg)
  <2>1. AllFail /\ ceph' = ceph
    BY <1>4 DEF Command
  <2>2. Types'
    BY <1>1, <1>3, <2>1, FailFacts DEF Types, Quiet
  <2> QED
    BY <1>1, <2>1, <2>2, FailStep
<1>5. CASE ~Refused(Head(play.todo).arg)
  <2>1. play' = Pass(play) /\ ceph' = Applied(Head(play.todo).arg)
    BY <1>5 DEF Command
  <2>2. Types'
    <3>1. play' \in PlaySet
      BY <1>1, <1>2, <2>1, PassFields DEF Types
    <3> QED
      BY <1>1, <1>2, <1>3, <2>1, <3>1 DEF Types, Quiet
  <2>3. play \in PlaySet /\ play.alive # {}
    BY <1>1, <1>2 DEF Types, Playing
  <2> QED
    BY <1>1, <1>2, <2>1, <2>2, <2>3, PassStep DEF Playing
<1> QED
  BY <1>4, <1>5

LEMMA FaultType ==
    ASSUME Types, Fault PROVE faults' \in 0 .. MaxFaults
<1>1. MaxFaults \in Nat
  BY DeployAssumption DEF DeployAssumption
<1> QED
  BY <1>1 DEF Fault, Types

LEMMA AnswerLostCluster ==
    ASSUME ClusterInv, AnswerLost PROVE ClusterInv'
<1>1. Types /\ Playing /\ Quiet /\ AtTask("command") /\ AllFail /\ faults' \in 0 .. MaxFaults
  BY FaultType DEF ClusterInv, AnswerLost, Quiet, Hurt
<1>2. Applied(Head(play.todo).arg) \in CephSet
  BY <1>1, CommandFacts
<1>3. Types'
  BY <1>1, <1>2, FailFacts DEF AnswerLost, Types, Quiet
<1> QED
  BY <1>1, <1>3, FailStep

LEMMA NoMonitorCluster ==
    ASSUME ClusterInv, NoMonitor PROVE ClusterInv'
<1>1. Types /\ Playing /\ Quiet /\ AllFail
  BY DEF ClusterInv, NoMonitor, Quiet, Hurt
<1>2. Types'
  BY <1>1, FailFacts DEF NoMonitor, Types, Quiet, counts
<1> QED
  BY <1>1, <1>2, FailStep

LEMMA TaskFailsCluster ==
    ASSUME ClusterInv, TaskFails PROVE ClusterInv'
<1>1. /\ Types /\ Playing /\ Quiet /\ play.todo # <<>>
      /\ ceph' = ceph /\ plays' = plays /\ edits' = edits /\ faults' \in 0 .. MaxFaults
  BY FaultType DEF ClusterInv, TaskFails, Quiet, Hurt
<1>2. play' \in PlaySet => Types'
  BY <1>1 DEF Types, Quiet
<1>3. CASE AllFail
  BY <1>1, <1>2, <1>3, FailFacts, FailStep DEF Quiet
<1>4. CASE /\ \E step \in {"volume", "write", "push", "up"} : At(step)
           /\ \E h \in play.left : HostFails(h)
  <2>1. PICK h \in play.left : HostFails(h)
    BY <1>4
  <2>2. ~AtTask("bootstrap") /\ Stage # 6
    BY <1>1, <1>4, StageOf
  <2>3. Types'
    BY <1>1, <1>2, <2>1, <2>2, HostFailFacts DEF Quiet
  <2> QED
    BY <1>1, <2>1, <2>2, <2>3, HostFailStep
<1>5. CASE /\ AtTask("bootstrap") \/ AtTask("first")
           /\ play.alive # {First} /\ play' = Pass([play EXCEPT !.alive = @ \ {First}])
  <2> DEFINE q == [play EXCEPT !.alive = @ \ {First}]
  <2>1. Stage = 4
    BY <1>1, <1>5, StageOf
  <2>2. /\ q \in PlaySet /\ q.todo = play.todo /\ q.result = play.result
        /\ q.alive = play.alive \ {First} /\ q.active = play.active /\ q.temp = play.temp
        /\ q.available = play.available /\ q.fresh = play.fresh /\ q.keys = play.keys
    BY <1>1 DEF Types, PlaySet
  <2>3. play' = Pass(q)
    BY <1>5
  <2> HIDE DEF q
  <2>4. q.alive # {}
    BY <1>1, <1>5, <2>2 DEF Playing
  <2>5. Types'
    BY <1>1, <1>2, <2>2, <2>3, PassFields DEF Types
  <2> QED
    BY <1>1, <2>1, <2>2, <2>3, <2>4, <2>5, PassStep DEF Playing
<1> QED
  BY <1>3, <1>4, <1>5 DEF TaskFails

LEMMA ClusterStep ==
    ASSUME ClusterInv, [Next]_vars PROVE ClusterInv'
<1>1. CASE Next
  BY <1>1, StartPlayCluster, CheckMonsCluster, GenerateCluster, BootstrapCluster,
     StartFirstCluster, RegisterCluster, FetchCluster, RefetchCluster, AskCluster, CommandCluster,
     NoMonitorCluster, TaskFailsCluster, AnswerLostCluster, EditCluster,
     CreateVolumeCluster, WriteTempCluster, PushCluster, BringUpCluster,
     PushBreaksCluster, MonStartsCluster, MonStopsCluster DEF Next
<1>2. CASE UNCHANGED vars
  <2>1. /\ want' = want /\ volume' = volume /\ pushed' = pushed /\ mon' = mon /\ made' = made
        /\ ceph' = ceph /\ play' = play /\ tainted' = tainted
        /\ plays' = plays /\ edits' = edits /\ faults' = faults
    BY <1>2 DEF vars, history, counts
  <2>2. Types' /\ Playing'
    BY <2>1 DEF ClusterInv, Types, Playing
  <2>3. /\ Stage' = Stage /\ (BeforeKeys' <=> BeforeKeys) /\ (Making' <=> Making)
        /\ (\A r : HaveDone(r)' = HaveDone(r)) /\ (\A g : Filled(g)' <=> Filled(g))
        /\ FilledHosts' = FilledHosts /\ First' = First
        /\ \A name : AtTask(name)' <=> AtTask(name)
    BY <2>1 DEF Stage, BeforeKeys, Making, HaveDone, Filled, FilledHosts, First, AtTask
  <2> HIDE DEF HaveDone, BeforeKeys, Making, Stage, Filled, FilledHosts, First, AtTask
  <2>4. Volumes'
    BY <2>1, <2>3 DEF ClusterInv, Volumes
  <2>5. ~tainted => Keys'
    BY <2>1, <2>3 DEF ClusterInv, Keys, Begun, Whole
  <2> QED
    BY <2>1, <2>2, <2>4, <2>5 DEF ClusterInv
<1> QED
  BY <1>1, <1>2

-----------------------------------------------------------------------------

(* The invariant of the cluster holds in every state of every execution, for   *)
(* any inventories, texts and numbers of plays, changes and failures.          *)
THEOREM ClusterInvariance == Spec => []ClusterInv
<1>1. Init => ClusterInv
  BY StartCluster
<1>2. ClusterInv /\ [Next]_vars => ClusterInv'
  BY ClusterStep
<1> QED
  BY <1>1, <1>2, PTL DEF Spec
(* The variables have their types and a host that has the task before it is    *)
(* in the play.                                                              *)
THEOREM TypeCorrect == Spec => []TypeOK
<1>1. ASSUME ClusterInv PROVE TypeOK
  <2>1. Types /\ Playing /\ Volumes
    BY <1>1 DEF ClusterInv
  <2>2. want.mons \in Inventories /\ want.caps \in 1 .. MaxEdits + 1
    <3>1. want.mons \in Inventories /\ want.caps \in 1 .. edits + 1 /\ edits \in 0 .. MaxEdits
      BY <2>1 DEF Types
    <3>2. MaxEdits \in Nat
      BY DeployAssumption DEF DeployAssumption
    <3> QED
      BY <3>1, <3>2
  <2>3. made \in 0 .. Len(want.mons)
    <3>1. /\ made \in Nat /\ made <= Cardinality(FilledHosts) /\ Cardinality(FilledHosts) \in Nat
          /\ Cardinality(FilledHosts) <= Len(want.mons) /\ Len(want.mons) \in Nat
      BY <2>1, FilledFinite DEF Types, Volumes
    <3> QED
      BY <3>1
  <2>4. \A h \in Hosts : /\ mon[h].state \in {"down", "starting", "up"}
                         /\ mon[h].key \in {0} \cup DOMAIN Text
    BY <2>1 DEF Types
  <2>5. ceph.pools \in [Pools -> SUBSET Settings] /\ ceph.fs \in BOOLEAN
    <3> HIDE DEF Settings
    <3> QED
      BY <2>1 DEF Types, CephSet
  <2>6. /\ play.left \subseteq play.alive /\ play.alive \subseteq Range(want.mons)
        /\ play.result = "running" <=> play.todo # <<>>
        /\ play.todo # <<>> => play.left # {}
    BY <2>1 DEF Playing
  <2>7. plays \in 0 .. MaxPlays /\ edits \in 0 .. MaxEdits /\ faults \in 0 .. MaxFaults
    BY <2>1 DEF Types
  <2> QED
    BY <2>2, <2>3, <2>4, <2>5, <2>6, <2>7 DEF TypeOK
<1> QED
  BY <1>1, ClusterInvariance, PTL

(* Whatever fails, in whatever order hosts are added: keys are made once, all  *)
(* monitors are made of the same keys, and those lie in the volume of each of  *)
(* them, unless keys were made where files of an older cluster lay, or while a  *)
(* host that had the volume was out of the play.                             *)
THEOREM ClusterIsOne == Spec => []OneCluster
<1>1. ASSUME ClusterInv PROVE OneCluster
  <2> SUFFICES ASSUME ~tainted
      PROVE  /\ made <= 1
             /\ \A a, b \in Hosts : mon[a].key # 0 /\ mon[b].key # 0 =>
                    mon[a].key = mon[b].key /\ Head(volume[b]) = mon[a].key
    BY DEF OneCluster
  <2>1. Types /\ Volumes /\ Keys
    BY <1>1 DEF ClusterInv
  <2>2. Len(Text[1]) \in Nat \ {0}
    BY <2>1, Texts
  <2>3. ASSUME NEW b \in Hosts, mon[b].key # 0 PROVE mon[b].key = 1 /\ Head(volume[b]) = 1
    <3>1. mon[b].key = 1 /\ Filled(b) /\ Begun(volume[b])
      BY <2>1, <2>3 DEF Keys
    <3>2. volume[b] \in Seq(Nat) /\ volume[b] # <<>>
      BY <2>1, <3>1 DEF Types, Filled
    <3>3. 1 \in DOMAIN volume[b] /\ Head(volume[b]) = volume[b][1]
      BY <3>2
    <3> QED
      BY <2>2, <3>1, <3>3 DEF Begun
  <2> QED
    BY <2>1, <2>3 DEF Keys
<1> QED
  BY <1>1, ClusterInvariance, PTL

-----------------------------------------------------------------------------
(***************************************************************************)
(* What a deploy that ends well leaves in ceph, for any keyrings, osds and     *)
(* pools, whatever failed before: the commands a play has still to send are an *)
(* account of what ceph lacks.                                              *)
(***************************************************************************)

IsCommand(t) == t.task = "command"
LastOps == {"get_or_create", "caps", "set_device_class", "unset_limit", "fs_new"}

(* Commands come first, are about one thing, and some end what there is to do   *)
(* to it.                                                                    *)
OneBlock(s) ==
    \A i, j \in 1 .. Len(s) : i < j /\ IsCommand(s[j]) =>
        IsCommand(s[i]) /\ s[i].arg.x = s[j].arg.x /\ s[i].arg.op \notin LastOps

(* A class that is removed is set next, and none is set without.               *)
Removed(s) ==
    \A i \in 1 .. Len(s) : IsCommand(s[i]) /\ s[i].arg.op = "rm_device_class" =>
        i < Len(s) /\ s[i + 1] = Cmd("set_device_class", s[i].arg.x)
SetAfter(s) ==
    \A i \in 2 .. Len(s) : IsCommand(s[i]) /\ s[i].arg.op = "set_device_class" =>
        s[i - 1] = Cmd("rm_device_class", s[i].arg.x)

(* A pool that is created is given all that was asked.                         *)
Completed(s) ==
    \A i \in 1 .. Len(s) : IsCommand(s[i]) /\ s[i].arg.op = "created" =>
        \A o \in Asked(s[i].arg.x) \ {"created"} :
            \E j \in 1 .. Len(s) : j > i /\ s[j] = Cmd(o, s[i].arg.x)

Ordered(s) == OneBlock(s) /\ Removed(s) /\ SetAfter(s) /\ Completed(s)

InTodo(t) == Among(t, play.todo)

Classes ==
    /\ \A o \in Range(Osds) \ hurt : ceph.class[o] = "none" =>
           play.todo # <<>> /\ Head(play.todo) = Cmd("set_device_class", o)
    /\ AtTask("command") /\ Head(play.todo).arg.op = "set_device_class" =>
           ceph.class[Head(play.todo).arg.x] = "none"

PoolsWhole ==
    \A p \in Pools \ hurt : "created" \in ceph.pools[p] =>
        \A o \in Asked(p) : o \in ceph.pools[p] \/ InTodo(Cmd(o, p))

(* What a play that has not failed has not achieved is still to be done.       *)
KeyringLeft(e) == \/ ceph.caps[e] = want.caps \/ InTodo(Task("keyring", e))
                  \/ InTodo(Cmd("get_or_create", e)) \/ InTodo(Cmd("caps", e))
ClassLeft(o) == \/ ceph.class[o] = want.class \/ InTodo(Task("class", o))
                \/ InTodo(Cmd("set_device_class", o))
PoolLeft(p) == \/ "created" \in ceph.pools[p] \/ InTodo(Task("pool", p))
               \/ InTodo(Cmd("created", p))
FsLeft == ceph.fs \/ InTodo(Task("fs", "cephfs")) \/ InTodo(Cmd("fs_new", "cephfs"))
KeysLeft == InTodo(Task("fs", "cephfs")) \/ \E a \in Range(want.mons) : mon[a].key # 0

Remaining ==
    play.result \in {"running", "ok"} =>
        /\ \A e \in Keyrings : KeyringLeft(e)
        /\ \A o \in Range(Osds) : ClassLeft(o)
        /\ \A p \in Pools : Pool[p].rule \/ Pool[p].erasure => PoolLeft(p)
        /\ FsLeft /\ KeysLeft

CommandsInv == Ordered(play.todo) /\ Classes /\ PoolsWhole /\ Remaining
DeployInv == ClusterInv /\ CommandsInv
-----------------------------------------------------------------------------
(* Sequences of tasks.                                                       *)

Quietened(s) == \A i \in 1 .. Len(s) : ~IsCommand(s[i])

LEMMA NoCommands ==
    ASSUME NEW s \in Seq(TaskSet), Ordered(s), s = <<>> \/ ~IsCommand(Head(s))
    PROVE  Quietened(s)
<1> SUFFICES ASSUME NEW i \in 1 .. Len(s), IsCommand(s[i]) PROVE FALSE
  BY DEF Quietened
<1>1. Len(s) \in Nat /\ s # <<>> /\ Head(s) = s[1] /\ 1 \in 1 .. Len(s)
  OBVIOUS
<1>2. i # 1
  BY <1>1
<1>3. 1 < i
  BY <1>2
<1> QED
  BY <1>1, <1>3 DEF Ordered, OneBlock

LEMMA QuietOrdered ==
    ASSUME NEW s \in Seq(TaskSet), Quietened(s) PROVE Ordered(s)
<1>1. OneBlock(s)
  BY DEF Quietened, OneBlock
<1>2. Removed(s)
  BY DEF Quietened, Removed
<1>3. SetAfter(s)
  <2>1. \A i \in 2 .. Len(s) : i \in 1 .. Len(s)
    OBVIOUS
  <2> QED
    BY <2>1 DEF Quietened, SetAfter
<1>4. Completed(s)
  BY DEF Quietened, Completed
<1> QED
  BY <1>1, <1>2, <1>3, <1>4 DEF Ordered

LEMMA OrderedTail ==
    ASSUME NEW s \in Seq(TaskSet), s # <<>>, Ordered(s)
    PROVE  Ordered(Tail(s))
<1> DEFINE u == Tail(s)
<1>1. /\ u \in Seq(TaskSet) /\ Len(u) = Len(s) - 1 /\ Len(s) \in Nat \ {0}
      /\ \A i \in 1 .. Len(u) : i + 1 \in 1 .. Len(s) /\ u[i] = s[i + 1]
  OBVIOUS
<1> HIDE DEF u
<1>2. OneBlock(s) /\ Removed(s) /\ SetAfter(s) /\ Completed(s)
  BY DEF Ordered
<1>3. OneBlock(u)
  <2> SUFFICES ASSUME NEW i \in 1 .. Len(u), NEW j \in 1 .. Len(u), i < j, IsCommand(u[j])
      PROVE  IsCommand(u[i]) /\ u[i].arg.x = u[j].arg.x /\ u[i].arg.op \notin LastOps
    BY DEF OneBlock
  <2>1. /\ i + 1 \in 1 .. Len(s) /\ j + 1 \in 1 .. Len(s) /\ i + 1 < j + 1
        /\ u[i] = s[i + 1] /\ u[j] = s[j + 1]
    BY <1>1
  <2> QED
    BY <1>2, <2>1 DEF OneBlock
<1>4. Removed(u)
  <2> SUFFICES ASSUME NEW i \in 1 .. Len(u), IsCommand(u[i]), u[i].arg.op = "rm_device_class"
      PROVE  i < Len(u) /\ u[i + 1] = Cmd("set_device_class", u[i].arg.x)
    BY DEF Removed
  <2>1. i + 1 \in 1 .. Len(s) /\ u[i] = s[i + 1]
    BY <1>1
  <2>2. i + 1 < Len(s) /\ s[i + 1 + 1] = Cmd("set_device_class", u[i].arg.x)
    BY <1>2, <2>1 DEF Removed
  <2>3. i < Len(u) /\ i + 1 \in 1 .. Len(u)
    BY <1>1, <2>2
  <2>4. u[i + 1] = s[i + 1 + 1]
    BY <1>1, <2>3
  <2> QED
    BY <2>2, <2>3, <2>4
<1>5. SetAfter(u)
  <2> SUFFICES ASSUME NEW i \in 2 .. Len(u), IsCommand(u[i]), u[i].arg.op = "set_device_class"
      PROVE  u[i - 1] = Cmd("rm_device_class", u[i].arg.x)
    BY DEF SetAfter
  <2>0. i \in 1 .. Len(u) /\ i \in Int
    BY <1>1
  <2>1. /\ i + 1 \in 2 .. Len(s) /\ u[i] = s[i + 1] /\ i - 1 \in 1 .. Len(u)
        /\ (i + 1) - 1 = i /\ (i - 1) + 1 = i
    BY <1>1, <2>0
  <2>2. s[i] = Cmd("rm_device_class", u[i].arg.x)
    BY <1>2, <2>1 DEF SetAfter
  <2>3. u[i - 1] = s[i]
    BY <1>1, <2>1
  <2> QED
    BY <2>2, <2>3
<1>6. Completed(u)
  <2> SUFFICES ASSUME NEW i \in 1 .. Len(u), IsCommand(u[i]), u[i].arg.op = "created",
                      NEW o \in Asked(u[i].arg.x) \ {"created"}
      PROVE  \E j \in 1 .. Len(u) : j > i /\ u[j] = Cmd(o, u[i].arg.x)
    BY DEF Completed
  <2>1. i + 1 \in 1 .. Len(s) /\ u[i] = s[i + 1]
    BY <1>1
  <2>2. PICK j \in 1 .. Len(s) : j > i + 1 /\ s[j] = Cmd(o, u[i].arg.x)
    BY <1>2, <2>1 DEF Completed
  <2>3. j - 1 \in 1 .. Len(u) /\ j - 1 > i /\ j - 1 + 1 = j
    BY <1>1, <2>2
  <2>4. u[j - 1] = s[j]
    BY <1>1, <2>3
  <2> QED
    BY <2>2, <2>3, <2>4
<1> QED
  BY <1>3, <1>4, <1>5, <1>6 DEF Ordered, u

(* Commands before a sequence without any.                                     *)
LEMMA OrderedBefore ==
    ASSUME NEW c \in Seq(CommandTasks), NEW u \in Seq(TaskSet), Ordered(c), Quietened(u)
    PROVE  Ordered(c \o u)
<1> DEFINE s == c \o u
<1>1. /\ Len(c) \in Nat /\ Len(u) \in Nat /\ Len(s) = Len(c) + Len(u)
      /\ \A i \in 1 .. Len(c) : s[i] = c[i] /\ i \in 1 .. Len(s)
      /\ \A i \in 1 .. Len(u) : s[Len(c) + i] = u[i]
  OBVIOUS
<1> HIDE DEF s
<1>2. ASSUME NEW i \in 1 .. Len(s), IsCommand(s[i]) PROVE i \in 1 .. Len(c)
  <2> SUFFICES ASSUME i > Len(c) PROVE FALSE
    BY <1>1
  <2>1. i - Len(c) \in 1 .. Len(u) /\ Len(c) + (i - Len(c)) = i
    BY <1>1
  <2>2. s[i] = u[i - Len(c)]
    BY <1>1, <2>1
  <2> QED
    BY <1>2, <2>1, <2>2 DEF Quietened
<1>3. \A i \in 1 .. Len(c) : IsCommand(c[i])
  <2>1. \A i \in 1 .. Len(c) : c[i] \in CommandTasks
    OBVIOUS
  <2>2. \A t \in CommandTasks : IsCommand(t)
    BY DEF CommandTasks, IsCommand
  <2> QED
    BY <2>1, <2>2
<1>4. OneBlock(c) /\ Removed(c) /\ SetAfter(c) /\ Completed(c)
  BY DEF Ordered
<1>5. OneBlock(s)
  <2> SUFFICES ASSUME NEW i \in 1 .. Len(s), NEW j \in 1 .. Len(s), i < j, IsCommand(s[j])
      PROVE  IsCommand(s[i]) /\ s[i].arg.x = s[j].arg.x /\ s[i].arg.op \notin LastOps
    BY DEF OneBlock
  <2>1. j \in 1 .. Len(c)
    BY <1>2
  <2>2. i \in 1 .. Len(c)
    BY <1>1, <2>1
  <2>3. s[i] = c[i] /\ s[j] = c[j]
    BY <1>1, <2>1, <2>2
  <2> QED
    BY <1>3, <1>4, <2>1, <2>2, <2>3 DEF OneBlock
<1>6. Removed(s)
  <2> SUFFICES ASSUME NEW i \in 1 .. Len(s), IsCommand(s[i]), s[i].arg.op = "rm_device_class"
      PROVE  i < Len(s) /\ s[i + 1] = Cmd("set_device_class", s[i].arg.x)
    BY DEF Removed
  <2>1. i \in 1 .. Len(c) /\ s[i] = c[i]
    BY <1>1, <1>2
  <2>2. i < Len(c) /\ c[i + 1] = Cmd("set_device_class", s[i].arg.x)
    BY <1>3, <1>4, <2>1 DEF Removed
  <2>3. i + 1 \in 1 .. Len(c)
    BY <1>1, <2>2
  <2> QED
    BY <1>1, <2>2, <2>3
<1>7. SetAfter(s)
  <2> SUFFICES ASSUME NEW i \in 2 .. Len(s), IsCommand(s[i]), s[i].arg.op = "set_device_class"
      PROVE  s[i - 1] = Cmd("rm_device_class", s[i].arg.x)
    BY DEF SetAfter
  <2>1. i \in 1 .. Len(s)
    BY <1>1
  <2>2. i \in 2 .. Len(c) /\ i - 1 \in 1 .. Len(c)
    BY <1>1, <1>2, <2>1
  <2>3. s[i] = c[i] /\ s[i - 1] = c[i - 1]
    BY <1>1, <2>2
  <2> QED
    BY <1>4, <2>2, <2>3 DEF SetAfter
<1>8. Completed(s)
  <2> SUFFICES ASSUME NEW i \in 1 .. Len(s), IsCommand(s[i]), s[i].arg.op = "created",
                      NEW o \in Asked(s[i].arg.x) \ {"created"}
      PROVE  \E j \in 1 .. Len(s) : j > i /\ s[j] = Cmd(o, s[i].arg.x)
    BY DEF Completed
  <2>1. i \in 1 .. Len(c) /\ s[i] = c[i]
    BY <1>1, <1>2
  <2>2. PICK j \in 1 .. Len(c) : j > i /\ c[j] = Cmd(o, s[i].arg.x)
    BY <1>4, <2>1 DEF Completed
  <2> QED
    BY <1>1, <2>2
<1> QED
  BY <1>5, <1>6, <1>7, <1>8 DEF Ordered, s
-----------------------------------------------------------------------------
(* What a module plans.                                                      *)

LEMMA CommandFields ==
    \A op, x : Cmd(op, x).task = "command" /\ Cmd(op, x).arg.op = op /\ Cmd(op, x).arg.x = x
BY DEF Cmd

LEMMA OneOrdered ==
    ASSUME NEW op, NEW x, op \notin {"rm_device_class", "created"}
    PROVE  Ordered(<<Cmd(op, x)>>) /\ Among(Cmd(op, x), <<Cmd(op, x)>>)
<1> DEFINE s == <<Cmd(op, x)>>
<1>1. Len(s) = 1 /\ s[1].arg.op = op /\ 1 \in DOMAIN s /\ s[1] = Cmd(op, x)
  BY CommandFields
<1> HIDE DEF s
<1>2. OneBlock(s)
  BY <1>1 DEF OneBlock
<1>3. Removed(s) /\ SetAfter(s) /\ Completed(s)
  BY <1>1 DEF Removed, SetAfter, Completed
<1> QED
  BY <1>1, <1>2, <1>3 DEF Ordered, Among, s

LEMMA EmptyOrdered == Ordered(<<>>) /\ Quietened(<<>>)
<1>1. <<>> \in Seq(TaskSet) /\ Len(<<>>) = 0
  OBVIOUS
<1>2. Quietened(<<>>)
  BY <1>1 DEF Quietened
<1> QED
  BY <1>1, <1>2, QuietOrdered

LEMMA ClassOrdered ==
    ASSUME NEW o
    PROVE  LET s == Cmds(<<"rm_device_class", "set_device_class">>, o)
           IN /\ Ordered(s) /\ s[1].arg.op = "rm_device_class"
              /\ Among(Cmd("set_device_class", o), s)
<1> DEFINE s == Cmds(<<"rm_device_class", "set_device_class">>, o)
<1>1. /\ Len(s) = 2 /\ s[1] = Cmd("rm_device_class", o) /\ s[2] = Cmd("set_device_class", o)
      /\ DOMAIN s = 1 .. 2
  <2>1. s = [i \in 1 .. 2 |-> Cmd(<<"rm_device_class", "set_device_class">>[i], o)]
    BY DEF Cmds
  <2>2. s \in Seq(Range(s)) /\ Len(s) = 2
    BY <2>1 DEF Range
  <2> QED
    BY <2>1, <2>2
<1> HIDE DEF s
<1>2. s[1].task = "command" /\ s[1].arg.op = "rm_device_class" /\ s[1].arg.x = o
  BY <1>1, CommandFields
<1>3. s[2].task = "command" /\ s[2].arg.op = "set_device_class" /\ s[2].arg.x = o
  BY <1>1, CommandFields
<1>4. OneBlock(s)
  BY <1>1, <1>2, <1>3 DEF OneBlock, IsCommand, LastOps
<1>5. Removed(s)
  BY <1>1, <1>2, <1>3 DEF Removed
<1>6. SetAfter(s)
  BY <1>1, <1>2, <1>3 DEF SetAfter
<1>7. Completed(s)
  BY <1>1, <1>2, <1>3 DEF Completed
<1> QED
  BY <1>1, <1>2, <1>4, <1>5, <1>6, <1>7 DEF Ordered, Among, s

(* Operations on a pool, of which unset_limit is the last, and those that were  *)
(* asked come after the second, which creates it.                             *)
LEMMA PoolOrdered ==
    ASSUME NEW p, NEW s, NEW ops, Len(s) = Len(ops), Len(ops) \in Nat, Len(ops) >= 3,
           \A i \in 1 .. Len(ops) : s[i] = Cmd(ops[i], p),
           \A i \in 1 .. Len(ops) : ops[i] \in PoolOps /\ (ops[i] = "created" <=> i = 2),
           \A i \in 1 .. Len(ops) - 1 : ops[i] # "unset_limit",
           \A o \in Asked(p) \ {"created"} : \E j \in 3 .. Len(ops) : ops[j] = o
    PROVE  Ordered(s) /\ s[1].arg.op # "set_device_class" /\ s[2] = Cmd("created", p)
<1>1. \A i \in 1 .. Len(s) : /\ s[i].task = "command" /\ s[i].arg.op = ops[i] /\ s[i].arg.x = p
  BY CommandFields
<1>2. /\ \A o \in PoolOps : o \notin {"rm_device_class", "set_device_class"}
      /\ \A o \in PoolOps \ {"unset_limit"} : o \notin LastOps
  BY DEF PoolOps, Settings, LastOps
<1>3. OneBlock(s)
  <2> SUFFICES ASSUME NEW i \in 1 .. Len(s), NEW j \in 1 .. Len(s), i < j
      PROVE  IsCommand(s[i]) /\ s[i].arg.x = s[j].arg.x /\ s[i].arg.op \notin LastOps
    BY DEF OneBlock
  <2>1. i \in 1 .. Len(ops) - 1
    OBVIOUS
  <2> QED
    BY <1>1, <1>2, <2>1 DEF IsCommand
<1>4. Removed(s)
  BY <1>1, <1>2 DEF Removed
<1>5. SetAfter(s)
  <2>1. \A i \in 2 .. Len(s) : i \in 1 .. Len(s)
    OBVIOUS
  <2> QED
    BY <1>1, <1>2, <2>1 DEF SetAfter
<1>6. Completed(s)
  <2> SUFFICES ASSUME NEW i \in 1 .. Len(s), s[i].arg.op = "created",
                      NEW o \in Asked(s[i].arg.x) \ {"created"}
      PROVE  \E j \in 1 .. Len(s) : j > i /\ s[j] = Cmd(o, s[i].arg.x)
    BY DEF Completed
  <2>1. i = 2 /\ s[i].arg.x = p
    BY <1>1
  <2>2. PICK j \in 3 .. Len(ops) : ops[j] = o
    BY <2>1
  <2> QED
    BY <2>1, <2>2
<1>7. ops[2] = "created" /\ ops[1] \in PoolOps
  OBVIOUS
<1> QED
  BY <1>1, <1>2, <1>3, <1>4, <1>5, <1>6, <1>7 DEF Ordered
LEMMA Joined ==
    ASSUME NEW S, NEW m \in Seq(S), NEW k \in Seq(S)
    PROVE  /\ Len(m \o k) = Len(m) + Len(k) /\ Len(m) \in Nat /\ Len(k) \in Nat
           /\ \A i \in 1 .. Len(m) : (m \o k)[i] = m[i]
           /\ \A i \in 1 .. Len(k) : (m \o k)[Len(m) + i] = k[i]
OBVIOUS

LEMMA PoolTexts ==
    ASSUME NEW p \in Pools
    PROVE  LET m == MakeOps(p)
               k == CacheOps(p)
               ops == m \o k
               s == Cmds(m, p) \o Cmds(k, p)
           IN /\ m \in Seq(PoolOps) /\ k \in Seq(PoolOps) /\ ops \in Seq(PoolOps)
              /\ s \in Seq(CommandTasks)
              /\ Len(s) = Len(ops) /\ \A i \in 1 .. Len(ops) : s[i] = Cmd(ops[i], p)
<1> DEFINE m == MakeOps(p)
           k == CacheOps(p)
           a == Cmds(m, p)
           b == Cmds(k, p)
           s == a \o b
           ops == m \o k
<1>1. m \in Seq(PoolOps) /\ k \in Seq(PoolOps)
  <2>1. /\ <<"profile", "created", "app", "overwrites">> \in Seq(PoolOps)
        /\ <<"rule", "created", "app">> \in Seq(PoolOps)
        /\ <<"rule", "cache", "tier", "mode", "overlay", "unset_limit">> \in Seq(PoolOps)
        /\ <<>> \in Seq(PoolOps)
    BY DEF PoolOps, Settings
  <2> QED
    BY <2>1 DEF MakeOps, CacheOps
<1> HIDE DEF m, k
<1>2. \A o \in PoolOps : [op |-> o, x |-> p] \in CommandSet
  BY DEF CommandSet
<1>3. /\ \A i \in DOMAIN m : [op |-> m[i], x |-> p] \in CommandSet
      /\ \A i \in DOMAIN k : [op |-> k[i], x |-> p] \in CommandSet
  BY <1>1, <1>2
<1>4. /\ a \in Seq(CommandTasks) /\ Len(a) = Len(m)
      /\ \A i \in 1 .. Len(m) : a[i] = Cmd(m[i], p)
  BY <1>1, <1>3, CommandsTyped
<1>5. /\ b \in Seq(CommandTasks) /\ Len(b) = Len(k)
      /\ \A i \in 1 .. Len(k) : b[i] = Cmd(k[i], p)
  BY <1>1, <1>3, CommandsTyped
<1> HIDE DEF a, b
<1>6. /\ Len(ops) = Len(m) + Len(k) /\ Len(m) \in Nat /\ Len(k) \in Nat
      /\ \A i \in 1 .. Len(m) : ops[i] = m[i]
      /\ \A i \in 1 .. Len(k) : ops[Len(m) + i] = k[i]
  BY <1>1, Joined
<1>7. /\ Len(s) = Len(m) + Len(k)
      /\ \A i \in 1 .. Len(m) : s[i] = a[i]
      /\ \A i \in 1 .. Len(k) : s[Len(m) + i] = b[i]
  <2>1. /\ Len(s) = Len(a) + Len(b)
        /\ \A i \in 1 .. Len(a) : s[i] = a[i]
        /\ \A i \in 1 .. Len(b) : s[Len(a) + i] = b[i]
    <3>1. a \in Seq(CommandTasks) /\ b \in Seq(CommandTasks)
      BY <1>4, <1>5
    <3> HIDE DEF s
    <3>2. Len(a \o b) = Len(a) + Len(b)
      BY <3>1
    <3>3. \A i \in 1 .. Len(a) : (a \o b)[i] = a[i]
      BY <3>1
    <3>4. \A i \in 1 .. Len(b) : (a \o b)[Len(a) + i] = b[i]
      BY <3>1
    <3> QED
      BY <3>2, <3>3, <3>4 DEF s
  <2> HIDE DEF s
  <2> QED
    BY <1>4, <1>5, <2>1
<1>8. s \in Seq(CommandTasks) /\ ops \in Seq(PoolOps)
  BY <1>1, <1>4, <1>5
<1> HIDE DEF s, ops
<1>9. ASSUME NEW i \in 1 .. Len(ops) PROVE s[i] = Cmd(ops[i], p)
  <2>1. ASSUME i <= Len(m) PROVE s[i] = Cmd(ops[i], p)
    <3>1. i \in 1 .. Len(m)
      BY <1>6, <2>1
    <3> QED
      BY <1>4, <1>6, <1>7, <3>1
  <2>2. ASSUME i > Len(m) PROVE s[i] = Cmd(ops[i], p)
    <3>1. i - Len(m) \in 1 .. Len(k) /\ Len(m) + (i - Len(m)) = i
      BY <1>6, <2>2
    <3>2. s[i] = b[i - Len(m)] /\ ops[i] = k[i - Len(m)]
      BY <1>6, <1>7, <3>1
    <3> QED
      BY <1>5, <3>1, <3>2
  <2>3. i <= Len(m) \/ i > Len(m)
    BY <1>6
  <2> QED
    BY <2>1, <2>2, <2>3
<1> QED
  BY <1>1, <1>6, <1>7, <1>8, <1>9 DEF s, ops, a, b, m, k
LEMMA OpsPlanned ==
    ASSUME NEW p \in Pools
    PROVE  LET ops == MakeOps(p) \o CacheOps(p)
           IN /\ Len(ops) \in Nat /\ Len(ops) >= 3
              /\ \A i \in 1 .. Len(ops) : ops[i] = "created" <=> i = 2
              /\ \A i \in 1 .. Len(ops) - 1 : ops[i] # "unset_limit"
              /\ \A o \in Asked(p) \ {"created"} : \E j \in 3 .. Len(ops) : ops[j] = o
<1> DEFINE m == MakeOps(p)
           k == CacheOps(p)
           ops == m \o k
           needs == {"app"} \cup (IF Pool[p].erasure THEN {"overwrites"} ELSE {})
           fast == IF Pool[p].cache /\ Pool[p].cacheRule
                   THEN {"cache", "tier", "mode", "overlay"} ELSE {}
<1>1. m \in Seq(PoolOps) /\ k \in Seq(PoolOps)
  BY PoolTexts
<1>2. /\ Len(m) >= 3
      /\ \A i \in 1 .. Len(m) : (m[i] = "created" <=> i = 2) /\ m[i] # "unset_limit"
      /\ \A o \in needs : \E j \in 3 .. Len(m) : m[j] = o
  <2>1. CASE Pool[p].erasure
    <3>1. m = <<"profile", "created", "app", "overwrites">>
      BY <2>1 DEF MakeOps
    <3> HIDE DEF m
    <3>2. Len(m) = 4 /\ m[1] = "profile" /\ m[2] = "created" /\ m[3] = "app"
          /\ m[4] = "overwrites"
      BY <3>1
    <3>3. needs = {"app", "overwrites"}
      BY <2>1
    <3> HIDE DEF needs
    <3>4. \A o \in needs : \E j \in 3 .. Len(m) : m[j] = o
      BY <3>2, <3>3
    <3>5. \A i \in 1 .. Len(m) : (m[i] = "created" <=> i = 2) /\ m[i] # "unset_limit"
      BY <3>2
    <3> QED
      BY <3>2, <3>4, <3>5 DEF m, needs
  <2>2. CASE ~Pool[p].erasure
    <3>1. m = <<"rule", "created", "app">>
      BY <2>2 DEF MakeOps
    <3> HIDE DEF m
    <3>2. Len(m) = 3 /\ m[1] = "rule" /\ m[2] = "created" /\ m[3] = "app"
      BY <3>1
    <3>3. needs = {"app"}
      BY <2>2
    <3> HIDE DEF needs
    <3>4. \A o \in needs : \E j \in 3 .. Len(m) : m[j] = o
      BY <3>2, <3>3
    <3>5. \A i \in 1 .. Len(m) : (m[i] = "created" <=> i = 2) /\ m[i] # "unset_limit"
      BY <3>2
    <3> QED
      BY <3>2, <3>4, <3>5 DEF m, needs
  <2> QED
    BY <2>1, <2>2
<1>3. /\ \A i \in 1 .. Len(k) : k[i] # "created" /\ (k[i] = "unset_limit" => i = Len(k))
      /\ \A o \in fast : \E j \in 1 .. Len(k) : k[j] = o
  <2>1. CASE Pool[p].cache /\ Pool[p].cacheRule
    <3>1. k = <<"rule", "cache", "tier", "mode", "overlay", "unset_limit">>
      BY <2>1 DEF CacheOps
    <3> HIDE DEF k
    <3>2. /\ Len(k) = 6 /\ k[1] = "rule" /\ k[2] = "cache" /\ k[3] = "tier"
          /\ k[4] = "mode" /\ k[5] = "overlay" /\ k[6] = "unset_limit"
      BY <3>1
    <3>3. fast = {"cache", "tier", "mode", "overlay"}
      BY <2>1
    <3> HIDE DEF fast
    <3>4. \A o \in fast : \E j \in 1 .. Len(k) : k[j] = o
      BY <3>2, <3>3
    <3>5. \A i \in 1 .. Len(k) : k[i] # "created" /\ (k[i] = "unset_limit" => i = Len(k))
      BY <3>2
    <3> QED
      BY <3>2, <3>4, <3>5 DEF k, fast
  <2>2. CASE ~(Pool[p].cache /\ Pool[p].cacheRule)
    <3>1. k = <<>>
      BY <2>2 DEF CacheOps
    <3> HIDE DEF k
    <3>2. Len(k) = 0 /\ fast = {}
      BY <2>2, <3>1
    <3> HIDE DEF fast
    <3>3. /\ \A i \in 1 .. Len(k) : k[i] # "created" /\ (k[i] = "unset_limit" => i = Len(k))
          /\ \A o \in fast : \E j \in 1 .. Len(k) : k[j] = o
      BY <3>2
    <3> QED
      BY <3>3 DEF k, fast
  <2> QED
    BY <2>1, <2>2
<1>4. Asked(p) \ {"created"} \subseteq needs \cup fast
  BY DEF Asked
<1> HIDE DEF m, k, needs, fast
<1>5. /\ Len(ops) = Len(m) + Len(k) /\ Len(m) \in Nat /\ Len(k) \in Nat
      /\ \A i \in 1 .. Len(m) : ops[i] = m[i]
      /\ \A i \in 1 .. Len(k) : ops[Len(m) + i] = k[i]
  BY <1>1, Joined
<1> HIDE DEF ops
<1>6. \A i \in 1 .. Len(ops) : i > Len(m) =>
          i - Len(m) \in 1 .. Len(k) /\ ops[i] = k[i - Len(m)]
  <2> SUFFICES ASSUME NEW i \in 1 .. Len(ops), i > Len(m)
      PROVE  i - Len(m) \in 1 .. Len(k) /\ ops[i] = k[i - Len(m)]
    OBVIOUS
  <2>1. i - Len(m) \in 1 .. Len(k) /\ Len(m) + (i - Len(m)) = i
    BY <1>5
  <2> QED
    BY <1>5, <2>1
<1>7. \A i \in 1 .. Len(ops) : ops[i] = "created" <=> i = 2
  <2> SUFFICES ASSUME NEW i \in 1 .. Len(ops) PROVE ops[i] = "created" <=> i = 2
    OBVIOUS
  <2>1. i > Len(m) => ops[i] # "created" /\ i # 2
    BY <1>2, <1>3, <1>5, <1>6
  <2>2. ~(i > Len(m)) => i \in 1 .. Len(m) /\ ops[i] = m[i]
    BY <1>5
  <2> QED
    BY <1>2, <2>1, <2>2
<1>8. \A i \in 1 .. Len(ops) - 1 : ops[i] # "unset_limit"
  <2> SUFFICES ASSUME NEW i \in 1 .. Len(ops) - 1 PROVE ops[i] # "unset_limit"
    OBVIOUS
  <2>1. i \in 1 .. Len(ops) /\ i # Len(m) + Len(k)
    BY <1>5
  <2>2. i > Len(m) => ops[i] # "unset_limit"
    BY <1>3, <1>5, <1>6, <2>1
  <2>3. ~(i > Len(m)) => i \in 1 .. Len(m) /\ ops[i] = m[i]
    BY <1>5
  <2> QED
    BY <1>2, <2>2, <2>3
<1>9. ASSUME NEW o \in Asked(p) \ {"created"} PROVE \E j \in 3 .. Len(ops) : ops[j] = o
  <2>1. ASSUME o \in needs PROVE \E j \in 3 .. Len(ops) : ops[j] = o
    <3>1. PICK j \in 3 .. Len(m) : m[j] = o
      BY <1>2, <2>1
    <3>2. j \in 3 .. Len(ops) /\ j \in 1 .. Len(m)
      BY <1>5
    <3> QED
      BY <1>5, <3>1, <3>2
  <2>2. ASSUME o \in fast PROVE \E j \in 3 .. Len(ops) : ops[j] = o
    <3>1. PICK j \in 1 .. Len(k) : k[j] = o
      BY <1>3, <2>2
    <3>2. Len(m) + j \in 3 .. Len(ops) /\ ops[Len(m) + j] = o
      BY <1>2, <1>5, <3>1
    <3> QED
      BY <3>2
  <2> QED
    BY <1>4, <2>1, <2>2
<1>10. Len(ops) \in Nat /\ Len(ops) >= 3
  BY <1>2, <1>5
<1> QED
  BY <1>7, <1>8, <1>9, <1>10 DEF ops, m, k

LEMMA PoolMeans ==
    ASSUME NEW p \in Pools
    PROVE  LET s == Cmds(MakeOps(p), p) \o Cmds(CacheOps(p), p)
           IN /\ Ordered(s) /\ s[1].arg.op # "set_device_class"
              /\ Among(Cmd("created", p), s)
<1> DEFINE s == Cmds(MakeOps(p), p) \o Cmds(CacheOps(p), p)
           ops == MakeOps(p) \o CacheOps(p)
<1>1. /\ Len(ops) \in Nat /\ Len(ops) >= 3
      /\ \A i \in 1 .. Len(ops) : ops[i] = "created" <=> i = 2
      /\ \A i \in 1 .. Len(ops) - 1 : ops[i] # "unset_limit"
      /\ \A o \in Asked(p) \ {"created"} : \E j \in 3 .. Len(ops) : ops[j] = o
  BY OpsPlanned
<1>2. /\ ops \in Seq(PoolOps) /\ s \in Seq(CommandTasks)
      /\ Len(s) = Len(ops) /\ \A i \in 1 .. Len(ops) : s[i] = Cmd(ops[i], p)
  BY PoolTexts
<1> HIDE DEF ops, s
<1>3. \A i \in 1 .. Len(ops) : ops[i] \in PoolOps
  BY <1>2
<1>4. Ordered(s) /\ s[1].arg.op # "set_device_class" /\ s[2] = Cmd("created", p)
  BY <1>1, <1>2, <1>3, PoolOrdered
<1>5. 2 \in DOMAIN s
  BY <1>1, <1>2
<1> QED
  BY <1>4, <1>5 DEF Among, s
(* A plan is in order, and what it is for is there or in it.                   *)
LEMMA PlanMeans ==
    ASSUME NEW t \in AskSet
    PROVE  LET c == Plan(t)
           IN /\ Ordered(c)
              /\ c # <<>> => c[1].arg.op # "set_device_class"
              /\ t.task = "keyring" => \/ ceph.caps[t.arg] = want.caps
                                       \/ Among(Cmd("get_or_create", t.arg), c)
                                       \/ Among(Cmd("caps", t.arg), c)
              /\ t.task = "class" => \/ ceph.class[t.arg] = want.class
                                     \/ Among(Cmd("set_device_class", t.arg), c)
              /\ t.task = "pool" /\ (Pool[t.arg].rule \/ Pool[t.arg].erasure) =>
                     "created" \in ceph.pools[t.arg] \/ Among(Cmd("created", t.arg), c)
              /\ t.task = "fs" => ceph.fs \/ Among(Cmd("fs_new", "cephfs"), c)
<1> DEFINE c == Plan(t)
<1>1. CASE t \in [task : {"keyring"}, arg : Keyrings]
  <2>1. c = EnsureKeyring(t.arg) /\ t.task = "keyring"
    BY <1>1 DEF Plan
  <2> HIDE DEF c
  <2>2. ASSUME NEW op \in {"get_or_create", "caps"}, c = <<Cmd(op, t.arg)>>
        PROVE  Ordered(c) /\ c[1].arg.op # "set_device_class" /\ Among(Cmd(op, t.arg), c)
    BY <2>2, OneOrdered, CommandFields
  <2>3. CASE ceph.caps[t.arg] = 0
    <3>1. c = <<Cmd("get_or_create", t.arg)>>
      BY <2>1, <2>3 DEF EnsureKeyring
    <3> QED
      BY <2>1, <2>2, <3>1 DEF c
  <2>4. CASE ceph.caps[t.arg] \notin {0, want.caps}
    <3>1. c = <<Cmd("caps", t.arg)>>
      BY <2>1, <2>4 DEF EnsureKeyring
    <3> QED
      BY <2>1, <2>2, <3>1 DEF c
  <2>5. CASE ceph.caps[t.arg] # 0 /\ ceph.caps[t.arg] = want.caps
    <3>1. c = <<>>
      BY <2>1, <2>5 DEF EnsureKeyring
    <3> QED
      BY <2>1, <2>5, <3>1, EmptyOrdered DEF c
  <2> QED
    BY <2>3, <2>4, <2>5
<1>2. CASE t \in [task : {"class"}, arg : Range(Osds)]
  <2>1. c = SetDeviceClass(t.arg) /\ t.task = "class"
    BY <1>2 DEF Plan
  <2> DEFINE s == Cmds(<<"rm_device_class", "set_device_class">>, t.arg)
  <2>2. /\ Ordered(s) /\ s[1].arg.op = "rm_device_class"
        /\ Among(Cmd("set_device_class", t.arg), s)
    BY ClassOrdered
  <2>3. c = IF ceph.class[t.arg] = want.class THEN <<>> ELSE s
    BY <2>1 DEF SetDeviceClass
  <2> HIDE DEF c, s
  <2> QED
    BY <2>1, <2>2, <2>3, EmptyOrdered DEF c
<1>3. CASE t \in [task : {"pool"}, arg : Pools]
  <2>1. c = PreparePool(t.arg) /\ t.task = "pool" /\ t.arg \in Pools
    BY <1>3 DEF Plan
  <2> DEFINE s == Cmds(MakeOps(t.arg), t.arg) \o Cmds(CacheOps(t.arg), t.arg)
  <2>2. /\ Ordered(s) /\ s[1].arg.op # "set_device_class"
        /\ Among(Cmd("created", t.arg), s)
    BY <2>1, PoolMeans
  <2>3. c = IF "created" \in ceph.pools[t.arg] \/ ~(Pool[t.arg].erasure \/ Pool[t.arg].rule)
            THEN <<>> ELSE s
    BY <2>1, PoolPlan
  <2> HIDE DEF c, s
  <2> QED
    BY <2>1, <2>2, <2>3, EmptyOrdered DEF c
<1>4. CASE t \in [task : {"fs"}, arg : {"cephfs"}]
  <2>1. c = MakeFs /\ t.task = "fs"
    BY <1>4 DEF Plan
  <2>2. c = IF ceph.fs THEN <<>> ELSE <<Cmd("fs_new", "cephfs")>>
    BY <2>1 DEF MakeFs
  <2> HIDE DEF c
  <2>3. c = <<Cmd("fs_new", "cephfs")>> =>
            /\ Ordered(c) /\ c[1].arg.op # "set_device_class"
            /\ Among(Cmd("fs_new", "cephfs"), c)
    BY OneOrdered, CommandFields
  <2> QED
    BY <2>1, <2>2, <2>3, EmptyOrdered DEF c
<1> QED
  BY <1>1, <1>2, <1>3, <1>4 DEF AskSet
-----------------------------------------------------------------------------
(* Steps at which no commands are left.                                       *)

LEMMA QuietHead ==
    ASSUME NEW s \in Seq(TaskSet), Quietened(s)
    PROVE  /\ s # <<>> => Head(s).task # "command"
           /\ \A op, x : ~Among(Cmd(op, x), s) /\ (s # <<>> => Head(s) # Cmd(op, x))
<1>1. s # <<>> => 1 \in 1 .. Len(s) /\ Head(s) = s[1]
  OBVIOUS
<1>2. DOMAIN s = 1 .. Len(s)
  OBVIOUS
<1>3. \A i \in DOMAIN s : s[i].task # "command"
  BY <1>2 DEF Quietened, IsCommand
<1>4. \A op, x : ~Among(Cmd(op, x), s)
  BY <1>3, CommandFields DEF Among
<1>5. s # <<>> => Head(s).task # "command"
  BY <1>1, <1>2, <1>3
<1> QED
  BY <1>4, <1>5, CommandFields

LEMMA Asks ==
    /\ \A e \in Keyrings : Task("keyring", e) \in AskSet
    /\ \A o \in Range(Osds) : Task("class", o) \in AskSet
    /\ \A p \in Pools : Task("pool", p) \in AskSet
    /\ Task("fs", "cephfs") \in AskSet
BY DEF AskSet, Task

KeyThere == \E a \in Range(want.mons) : mon[a].key # 0

LEMMA QuietAll ==
    ASSUME play.todo \in Seq(TaskSet), Quietened(play.todo)
    PROVE  /\ ~AtTask("command") /\ \A op, x : ~InTodo(Cmd(op, x))
           /\ \A op, x : play.todo # <<>> => Head(play.todo) # Cmd(op, x)
BY QuietHead DEF AtTask, InTodo

LEMMA QuietCommands ==
    ASSUME Types, CommandsInv, ceph' = ceph, hurt' = hurt, play'.todo \in Seq(TaskSet),
           Quietened(play.todo), Quietened(play'.todo),
           play'.result \in {"running", "ok"} =>
               /\ want' = want /\ play.result \in {"running", "ok"}
               /\ \A t \in AskSet : InTodo(t) => InTodo(t)'
               /\ KeyThere => KeyThere'
    PROVE  CommandsInv'
<1>1. /\ ~AtTask("command") /\ \A op, x : ~InTodo(Cmd(op, x))
      /\ \A op, x : play.todo # <<>> => Head(play.todo) # Cmd(op, x)
  BY QuietAll DEF Types, PlaySet
<1>2. /\ ~AtTask("command")' /\ \A op, x : ~InTodo(Cmd(op, x))'
      /\ \A op, x : play'.todo # <<>> => Head(play'.todo) # Cmd(op, x)
  BY QuietHead DEF AtTask, InTodo
<1>3. Ordered(play'.todo)
  BY QuietOrdered
<1> HIDE DEF InTodo, AtTask, Quietened, KeyThere
<1>4. Classes'
  BY <1>1, <1>2 DEF CommandsInv, Classes
<1>5. PoolsWhole'
  BY <1>1, <1>2 DEF CommandsInv, PoolsWhole
<1>6. ASSUME play'.result \in {"running", "ok"}
      PROVE  /\ \A e \in Keyrings : KeyringLeft(e)'
             /\ \A o \in Range(Osds) : ClassLeft(o)'
             /\ \A p \in Pools : Pool[p].rule \/ Pool[p].erasure => PoolLeft(p)'
             /\ FsLeft' /\ KeysLeft'
  <2>1. /\ want' = want
        /\ \A t \in AskSet : InTodo(t) => InTodo(t)'
        /\ KeyThere => KeyThere'
        /\ \A e \in Keyrings : KeyringLeft(e)
        /\ \A o \in Range(Osds) : ClassLeft(o)
        /\ \A p \in Pools : Pool[p].rule \/ Pool[p].erasure => PoolLeft(p)
        /\ FsLeft /\ KeysLeft
    BY <1>6 DEF CommandsInv, Remaining
  <2>2. \A e \in Keyrings : KeyringLeft(e)'
    BY <1>1, <2>1, Asks DEF KeyringLeft
  <2>3. \A o \in Range(Osds) : ClassLeft(o)'
    BY <1>1, <2>1, Asks DEF ClassLeft
  <2>4. \A p \in Pools : Pool[p].rule \/ Pool[p].erasure => PoolLeft(p)'
    BY <1>1, <2>1, Asks DEF PoolLeft
  <2>5. FsLeft' /\ KeysLeft'
    BY <1>1, <2>1, Asks DEF FsLeft, KeysLeft, KeyThere
  <2> QED
    BY <2>2, <2>3, <2>4, <2>5
<1>7. Remaining'
  BY <1>6 DEF Remaining
<1> QED
  BY <1>3, <1>4, <1>5, <1>7 DEF CommandsInv
LEMMA TailQuiet ==
    ASSUME NEW s \in Seq(TaskSet), s # <<>>, Quietened(s), Head(s) \notin AskSet
    PROVE  /\ Tail(s) \in Seq(TaskSet) /\ Quietened(Tail(s))
           /\ \A t \in AskSet : Among(t, s) => Among(t, Tail(s))
<1> DEFINE u == Tail(s)
<1>1. /\ u \in Seq(TaskSet) /\ Len(u) = Len(s) - 1 /\ Len(s) \in Nat \ {0}
      /\ \A i \in 1 .. Len(u) : i + 1 \in 1 .. Len(s) /\ u[i] = s[i + 1]
      /\ DOMAIN u = 1 .. Len(u) /\ DOMAIN s = 1 .. Len(s) /\ Head(s) = s[1]
  OBVIOUS
<1> HIDE DEF u
<1>2. Quietened(u)
  BY <1>1 DEF Quietened
<1>3. ASSUME NEW t \in AskSet, Among(t, s) PROVE Among(t, u)
  <2>1. PICK i \in 1 .. Len(s) : s[i] = t
    BY <1>1, <1>3 DEF Among
  <2>2. i # 1
    BY <1>1, <2>1
  <2>3. i - 1 \in 1 .. Len(u) /\ (i - 1) + 1 = i
    BY <1>1, <2>1, <2>2
  <2>4. u[i - 1] = t
    BY <1>1, <2>1, <2>3
  <2> QED
    BY <1>1, <2>3, <2>4 DEF Among
<1> QED
  BY <1>1, <1>2, <1>3 DEF u

LEMMA AheadQuiet ==
    ASSUME NEW u \in Seq(TaskSet), Quietened(u), NEW c \in TaskSet, c.task # "command"
    PROVE  /\ <<c>> \o u \in Seq(TaskSet) /\ Quietened(<<c>> \o u)
           /\ \A t : Among(t, u) => Among(t, <<c>> \o u)
<1> DEFINE s == <<c>> \o u
<1>1. /\ s \in Seq(TaskSet) /\ Len(s) = Len(u) + 1 /\ Len(u) \in Nat /\ s[1] = c
      /\ \A i \in 1 .. Len(u) : s[i + 1] = u[i]
      /\ DOMAIN u = 1 .. Len(u) /\ DOMAIN s = 1 .. Len(s)
  OBVIOUS
<1> HIDE DEF s
<1>2. ASSUME NEW i \in 1 .. Len(s) PROVE s[i].task # "command"
  <2>1. i # 1 => i - 1 \in 1 .. Len(u) /\ (i - 1) + 1 = i
    BY <1>1
  <2>2. i # 1 => s[i] = u[i - 1]
    BY <1>1, <2>1
  <2> QED
    BY <1>1, <2>1, <2>2 DEF Quietened, IsCommand
<1>3. ASSUME NEW t, Among(t, u) PROVE Among(t, s)
  <2>1. PICK i \in 1 .. Len(u) : u[i] = t
    BY <1>1, <1>3 DEF Among
  <2>2. i + 1 \in 1 .. Len(s) /\ s[i + 1] = t
    BY <1>1, <2>1
  <2> QED
    BY <1>1, <2>2 DEF Among
<1> QED
  BY <1>1, <1>2, <1>3 DEF s, Quietened, IsCommand

(* The tasks of the monitors come before all commands.                         *)
LEMMA MonitorsQuiet ==
    ASSUME Types, Playing, Ordered(play.todo), play.todo # <<>>, ~InCeph
    PROVE  /\ play.todo \in Seq(TaskSet) /\ Quietened(play.todo)
           /\ Head(play.todo) \notin AskSet /\ play.result = "running"
<1>1. play.todo \in Seq(TaskSet) /\ Head(play.todo) \in TaskSet
  BY TodoTail DEF Types, PlaySet
<1>2. ~IsCommand(Head(play.todo)) /\ Head(play.todo) \notin AskSet
  BY DEF InCeph, AtTask, IsCommand, AskSet
<1> QED
  BY <1>1, <1>2, NoCommands DEF Playing

Shortens ==
    \/ play'.todo \in {play.todo, Tail(play.todo)}
    \/ \E c \in TaskSet : /\ c.task \notin {"command", "refetch"}
                         /\ play'.todo = <<c>> \o Tail(play.todo)
    \/ play'.todo = <<>> /\ play'.result = "failed"

LEMMA MonitorsStep ==
    ASSUME Types, Playing, CommandsInv, play.todo # <<>>, ~InCeph, Shortens,
           want' = want, ceph' = ceph, hurt' = hurt, KeyThere => KeyThere'
    PROVE  CommandsInv'
<1>1. /\ play.todo \in Seq(TaskSet) /\ Quietened(play.todo)
      /\ Head(play.todo) \notin AskSet /\ play.result = "running"
  BY MonitorsQuiet DEF CommandsInv
<1>2. /\ Tail(play.todo) \in Seq(TaskSet) /\ Quietened(Tail(play.todo))
      /\ \A t \in AskSet : InTodo(t) => Among(t, Tail(play.todo))
  BY <1>1, TailQuiet DEF InTodo
<1>3. /\ play'.todo \in Seq(TaskSet) /\ Quietened(play'.todo)
      /\ play'.result # "failed" => \A t \in AskSet : InTodo(t) => InTodo(t)'
  <2>1. ASSUME play'.todo \in {play.todo, Tail(play.todo)}
        PROVE  /\ play'.todo \in Seq(TaskSet) /\ Quietened(play'.todo)
               /\ \A t \in AskSet : InTodo(t) => InTodo(t)'
    BY <1>1, <1>2, <2>1 DEF InTodo
  <2>2. ASSUME NEW c \in TaskSet, c.task # "command", play'.todo = <<c>> \o Tail(play.todo)
        PROVE  /\ play'.todo \in Seq(TaskSet) /\ Quietened(play'.todo)
               /\ \A t \in AskSet : InTodo(t) => InTodo(t)'
    BY <1>2, <2>2, AheadQuiet DEF InTodo
  <2>3. ASSUME play'.todo = <<>>
        PROVE  play'.todo \in Seq(TaskSet) /\ Quietened(play'.todo)
    BY <2>3, EmptyOrdered
  <2> QED
    BY <2>1, <2>2, <2>3 DEF Shortens
<1> QED
  BY <1>1, <1>3, QuietCommands

LEMMA PassTodo ==
    ASSUME play \in PlaySet, NEW q, DOMAIN q = DOMAIN play, q.todo = play.todo
    PROVE  Pass(q).todo = Tail(play.todo)
<1> DEFINE r == [q EXCEPT !.todo = Tail(@), !.left = q.alive]
<1>1. "todo" \in DOMAIN q /\ "left" \in DOMAIN q /\ "result" \in DOMAIN q
  BY DEF PlaySet
<1>2. r.todo = Tail(play.todo) /\ "result" \in DOMAIN r /\ "todo" \in DOMAIN r
  BY <1>1
<1>3. Pass(q) = Over(r)
  BY DEF Pass
<1> HIDE DEF r
<1> QED
  BY <1>2, <1>3 DEF Over

LEMMA DoneTodo ==
    ASSUME play \in PlaySet, NEW q, DOMAIN q = DOMAIN play, q.todo = play.todo, NEW h
    PROVE  Done(q, h).todo \in {play.todo, Tail(play.todo)}
<1>1. CASE q.left = {h}
  BY <1>1, PassTodo DEF Done
<1>2. CASE q.left # {h}
  BY <1>2 DEF Done, PlaySet
<1> QED
  BY <1>1, <1>2

LEMMA AllFailTodo ==
    ASSUME play \in PlaySet, AllFail PROVE play'.todo = <<>> /\ play'.result = "failed"
BY DEF AllFail, PlaySet

LEMMA HostFailTodo ==
    ASSUME play \in PlaySet, NEW h, HostFails(h) PROVE Shortens
<1>1. CASE play.alive = {h}
  BY <1>1, AllFailTodo DEF HostFails, Shortens
<1>2. CASE play.alive # {h}
  <2> DEFINE q == [play EXCEPT !.alive = @ \ {h}]
  <2>1. DOMAIN q = DOMAIN play /\ q.todo = play.todo
    BY DEF PlaySet
  <2>2. play' = Done(q, h)
    BY <1>2 DEF HostFails
  <2> HIDE DEF q
  <2> QED
    BY <2>1, <2>2, DoneTodo DEF Shortens
<1> QED
  BY <1>1, <1>2

LEMMA NotCeph ==
    /\ \A s : At(s) => play.todo # <<>> /\ ~InCeph /\ ~AtTask("refetch")
    /\ AtTask("bootstrap") \/ AtTask("first") =>
           play.todo # <<>> /\ ~InCeph /\ ~AtTask("refetch")
    /\ AtTask("refetch") => play.todo # <<>> /\ ~InCeph
BY DEF At, InCeph, AtTask

LEMMA KeyStays ==
    ASSUME Types, want' = want, \A a \in Hosts : mon[a].key # 0 => mon'[a].key # 0
    PROVE  KeyThere => KeyThere'
<1>1. Range(want.mons) \subseteq Hosts
  BY FirstFacts
<1> QED
  BY <1>1 DEF KeyThere

(* A step of the monitors' tasks, or of the include.                          *)
Monitored ==
    /\ play.todo # <<>> /\ ~InCeph /\ Shortens
    /\ want' = want /\ ceph' = ceph /\ hurt' = hurt
    /\ \/ mon' = mon
       \/ \E h, v : mon' = [mon EXCEPT ![h].state = v]
    /\ AtTask("refetch") => play'.todo # play.todo

LEMMA KeysMonitored == ASSUME Types, Monitored PROVE KeyThere => KeyThere'
<1>1. \A a \in Hosts : mon[a].key # 0 => mon'[a].key # 0
  <2>1. mon \in [Hosts -> [state : {"down", "starting", "up"}, key : {0} \cup DOMAIN Text]]
    BY DEF Types
  <2>2. ASSUME NEW h, NEW v, mon' = [mon EXCEPT ![h].state = v]
        PROVE  \A a \in Hosts : mon[a].key # 0 => mon'[a].key # 0
    BY <2>1, <2>2
  <2> QED
    BY <2>2 DEF Monitored
<1> QED
  BY <1>1, KeyStays DEF Monitored

LEMMA CalmStep ==
    ASSUME ClusterInv, CommandsInv, Monitored PROVE CommandsInv'
<1>1. Types /\ Playing
  BY DEF ClusterInv
<1> QED
  BY <1>1, KeysMonitored, MonitorsStep DEF Monitored

LEMMA MonitorsTasks ==
    ASSUME ClusterInv,
           \/ CheckMons \/ Generate \/ Bootstrap \/ StartFirst \/ Register \/ Fetch
           \/ Refetch
           \/ \E h \in Hosts : \/ CreateVolume(h) \/ WriteTemp(h) \/ Push(h) \/ BringUp(h)
                               \/ PushBreaks(h)
    PROVE  Monitored
<1>1. play \in PlaySet /\ Types
  BY DEF ClusterInv, Types
<1>2. CASE CheckMons
  <2>1. PICK answer : play' = Pass([play EXCEPT !.active = answer])
    BY <1>2 DEF CheckMons
  <2>2. Shortens
    BY <1>1, <2>1, PassTodo DEF Shortens, PlaySet
  <2> QED
    BY <1>2, <2>2, NotCeph DEF Monitored, CheckMons, history
<1>3. CASE Generate
  <2>1. Shortens
    <3>1. CASE Generates
      <4>1. /\ Task("bootstrap", 1) \in TaskSet
            /\ Task("bootstrap", 1).task \notin {"command", "refetch"}
        BY DEF Task, TaskSet
      <4>2. play'.todo = <<Task("bootstrap", 1)>> \o Tail(play.todo)
        BY <1>1, <1>3, <3>1 DEF Generate, PlaySet
      <4> QED
        BY <4>1, <4>2 DEF Shortens
    <3>2. CASE ~Generates
      BY <1>1, <1>3, <3>2, PassTodo DEF Generate, Shortens
    <3> QED
      BY <3>1, <3>2
  <2> QED
    BY <1>3, <2>1, NotCeph DEF Monitored, Generate, history
<1>4. CASE Bootstrap
  <2>1. Shortens
    <3>1. PICK next \in TaskSet : /\ next.task \notin {"command", "refetch"}
                                  /\ play' = [play EXCEPT !.todo = <<next>> \o Tail(@)]
      <4>1. play.todo # <<>> /\ Head(play.todo) \in TaskSet /\ Head(play.todo).task = "bootstrap"
        BY <1>1, <1>4, TodoTail DEF Bootstrap, AtTask, Types, PlaySet
      <4>2. Head(play.todo).arg \in Nat \ {0}
        BY <4>1 DEF TaskSet, AskSet, LaterSet
      <4>3. First \in Hosts
        BY <1>1, FirstFacts
      <4>4. /\ Task("bootstrap", Head(play.todo).arg + 1) \in TaskSet
            /\ Task("first", First) \in TaskSet
            /\ Task("bootstrap", Head(play.todo).arg + 1).task \notin {"command", "refetch"}
            /\ Task("first", First).task \notin {"command", "refetch"}
        BY <4>2, <4>3 DEF TaskSet, Task
      <4> QED
        BY <1>4, <4>4 DEF Bootstrap
    <3>2. play'.todo = <<next>> \o Tail(play.todo)
      BY <1>1, <3>1 DEF PlaySet
    <3> QED
      BY <3>1, <3>2 DEF Shortens
  <2> QED
    BY <1>4, <2>1, NotCeph DEF Monitored, Bootstrap
<1>5. CASE StartFirst
  <2>1. Shortens
    BY <1>1, <1>5, PassTodo DEF StartFirst, Shortens, PlaySet
  <2> QED
    BY <1>5, <2>1, NotCeph DEF Monitored, StartFirst, history
<1>6. CASE Register
  <2>1. PICK a : play' = Pass([play EXCEPT !.available = a])
    BY <1>6 DEF Register
  <2>2. Shortens
    BY <1>1, <2>1, PassTodo DEF Shortens, PlaySet
  <2> QED
    BY <1>6, <2>2, NotCeph DEF Monitored, Register, history
<1>7. ASSUME FetchKeys PROVE Shortens
  <2>1. (\E k : play' = Pass([play EXCEPT !.keys = k])) \/ AllFail
    BY <1>7 DEF FetchKeys
  <2>2. ASSUME NEW k, play' = Pass([play EXCEPT !.keys = k]) PROVE Shortens
    BY <1>1, <2>2, PassTodo DEF Shortens, PlaySet
  <2>3. ASSUME AllFail PROVE Shortens
    BY <1>1, <2>3, AllFailTodo DEF Shortens
  <2> QED
    BY <2>1, <2>2, <2>3
<1>13. CASE Fetch
  BY <1>7, <1>13, NotCeph DEF Monitored, Fetch, history
<1>14. CASE Refetch
  <2>1. Shortens
    <3>1. play' = Pass(play) => Shortens
      BY <1>1, PassTodo DEF Shortens
    <3>2. AllFail => Shortens
      BY <1>1, AllFailTodo DEF Shortens
    <3> QED
      BY <1>7, <1>14, <3>1, <3>2 DEF Refetch
  <2>2. play'.todo \in {<<>>, Tail(play.todo)}
    <3>1. play' = Pass(play) => play'.todo = Tail(play.todo)
      BY <1>1, PassTodo
    <3>2. ASSUME NEW k, play' = Pass([play EXCEPT !.keys = k])
          PROVE  play'.todo = Tail(play.todo)
      BY <1>1, <3>2, PassTodo DEF PlaySet
    <3>3. AllFail => play'.todo = <<>>
      BY <1>1, AllFailTodo
    <3> QED
      BY <1>14, <3>1, <3>2, <3>3 DEF Refetch, FetchKeys
  <2>3. play'.todo # play.todo
    <3>1. play.todo \in Seq(TaskSet) /\ play.todo # <<>>
      BY <1>1, <1>14, NotCeph DEF Refetch, PlaySet
    <3> DEFINE s == play.todo
               u == Tail(s)
    <3>2. Len(u) = Len(s) - 1 /\ Len(s) \in Nat
      BY <3>1
    <3> HIDE DEF s, u
    <3>3. u # s
      <4>1. Len(u) # Len(s)
        BY <3>2
      <4> QED
        BY <4>1
    <3> QED
      BY <2>2, <3>1, <3>3 DEF s, u
  <2> QED
    BY <1>14, <2>1, <2>3, NotCeph DEF Monitored, Refetch, history
<1>8. ASSUME NEW h \in Hosts, CreateVolume(h) PROVE Monitored
  <2>1. PICK f : play' = Done([play EXCEPT !.fresh = f], h)
    BY <1>8 DEF CreateVolume
  <2>2. Shortens
    BY <1>1, <2>1, DoneTodo DEF Shortens, PlaySet
  <2> QED
    BY <1>8, <2>2, NotCeph DEF Monitored, CreateVolume, history
<1>9. ASSUME NEW h \in Hosts, WriteTemp(h) PROVE Monitored
  <2>1. PICK f : play' = Done([play EXCEPT !.temp = f], h)
    BY <1>9 DEF WriteTemp
  <2>2. Shortens
    BY <1>1, <2>1, DoneTodo DEF Shortens, PlaySet
  <2> QED
    BY <1>9, <2>2, NotCeph DEF Monitored, WriteTemp, history
<1>10. ASSUME NEW h \in Hosts, Push(h) PROVE Monitored
  <2>1. Shortens
    BY <1>1, <1>10, DoneTodo DEF Push, Shortens
  <2> QED
    BY <1>10, <2>1, NotCeph DEF Monitored, Push, history
<1>11. ASSUME NEW h \in Hosts, BringUp(h) PROVE Monitored
  <2>1. Shortens
    BY <1>1, <1>11, DoneTodo DEF BringUp, Shortens
  <2>2. \E v : mon' = [mon EXCEPT ![h].state = v]
    BY <1>11 DEF BringUp
  <2> QED
    BY <1>11, <2>1, <2>2, NotCeph DEF Monitored, BringUp, history
<1>12. ASSUME NEW h \in Hosts, PushBreaks(h) PROVE Monitored
  <2>1. Shortens
    BY <1>1, <1>12, HostFailTodo DEF PushBreaks
  <2> QED
    BY <1>12, <2>1, NotCeph DEF Monitored, PushBreaks, history
<1> QED
  BY <1>2, <1>3, <1>4, <1>5, <1>6, <1>8, <1>9, <1>10, <1>11, <1>12, <1>13, <1>14

LEMMA MonitorsCommands ==
    ASSUME ClusterInv, CommandsInv,
           \/ CheckMons \/ Generate \/ Bootstrap \/ StartFirst \/ Register \/ Fetch
           \/ Refetch
           \/ \E h \in Hosts : \/ CreateVolume(h) \/ WriteTemp(h) \/ Push(h) \/ BringUp(h)
                               \/ PushBreaks(h)
    PROVE  CommandsInv'
BY MonitorsTasks, CalmStep

(* A play begins with every task that asks.                                    *)
LEMMA StartPlayCommands ==
    ASSUME ClusterInv, CommandsInv, StartPlay PROVE CommandsInv'
<1>1. /\ Types /\ play.todo = <<>> /\ play'.todo = DeployTasks
      /\ play'.result = "running" /\ want' = want /\ ceph' = ceph /\ hurt' = hurt /\ mon' = mon
  BY DEF ClusterInv, StartPlay, Idle, history
<1>2. Quietened(play.todo)
  BY <1>1, EmptyOrdered
<1>3. DeployTasks \in Seq(TaskSet) /\ Quietened(DeployTasks)
  <2>1. DOMAIN DeployTasks = 1 .. Len(DeployTasks)
    BY DeployedChain
  <2> QED
    BY <2>1, DeployedChain DEF Quietened, IsCommand
<1>4. Ordered(play'.todo)
  BY <1>1, <1>3, QuietOrdered
<1>5. /\ ~AtTask("command") /\ \A op, x : ~InTodo(Cmd(op, x))
  BY <1>1, <1>2, QuietAll DEF Types, PlaySet
<1>6. ~AtTask("command")'
  BY <1>1, <1>3, QuietHead DEF AtTask
<1>7. Classes'
  <2>1. \A o \in Range(Osds) \ hurt : ceph.class[o] # "none"
    BY <1>1 DEF CommandsInv, Classes
  <2> QED
    BY <1>1, <1>6, <2>1 DEF Classes
<1>8. PoolsWhole'
  <2>1. \A p \in Pools \ hurt : "created" \in ceph.pools[p] =>
            \A o \in Asked(p) : o \in ceph.pools[p]
    BY <1>5 DEF CommandsInv, PoolsWhole
  <2> QED
    BY <1>1, <2>1 DEF PoolsWhole
<1>9. /\ \A e \in Keyrings : InTodo(Task("keyring", e))'
      /\ \A o \in Range(Osds) : InTodo(Task("class", o))'
      /\ \A p \in Pools : InTodo(Task("pool", p))'
      /\ InTodo(Task("fs", "cephfs"))'
  BY <1>1, Deployed DEF InTodo
<1>10. Remaining'
  <2> HIDE DEF InTodo
  <2> QED
    BY <1>9 DEF Remaining, KeyringLeft, ClassLeft, PoolLeft, FsLeft, KeysLeft
<1> QED
  BY <1>4, <1>7, <1>8, <1>10 DEF CommandsInv

LEMMA EditCommands ==
    ASSUME ClusterInv, CommandsInv, Edit PROVE CommandsInv'
<1>1. /\ Types /\ play.todo = <<>> /\ play'.todo = <<>> /\ play'.result = "none"
      /\ ceph' = ceph /\ hurt' = hurt
  BY DEF ClusterInv, Edit, Idle, history
<1> QED
  BY <1>1, EmptyOrdered, QuietCommands

(* What the monitors do by themselves.                                         *)
(* A monitor keeps what it was made with.                                      *)
LEMMA MonitorKeys ==
    ASSUME Types, NEW h \in Hosts, MonStarts(h) \/ MonStops(h)
    PROVE  KeyThere => KeyThere'
<1>1. want' = want
  BY DEF MonStarts, MonStops
<1>2. \A a \in Hosts : mon[a].key # 0 => mon'[a].key # 0
  <2>1. mon \in [Hosts -> [state : {"down", "starting", "up"}, key : {0} \cup DOMAIN Text]]
    BY DEF Types
  <2>2. CASE MonStops(h)
    BY <2>1, <2>2 DEF MonStops
  <2>3. CASE MonStarts(h)
    <3>1. \/ mon' = mon \/ mon' = [mon EXCEPT ![h].state = "up"]
          \/ \E g : mon[h].key = 0 /\ mon' = [mon EXCEPT ![h] = g]
      BY <2>3 DEF MonStarts
    <3> QED
      BY <2>1, <3>1
  <2> QED
    BY <2>2, <2>3
<1> QED
  BY <1>1, <1>2, KeyStays

LEMMA MonitorCommands ==
    ASSUME ClusterInv, CommandsInv, NEW h \in Hosts, MonStarts(h) \/ MonStops(h)
    PROVE  CommandsInv'
<1>1. /\ Types /\ play' = play /\ want' = want /\ ceph' = ceph /\ hurt' = hurt
  BY DEF ClusterInv, MonStarts, MonStops, history
<1>3. KeyThere => KeyThere'
  BY <1>1, MonitorKeys
<1>4. KeysLeft => KeysLeft'
  BY <1>1, <1>3 DEF KeysLeft, KeyThere, InTodo
<1>5. /\ \A t : InTodo(t)' <=> InTodo(t)
      /\ \A name : AtTask(name)' <=> AtTask(name)
  BY <1>1 DEF InTodo, AtTask
<1> HIDE DEF InTodo, AtTask
<1>6. Classes' /\ PoolsWhole' /\ Ordered(play'.todo)
  BY <1>1, <1>5 DEF CommandsInv, Classes, PoolsWhole
<1>7. Remaining'
  BY <1>1, <1>4, <1>5 DEF CommandsInv, Remaining, KeyringLeft, ClassLeft, PoolLeft, FsLeft
<1> QED
  BY <1>6, <1>7 DEF CommandsInv
-----------------------------------------------------------------------------
(* A play that fails: what it was about is hurt.                               *)

LEMMA OneThing ==
    ASSUME Types, CommandsInv, AtTask("command"), NEW op, NEW x, InTodo(Cmd(op, x))
    PROVE  /\ Head(play.todo).arg.x = x
           /\ \/ Head(play.todo) = Cmd(op, x)
              \/ /\ Head(play.todo).arg.op \notin LastOps
                 /\ Among(Cmd(op, x), Tail(play.todo))
<1> DEFINE s == play.todo
<1>1. /\ s \in Seq(TaskSet) /\ s # <<>> /\ Head(s).task = "command" /\ Ordered(s)
  BY DEF Types, PlaySet, AtTask, CommandsInv
<1>2. PICK i \in DOMAIN s : s[i] = Cmd(op, x)
  BY DEF InTodo, Among
<1> HIDE DEF s
<1>3. Head(s) = s[1] /\ DOMAIN s = 1 .. Len(s) /\ 1 \in 1 .. Len(s) /\ Len(s) \in Nat
  BY <1>1
<1>4. s[i].task = "command" /\ s[i].arg.x = x
  BY <1>2, CommandFields
<1>5. CASE i = 1
  BY <1>2, <1>3, <1>4, <1>5 DEF s
<1>6. CASE i # 1
  <2>1. 1 < i /\ i \in 1 .. Len(s)
    BY <1>2, <1>3, <1>6
  <2>2. s[1].arg.x = x /\ s[1].arg.op \notin LastOps
    BY <1>1, <1>3, <1>4, <2>1 DEF Ordered, OneBlock, IsCommand
  <2>3. i - 1 \in DOMAIN Tail(s) /\ Tail(s)[i - 1] = s[i]
    BY <1>1, <1>3, <2>1
  <2>4. Among(Cmd(op, x), Tail(s))
    BY <1>2, <2>3 DEF Among
  <2> QED
    BY <1>3, <2>2, <2>4 DEF s
<1> QED
  BY <1>5, <1>6

LEMMA FailCommands ==
    ASSUME Types, CommandsInv, AllFail,
           hurt' = (IF AtTask("command") THEN hurt \cup {Head(play.todo).arg.x} ELSE hurt),
           \/ ceph' = ceph
           \/ AtTask("command") /\ ceph' = Applied(Head(play.todo).arg)
    PROVE  CommandsInv'
<1>1. play \in PlaySet /\ play'.todo = <<>> /\ play'.result = "failed"
  BY AllFailTodo DEF Types
<1>2. CASE ~AtTask("command")
  <2>1. Quietened(play.todo)
    <3>1. play.todo = <<>> \/ ~IsCommand(Head(play.todo))
      BY <1>2 DEF AtTask, IsCommand
    <3> QED
      BY <1>1, <3>1, NoCommands DEF CommandsInv, PlaySet
  <2> QED
    BY <1>1, <1>2, <2>1, EmptyOrdered, QuietCommands
<1>3. CASE AtTask("command")
  <2> DEFINE c == Head(play.todo).arg
  <2>1. hurt' = hurt \cup {c.x}
    BY <1>3
  <2>2. c \in CommandSet /\ Changed(c)
    BY <1>3, CommandFacts, AppliedMeans
  <2>3. /\ \A o \in Range(Osds) : o # c.x => ceph'.class[o] = ceph.class[o]
        /\ \A p \in Pools : p # c.x => ceph'.pools[p] = ceph.pools[p]
    BY <2>2 DEF Changed
  <2> HIDE DEF c
  <2>4. Classes'
    <3>1. ~AtTask("command")'
      BY <1>1 DEF AtTask
    <3>2. ASSUME NEW o \in Range(Osds), o \notin hurt' PROVE ceph'.class[o] # "none"
      <4>1. ceph.class[o] = "none" => Head(play.todo) = Cmd("set_device_class", o)
        BY <2>1, <3>2 DEF CommandsInv, Classes
      <4>2. Head(play.todo) # Cmd("set_device_class", o)
        BY <2>1, <3>2, CommandFields DEF c
      <4> QED
        BY <2>1, <2>3, <3>2, <4>1, <4>2
    <3> QED
      BY <3>1, <3>2 DEF Classes
  <2>5. PoolsWhole'
    <3>1. ASSUME NEW p \in Pools, p \notin hurt', "created" \in ceph'.pools[p],
                 NEW o \in Asked(p)
          PROVE  o \in ceph'.pools[p]
      <4>1. p # c.x /\ p \notin hurt /\ ceph'.pools[p] = ceph.pools[p]
        BY <2>1, <2>3, <3>1
      <4>2. o \in ceph.pools[p] \/ InTodo(Cmd(o, p))
        BY <3>1, <4>1 DEF CommandsInv, PoolsWhole
      <4>3. ~InTodo(Cmd(o, p))
        BY <1>3, <4>1, OneThing DEF c
      <4> QED
        BY <4>1, <4>2, <4>3
    <3> QED
      BY <3>1 DEF PoolsWhole
  <2>6. Ordered(play'.todo) /\ Remaining'
    BY <1>1, EmptyOrdered DEF Remaining
  <2> QED
    BY <2>4, <2>5, <2>6 DEF CommandsInv
<1> QED
  BY <1>2, <1>3

LEMMA TaskFailsWays ==
    ASSUME ClusterInv, TaskFails PROVE AllFail \/ Monitored
<1>1. Types /\ play \in PlaySet
  BY DEF ClusterInv, Types
<1>2. /\ hurt' = (IF AtTask("command") THEN hurt \cup {Head(play.todo).arg.x} ELSE hurt)
      /\ ceph' = ceph /\ want' = want /\ mon' = mon /\ play.todo # <<>>
  BY DEF TaskFails, Hurt
<1>3. ASSUME NEW step, At(step), NEW h \in play.left, HostFails(h) PROVE Monitored
  <2>1. Shortens /\ ~InCeph /\ ~AtTask("refetch")
    BY <1>1, <1>3, HostFailTodo, NotCeph
  <2>2. hurt' = hurt
    BY <1>2, <2>1 DEF InCeph
  <2> QED
    BY <1>2, <2>1, <2>2 DEF Monitored
<1>4. ASSUME AtTask("bootstrap") \/ AtTask("first"),
             play' = Pass([play EXCEPT !.alive = @ \ {First}])
      PROVE  Monitored
  <2>1. Shortens /\ ~InCeph /\ ~AtTask("refetch")
    BY <1>1, <1>4, PassTodo, NotCeph DEF Shortens, PlaySet
  <2>2. hurt' = hurt
    BY <1>2, <2>1 DEF InCeph
  <2> QED
    BY <1>2, <2>1, <2>2 DEF Monitored
<1> QED
  BY <1>3, <1>4 DEF TaskFails

LEMMA FailuresCommands ==
    ASSUME ClusterInv, CommandsInv, NoMonitor \/ TaskFails \/ AnswerLost PROVE CommandsInv'
<1>1. Types /\ Playing /\ play \in PlaySet
  BY DEF ClusterInv, Types
<1>2. CASE NoMonitor
  BY <1>1, <1>2, FailCommands DEF NoMonitor, Hurt
<1>3. CASE AnswerLost
  BY <1>1, <1>3, FailCommands DEF AnswerLost, Hurt
<1>4. CASE TaskFails
  <2>1. /\ hurt' = (IF AtTask("command") THEN hurt \cup {Head(play.todo).arg.x} ELSE hurt)
        /\ ceph' = ceph /\ want' = want /\ mon' = mon /\ play.todo # <<>>
    BY <1>4 DEF TaskFails, Hurt
  <2>2. CASE AllFail
    BY <1>1, <2>1, <2>2, FailCommands
  <2>3. CASE Monitored
    BY <2>3, CalmStep
  <2> QED
    BY <1>4, <2>2, <2>3, TaskFailsWays
<1> QED
  BY <1>2, <1>3, <1>4
-----------------------------------------------------------------------------
(* A module asks, and sends its commands.                                     *)

LEMMA AmongParts ==
    ASSUME NEW s \in Seq(TaskSet), s # <<>>, NEW c \in Seq(TaskSet), NEW t
    PROVE  /\ Among(t, s) => t = Head(s) \/ Among(t, Tail(s))
           /\ Among(t, c) => Among(t, c \o Tail(s))
           /\ Among(t, Tail(s)) => Among(t, c \o Tail(s))
<1> DEFINE u == Tail(s)
           d == c \o u
<1>1. /\ u \in Seq(TaskSet) /\ Len(u) = Len(s) - 1 /\ Len(s) \in Nat \ {0}
      /\ \A i \in 1 .. Len(u) : i + 1 \in 1 .. Len(s) /\ u[i] = s[i + 1]
      /\ DOMAIN u = 1 .. Len(u) /\ DOMAIN s = 1 .. Len(s) /\ Head(s) = s[1]
  OBVIOUS
<1> HIDE DEF u
<1>2. /\ Len(d) = Len(c) + Len(u) /\ Len(c) \in Nat /\ DOMAIN c = 1 .. Len(c)
      /\ DOMAIN d = 1 .. Len(d)
      /\ \A i \in 1 .. Len(c) : d[i] = c[i]
      /\ \A i \in 1 .. Len(u) : d[Len(c) + i] = u[i]
  <2>1. u \in Seq(TaskSet)
    BY <1>1
  <2>2. Len(d) = Len(c) + Len(u) /\ Len(c) \in Nat /\ DOMAIN c = 1 .. Len(c)
    BY <2>1
  <2>3. DOMAIN d = 1 .. Len(d)
    BY <2>1
  <2>4. \A i \in 1 .. Len(c) : d[i] = c[i]
    BY <2>1
  <2>5. \A i \in 1 .. Len(u) : d[Len(c) + i] = u[i]
    BY <2>1
  <2> QED
    BY <2>2, <2>3, <2>4, <2>5
<1> HIDE DEF d
<1>3. ASSUME Among(t, s), t # Head(s) PROVE Among(t, u)
  <2>1. PICK i \in 1 .. Len(s) : s[i] = t
    BY <1>1, <1>3 DEF Among
  <2>2. i # 1
    BY <1>1, <1>3, <2>1
  <2>3. i - 1 \in 1 .. Len(u) /\ (i - 1) + 1 = i
    BY <1>1, <2>1, <2>2
  <2>4. u[i - 1] = t
    BY <1>1, <2>1, <2>3
  <2> QED
    BY <1>1, <2>3, <2>4 DEF Among
<1>4. ASSUME Among(t, c) PROVE Among(t, d)
  <2>1. PICK i \in 1 .. Len(c) : c[i] = t
    BY <1>2, <1>4 DEF Among
  <2>2. i \in 1 .. Len(d) /\ d[i] = t
    BY <1>1, <1>2, <2>1
  <2> QED
    BY <1>2, <2>2 DEF Among
<1>5. ASSUME Among(t, u) PROVE Among(t, d)
  <2>1. PICK i \in 1 .. Len(u) : u[i] = t
    BY <1>1, <1>5 DEF Among
  <2>2. Len(c) + i \in 1 .. Len(d) /\ d[Len(c) + i] = t
    BY <1>1, <1>2, <2>1
  <2> QED
    BY <1>2, <2>2 DEF Among
<1> QED
  BY <1>3, <1>4, <1>5 DEF d, u

LEMMA AskOrder ==
    ASSUME Types, Playing, CommandsInv, Ask
    PROVE  /\ Ordered(play'.todo) /\ Quietened(play.todo)
           /\ AtTask("command")' => Head(play'.todo).arg.op # "set_device_class"
           /\ \A t : InTodo(t) => t = Head(play.todo) \/ InTodo(t)'
           /\ \A t : Among(t, Plan(Head(play.todo))) => InTodo(t)'
<1> DEFINE t == Head(play.todo)
           c == Plan(t)
           u == Tail(play.todo)
<1>1. /\ play.todo # <<>> /\ t \in AskSet /\ play'.todo = c \o u
      /\ play.todo \in Seq(TaskSet) /\ Ordered(play.todo)
  BY AskFacts DEF Types, PlaySet, CommandsInv
<1>2. t.task # "command"
  BY <1>1 DEF AskSet
<1>3. Quietened(play.todo) /\ u \in Seq(TaskSet)
  BY <1>1, <1>2, NoCommands DEF IsCommand
<1>4. Quietened(u)
  <2>1. /\ Len(u) = Len(play.todo) - 1 /\ Len(play.todo) \in Nat \ {0}
        /\ \A i \in 1 .. Len(u) : i + 1 \in 1 .. Len(play.todo) /\ u[i] = play.todo[i + 1]
    BY <1>1
  <2> QED
    BY <1>3, <2>1 DEF Quietened
<1>5. /\ c \in Seq(CommandTasks) /\ Ordered(c)
      /\ c # <<>> => c[1].arg.op # "set_device_class"
  BY <1>1, PlanTyped, PlanMeans
<1>6. c \in Seq(TaskSet)
  <2>1. CommandTasks \subseteq TaskSet
    BY DEF CommandTasks, TaskSet
  <2> HIDE DEF c
  <2> QED
    BY <1>5, <2>1, SeqMonotonic
<1>7. /\ \A x : InTodo(x) => x = t \/ InTodo(x)'
      /\ \A x : Among(x, c) => InTodo(x)'
  BY <1>1, <1>6, AmongParts DEF InTodo
<1> HIDE DEF c, u, t
<1>8. Ordered(play'.todo)
  BY <1>1, <1>3, <1>4, <1>5, OrderedBefore
<1>9. AtTask("command")' => Head(play'.todo).arg.op # "set_device_class"
  <2>1. CASE c = <<>>
    <3>1. play'.todo = u
      BY <1>1, <1>3, <2>1
    <3>2. ~AtTask("command")'
      BY <1>3, <1>4, <3>1, QuietHead DEF AtTask
    <3> QED
      BY <3>2
  <2>2. CASE c # <<>>
    <3>1. Head(play'.todo) = c[1]
      BY <1>1, <1>3, <1>6, <2>2
    <3> QED
      BY <1>5, <2>2, <3>1
  <2> QED
    BY <2>1, <2>2
<1> QED
  BY <1>3, <1>7, <1>8, <1>9 DEF c, t

LEMMA AskCommands ==
    ASSUME ClusterInv, CommandsInv, Ask PROVE CommandsInv'
<1> DEFINE t == Head(play.todo)
<1>1. /\ Types /\ Playing /\ Volumes /\ want' = want /\ ceph' = ceph /\ hurt' = hurt
      /\ mon' = mon
  BY DEF ClusterInv, Ask, history
<1>2. /\ Ordered(play'.todo) /\ Quietened(play.todo)
      /\ AtTask("command")' => Head(play'.todo).arg.op # "set_device_class"
      /\ \A x : InTodo(x) => x = t \/ InTodo(x)'
      /\ \A x : Among(x, Plan(t)) => InTodo(x)'
  BY <1>1, AskOrder
<1>3. t \in AskSet /\ play.todo # <<>> /\ play.result = "running"
  BY <1>1, AskFacts DEF Playing
<1>4. /\ \A op, x : ~InTodo(Cmd(op, x))
      /\ \A op, x : play.todo # <<>> => t # Cmd(op, x)
  BY <1>1, <1>2, QuietAll DEF Types, PlaySet
<1>5. Classes'
  BY <1>1, <1>2, <1>4 DEF CommandsInv, Classes
<1>6. PoolsWhole'
  <2>1. \A p \in Pools \ hurt : "created" \in ceph.pools[p] =>
            \A o \in Asked(p) : o \in ceph.pools[p]
    BY <1>4 DEF CommandsInv, PoolsWhole
  <2> QED
    BY <1>1, <2>1 DEF PoolsWhole
<1>7. ASSUME NEW x, x = t.arg
      PROVE  /\ t.task = "keyring" => \/ ceph.caps[x] = want.caps
                                      \/ InTodo(Cmd("get_or_create", x))'
                                      \/ InTodo(Cmd("caps", x))'
             /\ t.task = "class" => \/ ceph.class[x] = want.class
                                    \/ InTodo(Cmd("set_device_class", x))'
             /\ t.task = "pool" /\ (Pool[x].rule \/ Pool[x].erasure) =>
                    "created" \in ceph.pools[x] \/ InTodo(Cmd("created", x))'
             /\ t.task = "fs" => ceph.fs \/ InTodo(Cmd("fs_new", "cephfs"))'
  <2> HIDE DEF t
  <2> QED
    BY <1>2, <1>3, <1>7, PlanMeans
<1>8. KeyThere
  <2>1. Serves(play.available) /\ play.available \in Range(want.mons) \cup {None}
    BY <1>1 DEF Ask, Playing
  <2>2. mon[play.available].key # 0 /\ play.available \in Range(want.mons)
    BY <1>1, <2>1, Assumed DEF Serves, Volumes
  <2> QED
    BY <2>2 DEF KeyThere
<1>9. /\ \A e \in Keyrings : KeyringLeft(e)
      /\ \A o \in Range(Osds) : ClassLeft(o)
      /\ \A p \in Pools : Pool[p].rule \/ Pool[p].erasure => PoolLeft(p)
      /\ FsLeft
  BY <1>3 DEF CommandsInv, Remaining
<1>10. \A k, x : Task(k, x) = t => t.task = k /\ t.arg = x
  BY DEF Task
<1> HIDE DEF t
<1>11. \A e \in Keyrings : KeyringLeft(e)'
  BY <1>1, <1>2, <1>4, <1>7, <1>9, <1>10 DEF KeyringLeft
<1>12. \A o \in Range(Osds) : ClassLeft(o)'
  BY <1>1, <1>2, <1>4, <1>7, <1>9, <1>10 DEF ClassLeft
<1>13. \A p \in Pools : Pool[p].rule \/ Pool[p].erasure => PoolLeft(p)'
  BY <1>1, <1>2, <1>4, <1>7, <1>9, <1>10 DEF PoolLeft
<1>14. FsLeft' /\ KeysLeft'
  BY <1>1, <1>2, <1>4, <1>7, <1>8, <1>9, <1>10 DEF FsLeft, KeysLeft, KeyThere
<1> QED
  BY <1>2, <1>5, <1>6, <1>11, <1>12, <1>13, <1>14 DEF CommandsInv, Remaining
LEMMA RefusedCommands ==
    ASSUME ClusterInv, CommandsInv, AtTask("command"), Refused(Head(play.todo).arg),
           AllFail, want' = want, ceph' = ceph, hurt' = hurt
    PROVE  CommandsInv'
<1> DEFINE c == Head(play.todo).arg
<1>1. Types /\ play \in PlaySet /\ play'.todo = <<>> /\ play'.result = "failed"
  BY AllFailTodo DEF ClusterInv, Types
<1>2. c.op \in {"fs_new", "unset_limit"}
  BY DEF Refused, CommandsInv, Classes
<1>3. c.op \in LastOps /\ c.op # "set_device_class"
  BY <1>2 DEF LastOps
<1>4. \A p \in Pools : \A o \in Asked(p) : o \notin {"fs_new", "unset_limit"}
  BY DEF Asked
<1> HIDE DEF c
<1>5. Classes'
  <2>1. ~AtTask("command")'
    BY <1>1 DEF AtTask
  <2>2. \A o \in Range(Osds) \ hurt : ceph.class[o] # "none"
    <3>1. \A o : Head(play.todo) # Cmd("set_device_class", o)
      BY <1>3, CommandFields DEF c
    <3> QED
      BY <3>1 DEF CommandsInv, Classes
  <2> QED
    BY <2>1, <2>2 DEF Classes
<1>6. PoolsWhole'
  <2>1. ASSUME NEW p \in Pools \ hurt, "created" \in ceph.pools[p], NEW o \in Asked(p)
        PROVE  o \in ceph.pools[p]
    <3>1. o \in ceph.pools[p] \/ InTodo(Cmd(o, p))
      BY <2>1 DEF CommandsInv, PoolsWhole
    <3>2. Head(play.todo) # Cmd(o, p)
      BY <1>2, <1>4, CommandFields DEF c
    <3>3. ~InTodo(Cmd(o, p))
      BY <1>1, <1>3, <3>2, OneThing DEF c
    <3> QED
      BY <3>1, <3>3
  <2> QED
    BY <2>1 DEF PoolsWhole
<1>7. Ordered(play'.todo) /\ Remaining'
  BY <1>1, EmptyOrdered DEF Remaining
<1> QED
  BY <1>5, <1>6, <1>7 DEF CommandsInv

LEMMA SentCommands ==
    ASSUME ClusterInv, CommandsInv, AtTask("command"), play' = Pass(play),
           NEW s, s = play.todo, NEW c, c = Head(s).arg,
           ceph' = Applied(c), want' = want, hurt' = hurt, mon' = mon
    PROVE  CommandsInv'
<1>1. Types /\ play \in PlaySet /\ s \in Seq(TaskSet) /\ s # <<>> /\ play'.todo = Tail(s)
      /\ play.result = "running" /\ Ordered(s) /\ Head(s).task = "command"
  BY PassTodo DEF ClusterInv, Types, PlaySet, AtTask, Playing, CommandsInv
<1>2. /\ c \in CommandSet /\ Changed(c) /\ want.class \in {"ssd", "nvme"}
      /\ Head(s) = Cmd(c.op, c.x)
  <2>1. c \in CommandSet /\ Head(s) \in CommandTasks
    BY <1>1, CommandFacts
  <2>2. Head(s) = Cmd(c.op, c.x)
    <3>1. c = [op |-> c.op, x |-> c.x]
      BY <2>1 DEF CommandSet
    <3> QED
      BY <2>1, <3>1 DEF CommandTasks, Cmd
  <2> QED
    BY <1>1, <2>1, <2>2, AppliedMeans DEF Types
<1>3. /\ \A e \in Keyrings : ceph'.caps[e] =
             IF c.op \in {"get_or_create", "caps"} /\ e = c.x THEN want.caps ELSE ceph.caps[e]
      /\ \A o \in Range(Osds) : ceph'.class[o] =
             IF c.op = "rm_device_class" /\ o = c.x THEN "none"
             ELSE IF c.op = "set_device_class" /\ o = c.x THEN want.class ELSE ceph.class[o]
      /\ \A p \in Pools : ceph'.pools[p] =
             IF c.op \in Settings /\ p = c.x THEN ceph.pools[p] \cup {c.op} ELSE ceph.pools[p]
      /\ ceph'.fs <=> ceph.fs \/ c.op = "fs_new"
  BY <1>2 DEF Changed
<1>4. /\ \A t : InTodo(t) => t = Cmd(c.op, c.x) \/ InTodo(t)'
  <2>1. <<>> \in Seq(TaskSet) /\ <<>> \o Tail(s) = Tail(s)
    BY <1>1
  <2>2. \A t : Among(t, s) => t = Head(s) \/ Among(t, Tail(s))
    BY <1>1, <2>1, AmongParts
  <2> QED
    BY <1>1, <1>2, <2>2 DEF InTodo
<1>5. Ordered(Tail(s))
  BY <1>1, OrderedTail
<1>6. /\ s \in Seq(TaskSet) /\ Head(s) = s[1] /\ Len(s) \in Nat \ {0}
      /\ Len(s) > 1 => Tail(s) # <<>> /\ Head(Tail(s)) = s[2]
      /\ Tail(s) # <<>> => Len(s) > 1
      /\ IsCommand(s[1]) /\ s[1].arg = c
  <2>1. /\ Len(Tail(s)) = Len(s) - 1 /\ Len(s) \in Nat \ {0} /\ Head(s) = s[1]
        /\ Tail(s) \in Seq(TaskSet)
    BY <1>1
  <2>2. Len(s) > 1 => Tail(s) # <<>> /\ Head(Tail(s)) = s[2]
    <3>1. Len(s) > 1 => Len(Tail(s)) >= 1 /\ 1 \in 1 .. Len(Tail(s))
      BY <2>1
    <3>2. Len(s) > 1 => Tail(s)[1] = s[2]
      BY <1>1, <2>1, <3>1
    <3>3. Len(s) > 1 => Head(Tail(s)) = Tail(s)[1]
      BY <2>1, <3>1
    <3>4. Len(s) > 1 => Tail(s) # <<>>
      <4>1. s \in Seq(TaskSet) /\ s # <<>>
        BY <1>1
      <4>2. (Tail(s) = <<>>) <=> (Len(s) = 1)
        BY <4>1, TodoTail
      <4>3. \A n \in Nat : n > 1 => n # 1
        OBVIOUS
      <4>4. Len(s) \in Nat
        BY <2>1
      <4> QED
        BY <4>2, <4>3, <4>4
    <3> QED
      BY <3>2, <3>3, <3>4
  <2>3. Tail(s) # <<>> => Len(s) > 1
    BY <1>1, <2>1
  <2> QED
    BY <1>1, <2>1, <2>2, <2>3 DEF IsCommand
<1>7. /\ c.op = "rm_device_class" =>
             Tail(s) # <<>> /\ Head(Tail(s)) = Cmd("set_device_class", c.x)
      /\ Tail(s) # <<>> /\ Head(Tail(s)).task = "command"
             /\ Head(Tail(s)).arg.op = "set_device_class" =>
                    c = Cmd("rm_device_class", Head(Tail(s)).arg.x).arg
  <2>1. Removed(s) /\ SetAfter(s)
    BY <1>1 DEF Ordered
  <2>2. ASSUME c.op = "rm_device_class"
        PROVE  Tail(s) # <<>> /\ Head(Tail(s)) = Cmd("set_device_class", c.x)
    <3>1. 1 \in 1 .. Len(s)
      BY <1>6
    <3>2. 1 < Len(s) /\ s[1 + 1] = Cmd("set_device_class", c.x)
      BY <1>6, <2>1, <2>2, <3>1 DEF Removed
    <3> QED
      BY <1>6, <3>2
  <2>3. ASSUME Tail(s) # <<>>, Head(Tail(s)).task = "command",
               Head(Tail(s)).arg.op = "set_device_class"
        PROVE  c = Cmd("rm_device_class", Head(Tail(s)).arg.x).arg
    <3>1. 2 \in 2 .. Len(s) /\ Head(Tail(s)) = s[2] /\ 2 - 1 = 1
      BY <1>6, <2>3
    <3>2. s[2 - 1] = Cmd("rm_device_class", s[2].arg.x)
      BY <2>1, <2>3, <3>1 DEF SetAfter, IsCommand
    <3> QED
      BY <1>6, <3>1, <3>2
  <2> QED
    BY <2>2, <2>3
<1>8. c.op = "created" => \A o \in Asked(c.x) \ {"created"} : Among(Cmd(o, c.x), Tail(s))
  <2> SUFFICES ASSUME c.op = "created", NEW o \in Asked(c.x) \ {"created"}
      PROVE  Among(Cmd(o, c.x), Tail(s))
    OBVIOUS
  <2>1. Completed(s) /\ 1 \in 1 .. Len(s)
    BY <1>1, <1>6 DEF Ordered
  <2>2. IsCommand(s[1]) /\ s[1].arg.op = "created" =>
            \A k \in Asked(s[1].arg.x) \ {"created"} :
                \E j \in 1 .. Len(s) : j > 1 /\ s[j] = Cmd(k, s[1].arg.x)
    BY <2>1 DEF Completed
  <2>4. PICK j \in 1 .. Len(s) : j > 1 /\ s[j] = Cmd(o, c.x)
    BY <1>6, <2>2
  <2>3. j - 1 \in DOMAIN Tail(s) /\ Tail(s)[j - 1] = s[j]
    BY <1>1, <1>6, <2>4
  <2> QED
    BY <2>3, <2>4 DEF Among
<1>9. Classes'
  <2>1. ASSUME NEW o \in Range(Osds) \ hurt, ceph'.class[o] = "none"
        PROVE  play'.todo # <<>> /\ Head(play'.todo) = Cmd("set_device_class", o)
    <3>1. CASE c.op = "rm_device_class" /\ o = c.x
      BY <1>1, <1>7, <3>1
    <3>2. CASE c.op # "rm_device_class" \/ o # c.x
      <4>1. ceph.class[o] = "none" /\ ~(c.op = "set_device_class" /\ o = c.x)
        BY <1>2, <1>3, <2>1, <3>2
      <4>2. Head(s) = Cmd("set_device_class", o)
        BY <2>1, <4>1 DEF CommandsInv, Classes
      <4> QED
        BY <4>1, <4>2, CommandFields
    <3> QED
      BY <3>1, <3>2
  <2>2. ASSUME Tail(s) # <<>>, Head(Tail(s)).task = "command",
               Head(Tail(s)).arg.op = "set_device_class"
        PROVE  ceph'.class[Head(Tail(s)).arg.x] = "none"
    <3>1. c.op = "rm_device_class" /\ c.x = Head(Tail(s)).arg.x
      BY <1>7, <2>2, CommandFields
    <3>2. c.x \in Range(Osds)
      BY <1>2, <3>1 DEF CommandSet, PoolOps, Settings
    <3> QED
      BY <1>3, <3>1, <3>2
  <2> QED
    BY <1>1, <2>1, <2>2 DEF Classes, AtTask
<1>9a. \A p \in Pools : \A o : o \in ceph'.pools[p] <=>
           o \in ceph.pools[p] \/ (c.op \in Settings /\ p = c.x /\ o = c.op)
  <2> SUFFICES ASSUME NEW p \in Pools, NEW o
      PROVE  o \in ceph'.pools[p] <=>
                 o \in ceph.pools[p] \/ (c.op \in Settings /\ p = c.x /\ o = c.op)
    OBVIOUS
  <2>1. c.op \in Settings /\ p = c.x => ceph'.pools[p] = ceph.pools[p] \cup {c.op}
    BY <1>3
  <2>2. ~(c.op \in Settings /\ p = c.x) => ceph'.pools[p] = ceph.pools[p]
    BY <1>3
  <2> QED
    BY <2>1, <2>2, Zenon
<1>10. PoolsWhole'
  <2> SUFFICES ASSUME NEW p \in Pools \ hurt, "created" \in ceph'.pools[p], NEW o \in Asked(p)
      PROVE  o \in ceph'.pools[p] \/ InTodo(Cmd(o, p))'
    BY DEF PoolsWhole
  <2>1. Asked(p) \subseteq Settings
    BY DEF Asked, Settings
  <2>2. CASE "created" \in ceph.pools[p]
    <3>1. o \in ceph.pools[p] \/ InTodo(Cmd(o, p))
      BY <2>2 DEF CommandsInv, PoolsWhole
    <3>2. Cmd(o, p) = Cmd(c.op, c.x) => o \in ceph'.pools[p]
      <4>1. Cmd(o, p) = Cmd(c.op, c.x) => o = c.op /\ p = c.x
        BY CommandFields
      <4> QED
        BY <1>9a, <2>1, <4>1
    <3>3. o \in ceph.pools[p] => o \in ceph'.pools[p]
      BY <1>9a
    <3> QED
      BY <1>4, <3>1, <3>2, <3>3
  <2>3. CASE "created" \notin ceph.pools[p]
    <3>1. c.op = "created" /\ p = c.x
      BY <1>9a, <2>3
    <3>2. o = "created" => o \in ceph'.pools[p]
      OBVIOUS
    <3>3. \A k : Among(Cmd(k, p), Tail(s)) => InTodo(Cmd(k, p))'
      BY <1>1 DEF InTodo
    <3> QED
      BY <1>8, <3>1, <3>2, <3>3
  <2> QED
    BY <2>2, <2>3
<1>11. /\ \A e \in Keyrings : KeyringLeft(e)
       /\ \A o \in Range(Osds) : ClassLeft(o)
       /\ \A p \in Pools : Pool[p].rule \/ Pool[p].erasure => PoolLeft(p)
       /\ FsLeft /\ KeysLeft
  BY <1>1 DEF CommandsInv, Remaining
<1>12. \A k, x : Task(k, x) = Cmd(c.op, c.x) => k = "command"
  BY DEF Task, Cmd
<1>13. \A op, x : Cmd(op, x) = Cmd(c.op, c.x) => op = c.op /\ x = c.x
  BY CommandFields
<1>14. \A e \in Keyrings : KeyringLeft(e)'
  BY <1>3, <1>4, <1>11, <1>12, <1>13 DEF KeyringLeft
<1>15. \A o \in Range(Osds) : ClassLeft(o)'
  <2> SUFFICES ASSUME NEW o \in Range(Osds) PROVE ClassLeft(o)'
    OBVIOUS
  <2>1. CASE c.op = "rm_device_class" /\ o = c.x
    <3>1. Among(Cmd("set_device_class", o), Tail(s))
      <4>1. Tail(s) \in Seq(TaskSet) /\ Tail(s) # <<>>
            /\ Head(Tail(s)) = Cmd("set_device_class", o)
        BY <1>1, <1>7, <2>1
      <4>2. 1 \in DOMAIN Tail(s) /\ Tail(s)[1] = Head(Tail(s))
        BY <4>1
      <4> QED
        BY <4>1, <4>2 DEF Among
    <3> QED
      BY <1>1, <3>1 DEF ClassLeft, InTodo
  <2>2. CASE c.op # "rm_device_class" \/ o # c.x
    BY <1>3, <1>4, <1>11, <1>12, <1>13, <2>2 DEF ClassLeft
  <2> QED
    BY <2>1, <2>2
<1>16. \A p \in Pools : Pool[p].rule \/ Pool[p].erasure => PoolLeft(p)'
  <2>1. "created" \in Settings
    BY DEF Settings
  <2> QED
    BY <1>4, <1>11, <1>12, <1>13, <1>9a, <2>1 DEF PoolLeft
<1>17. FsLeft' /\ KeysLeft'
  BY <1>3, <1>4, <1>11, <1>12, <1>13 DEF FsLeft, KeysLeft
<1> QED
  BY <1>1, <1>5, <1>9, <1>10, <1>14, <1>15, <1>16, <1>17 DEF CommandsInv, Remaining

LEMMA CommandCommands ==
    ASSUME ClusterInv, CommandsInv, Command PROVE CommandsInv'
<1>1. /\ AtTask("command") /\ want' = want /\ hurt' = hurt /\ mon' = mon
  BY DEF Command, history
<1>2. CASE Refused(Head(play.todo).arg)
  BY <1>1, <1>2, RefusedCommands DEF Command
<1>3. CASE ~Refused(Head(play.todo).arg)
  BY <1>1, <1>3, SentCommands DEF Command
<1> QED
  BY <1>2, <1>3
-----------------------------------------------------------------------------
(* The invariant, and what it says of a deploy that ends well.                 *)

LEMMA StartCommands == ASSUME Init PROVE CommandsInv
<1>1. /\ play.todo = <<>> /\ play.result = "none"
      /\ \A o \in Range(Osds) : ceph.class[o] = "hdd"
      /\ \A p \in Pools : ceph.pools[p] = {}
  BY DEF Init, Idle
<1>2. Ordered(play.todo) /\ ~AtTask("command")
  BY <1>1, EmptyOrdered DEF AtTask
<1> QED
  BY <1>1, <1>2 DEF CommandsInv, Classes, PoolsWhole, Remaining

LEMMA CommandsStep ==
    ASSUME ClusterInv, CommandsInv, [Next]_vars PROVE CommandsInv'
<1>1. CASE Next
  BY <1>1, StartPlayCommands, MonitorsCommands, AskCommands, CommandCommands,
     FailuresCommands, EditCommands, MonitorCommands DEF Next
<1>2. CASE UNCHANGED vars
  <2>1. /\ want' = want /\ mon' = mon /\ ceph' = ceph /\ play' = play /\ hurt' = hurt
    BY <1>2 DEF vars, history
  <2>2. /\ \A t : InTodo(t)' <=> InTodo(t)
        /\ \A name : AtTask(name)' <=> AtTask(name)
    BY <2>1 DEF InTodo, AtTask
  <2>3. Classes' /\ PoolsWhole' /\ Ordered(play'.todo)
    BY <2>1, <2>2 DEF CommandsInv, Classes, PoolsWhole
  <2>4. Remaining'
    BY <2>1, <2>2 DEF CommandsInv, Remaining, KeyringLeft, ClassLeft, PoolLeft, FsLeft, KeysLeft
  <2> QED
    BY <2>3, <2>4 DEF CommandsInv
<1> QED
  BY <1>1, <1>2

(* The invariant of the commands holds in every state of every execution.      *)
THEOREM DeployInvariance == Spec => []DeployInv
<1>1. Init => DeployInv
  BY StartCluster, StartCommands DEF DeployInv
<1>2. DeployInv /\ [Next]_vars => DeployInv'
  BY ClusterStep, CommandsStep DEF DeployInv
<1> QED
  BY <1>1, <1>2, PTL DEF Spec

(* A play that ended has nothing left to do.                                   *)
LEMMA EndedWell ==
    ASSUME DeployInv, play.result = "ok"
    PROVE  /\ play.todo = <<>> /\ \A t : ~InTodo(t)
           /\ \A e \in Keyrings : ceph.caps[e] = want.caps
           /\ \A o \in Range(Osds) : ceph.class[o] = want.class
           /\ \A p \in Pools : Pool[p].rule \/ Pool[p].erasure => "created" \in ceph.pools[p]
           /\ ceph.fs /\ KeyThere
<1>1. play.todo = <<>>
  BY DEF DeployInv, ClusterInv, Playing
<1>2. \A t : ~InTodo(t)
  BY <1>1 DEF InTodo, Among
<1> QED
  BY <1>1, <1>2 DEF DeployInv, CommandsInv, Remaining, KeyringLeft, ClassLeft, PoolLeft,
                    FsLeft, KeysLeft, KeyThere

-----------------------------------------------------------------------------
(* The include finds client.admin with its caps, and the key of a monitor.      *)

OfAdmin(t) ==
    t = Admin \/ (IsCommand(t) /\ t.arg.x = "client.admin" /\ t.arg.op \in {"get_or_create", "caps"})
AfterAdmin(s) == \A i \in 2 .. Len(s) : s[i].task = "refetch" => OfAdmin(s[i - 1])
AdminInv ==
    /\ AfterAdmin(play.todo)
    /\ AtTask("refetch") => KeyThere /\ ceph.caps["client.admin"] = want.caps

LEMMA AfterTail ==
    ASSUME NEW s \in Seq(TaskSet), s # <<>>, AfterAdmin(s)
    PROVE  /\ AfterAdmin(Tail(s))
           /\ Tail(s) # <<>> /\ Head(Tail(s)).task = "refetch" => OfAdmin(Head(s))
<1> DEFINE u == Tail(s)
<1>1. /\ u \in Seq(TaskSet) /\ Len(u) = Len(s) - 1 /\ Len(s) \in Nat \ {0}
      /\ \A i \in 1 .. Len(u) : i + 1 \in 2 .. Len(s) /\ u[i] = s[i + 1]
      /\ Head(s) = s[1] /\ u # <<>> => Head(u) = u[1] /\ Len(u) >= 1
  BY TodoTail
<1> HIDE DEF u
<1>2. ASSUME NEW i \in 2 .. Len(u), u[i].task = "refetch" PROVE OfAdmin(u[i - 1])
  <2>1. i \in 1 .. Len(u) /\ i - 1 \in 1 .. Len(u) /\ i + 1 \in 2 .. Len(s)
    BY <1>1
  <2>2. u[i] = s[i + 1] /\ u[i - 1] = s[(i - 1) + 1] /\ (i - 1) + 1 = i /\ (i + 1) - 1 = i
    BY <1>1, <2>1
  <2> QED
    BY <1>2, <2>1, <2>2 DEF AfterAdmin
<1>3. u # <<>> /\ Head(u).task = "refetch" => OfAdmin(Head(s))
  BY <1>1 DEF AfterAdmin
<1> QED
  BY <1>2, <1>3 DEF AfterAdmin, u

(* What takes the place of the head keeps the order.                           *)
LEMMA AfterBefore ==
    ASSUME NEW s \in Seq(TaskSet), s # <<>>, AfterAdmin(s), NEW c \in Seq(TaskSet),
           \A i \in 1 .. Len(c) : c[i].task # "refetch",
           c # <<>> /\ OfAdmin(Head(s)) => OfAdmin(c[Len(c)])
    PROVE  AfterAdmin(c \o Tail(s))
<1> DEFINE u == Tail(s)
           d == c \o u
<1>1. /\ u \in Seq(TaskSet) /\ Len(u) \in Nat /\ Len(c) \in Nat
      /\ u # <<>> => Head(u) = u[1] /\ Len(u) >= 1
  BY TodoTail
<1>2. AfterAdmin(u) /\ (u # <<>> /\ Head(u).task = "refetch" => OfAdmin(Head(s)))
  BY AfterTail
<1> HIDE DEF u
<1>3. /\ Len(d) = Len(c) + Len(u)
      /\ \A i \in 1 .. Len(c) : d[i] = c[i]
      /\ \A i \in 1 .. Len(u) : d[Len(c) + i] = u[i]
  BY <1>1
<1> HIDE DEF d
<1>4. ASSUME NEW i \in 2 .. Len(d), d[i].task = "refetch" PROVE OfAdmin(d[i - 1])
  <2>1. i > Len(c)
    BY <1>1, <1>3, <1>4
  <2>2. CASE i = Len(c) + 1
    <3>1. 1 \in 1 .. Len(u) /\ d[i] = u[1] /\ u # <<>>
      BY <1>1, <1>3, <2>2
    <3>2. OfAdmin(Head(s))
      BY <1>1, <1>2, <1>4, <3>1
    <3>3. Len(c) \in 1 .. Len(c) /\ i - 1 = Len(c) /\ c # <<>>
      BY <1>1, <2>2
    <3>4. d[i - 1] = c[Len(c)]
      BY <1>3, <3>3
    <3>5. OfAdmin(c[Len(c)])
      BY <3>2, <3>3
    <3> QED
      BY <3>4, <3>5
  <2>3. CASE i > Len(c) + 1
    <3> DEFINE j == i - Len(c)
    <3>1. j \in 2 .. Len(u) /\ j - 1 \in 1 .. Len(u) /\ j \in 1 .. Len(u)
          /\ Len(c) + j = i /\ Len(c) + (j - 1) = i - 1
      <4>1. Len(d) = Len(c) + Len(u) /\ Len(c) \in Nat /\ Len(u) \in Nat /\ i \in 2 .. Len(d)
        BY <1>1, <1>3, <1>4
      <4> QED
        BY <4>1, <2>3
    <3>2. d[i] = u[j] /\ d[i - 1] = u[j - 1]
      BY <1>3, <3>1
    <3> QED
      BY <1>2, <1>4, <3>1, <3>2 DEF AfterAdmin
  <2> QED
    BY <1>1, <2>1, <2>2, <2>3
<1> QED
  BY <1>4 DEF AfterAdmin, d, u

LEMMA StartAdmin == ASSUME Init PROVE AdminInv
<1>1. play.todo = <<>>
  BY DEF Init, Idle
<1> QED
  BY <1>1 DEF AdminInv, AfterAdmin, AtTask

(* Where the monitors' tasks and the include itself lead.                       *)
LEMMA ShortensAdmin ==
    ASSUME Types, AdminInv, Monitored PROVE AdminInv'
<1> DEFINE s == play.todo
<1>1. s \in Seq(TaskSet) /\ s # <<>> /\ AfterAdmin(s) /\ ~OfAdmin(Head(s))
  BY DEF Types, PlaySet, AdminInv, OfAdmin, InCeph, AtTask, IsCommand, Admin, Task, Monitored
<1> HIDE DEF s
<1>2. CASE play'.todo = s
  BY <1>1, <1>2 DEF AdminInv, AtTask, s, Monitored
<1>3. CASE play'.todo = Tail(s)
  BY <1>1, <1>3, AfterTail DEF AdminInv, AtTask
<1>4. ASSUME NEW c \in TaskSet, c.task # "refetch", play'.todo = <<c>> \o Tail(s)
      PROVE  AdminInv'
  <2>1. c.task # "refetch"
    BY <1>4
  <2> DEFINE e == <<c>>
  <2>2. e \in Seq(TaskSet) /\ Len(e) = 1 /\ e[1] = c
    OBVIOUS
  <2>5. play'.todo = e \o Tail(s)
    BY <1>4
  <2> HIDE DEF e
  <2>6. \A i \in 1 .. Len(e) : e[i].task # "refetch"
    BY <2>1, <2>2
  <2>3. AfterAdmin(play'.todo)
    BY <1>1, <2>2, <2>5, <2>6, AfterBefore
  <2>4. play'.todo # <<>> /\ Head(play'.todo) = c
    BY <1>1, <1>4, TodoTail
  <2> QED
    BY <2>1, <2>3, <2>4 DEF AdminInv, AtTask
<1>5. CASE play'.todo = <<>>
  BY <1>5 DEF AdminInv, AfterAdmin, AtTask
<1> QED
  BY <1>2, <1>3, <1>4, <1>5 DEF Shortens, Monitored, s

(* A play begins with client.admin right before the include.                   *)
LEMMA StartPlayAdmin ==
    ASSUME Types, StartPlay PROVE AdminInv'
<1> DEFINE s == DeployTasks
<1>1. Once(s) /\ play'.todo = s
  BY DeployedOnce DEF StartPlay, Idle
<1> HIDE DEF s
<1>2. AfterAdmin(s)
  <2> SUFFICES ASSUME NEW i \in 2 .. Len(s), s[i].task = "refetch" PROVE OfAdmin(s[i - 1])
    BY DEF AfterAdmin
  <2>1. i \in 1 .. Len(s) /\ i = 10
    BY <1>1 DEF Once
  <2> QED
    BY <1>1, <2>1 DEF Once, OfAdmin
<1>3. Head(s).task # "refetch"
  <2>1. Head(s) = s[1] /\ 1 \in 1 .. Len(s)
    BY <1>1 DEF Once
  <2> QED
    BY <1>1, <2>1 DEF Once
<1> QED
  BY <1>1, <1>2, <1>3 DEF AdminInv, AtTask

(* Whose monitor answers, has been made.                                       *)
LEMMA ServesKey ==
    ASSUME Types, Playing, Volumes, Serves(play.available) PROVE KeyThere
<1>1. play.available \in Range(want.mons) \cup {None}
  BY DEF Playing
<1>2. mon[play.available].key # 0 /\ play.available \in Range(want.mons)
  BY <1>1, Assumed DEF Serves, Volumes
<1> QED
  BY <1>2 DEF KeyThere

(* What the plan for a keyring is: nothing, or one command for it.              *)
LEMMA KeyringPlan ==
    ASSUME NEW e
    PROVE  \/ EnsureKeyring(e) = <<>> /\ ceph.caps[e] = want.caps
           \/ \E op \in {"get_or_create", "caps"} : EnsureKeyring(e) = <<Cmd(op, e)>>
BY DEF EnsureKeyring

LEMMA AskAdmin ==
    ASSUME ClusterInv, AdminInv, Ask PROVE AdminInv'
<1> DEFINE s == play.todo
           t == Head(s)
           c == Plan(t)
           u == Tail(s)
<1>1. /\ Types /\ Playing /\ Volumes /\ want' = want /\ ceph' = ceph /\ mon' = mon
      /\ Serves(play.available)
  BY DEF ClusterInv, Ask
<1>2. /\ s # <<>> /\ t \in AskSet /\ play'.todo = c \o u /\ s \in Seq(TaskSet)
      /\ AfterAdmin(s)
  BY <1>1, AskFacts DEF Types, PlaySet, AdminInv
<1>3. c \in Seq(CommandTasks)
  BY <1>2, PlanTyped
<1>4. OfAdmin(t) => \/ c = <<>> /\ ceph.caps["client.admin"] = want.caps
                    \/ \E op \in {"get_or_create", "caps"} : c = <<Cmd(op, "client.admin")>>
  <2>1. OfAdmin(t) => t.task = "keyring" /\ t.arg = "client.admin"
    BY <1>2 DEF OfAdmin, AskSet, IsCommand, Admin, Task
  <2>2. t.task = "keyring" => c = EnsureKeyring(t.arg)
    BY DEF Plan
  <2> QED
    BY <2>1, <2>2, KeyringPlan
<1> HIDE DEF c, t, u, s
<1>5. c \in Seq(TaskSet) /\ \A i \in 1 .. Len(c) : c[i].task = "command"
  <2>1. CommandTasks \subseteq TaskSet /\ \A x \in CommandTasks : x.task = "command"
    BY DEF CommandTasks, TaskSet
  <2>2. \A i \in 1 .. Len(c) : c[i] \in CommandTasks
    BY <1>3
  <2> QED
    BY <1>3, <2>1, <2>2, SeqMonotonic
<1>6. c # <<>> /\ OfAdmin(t) => OfAdmin(c[Len(c)])
  <2> SUFFICES ASSUME c # <<>>, OfAdmin(t) PROVE OfAdmin(c[Len(c)])
    OBVIOUS
  <2>1. PICK op \in {"get_or_create", "caps"} : c = <<Cmd(op, "client.admin")>>
    BY <1>4
  <2>2. c[Len(c)] = Cmd(op, "client.admin")
    BY <2>1
  <2> QED
    BY <2>2, CommandFields DEF OfAdmin, IsCommand
<1>7. AfterAdmin(play'.todo)
  <2>1. \A i \in 1 .. Len(c) : c[i].task # "refetch"
    BY <1>5
  <2> QED
    BY <1>2, <1>5, <1>6, <2>1, AfterBefore DEF t, u
<1>8. AtTask("refetch")' => ceph.caps["client.admin"] = want.caps
  <2> SUFFICES ASSUME play'.todo # <<>>, Head(play'.todo).task = "refetch"
      PROVE  ceph.caps["client.admin"] = want.caps
    BY DEF AtTask
  <2>1. u \in Seq(TaskSet)
    BY <1>2 DEF u
  <2>2. c = <<>>
    <3> SUFFICES ASSUME c # <<>> PROVE FALSE
      OBVIOUS
    <3>1. Head(c \o u) = c[1] /\ 1 \in 1 .. Len(c)
      BY <1>5, <2>1
    <3> QED
      BY <1>2, <1>5, <3>1
  <2>3. play'.todo = u
    BY <1>2, <2>1, <2>2
  <2>4. OfAdmin(t)
    BY <1>2, <2>3, AfterTail DEF t, u
  <2>5. c # <<Cmd("get_or_create", "client.admin")>> /\ c # <<Cmd("caps", "client.admin")>>
    BY <2>2
  <2> QED
    BY <1>4, <2>4, <2>5
<1> QED
  BY <1>1, <1>7, <1>8, ServesKey DEF AdminInv, KeyThere

LEMMA CommandAdmin ==
    ASSUME ClusterInv, AdminInv, Command PROVE AdminInv'
<1> DEFINE s == play.todo
           c == Head(s).arg
<1>1. /\ Types /\ Playing /\ Volumes /\ want' = want /\ mon' = mon
      /\ Serves(play.available) /\ AtTask("command") /\ play \in PlaySet
      /\ s \in Seq(TaskSet) /\ s # <<>> /\ AfterAdmin(s) /\ Head(s).task = "command"
  BY DEF ClusterInv, Command, Types, PlaySet, AdminInv, AtTask
<1>2. CASE Refused(c)
  <2>1. play'.todo = <<>>
    BY <1>1, <1>2, AllFailTodo DEF Command
  <2> QED
    BY <2>1 DEF AdminInv, AfterAdmin, AtTask
<1>3. CASE ~Refused(c)
  <2>1. play'.todo = Tail(s) /\ ceph' = Applied(c)
    BY <1>1, <1>3, PassTodo DEF Command
  <2>2. c \in CommandSet /\ Changed(c)
    BY <1>1, <2>1, CommandFacts, AppliedMeans
  <2>3. AfterAdmin(Tail(s)) /\ (AtTask("refetch")' => OfAdmin(Head(s)))
    BY <1>1, <2>1, AfterTail DEF AtTask
  <2>4. OfAdmin(Head(s)) => c.x = "client.admin" /\ c.op \in {"get_or_create", "caps"}
    BY <1>1 DEF OfAdmin, Admin, Task
  <2>5. OfAdmin(Head(s)) => ceph'.caps["client.admin"] = want.caps
    BY <2>1, <2>2, <2>4 DEF Changed, Keyrings
  <2> QED
    BY <1>1, <2>1, <2>3, <2>5, ServesKey DEF AdminInv, KeyThere
<1> QED
  BY <1>2, <1>3

LEMMA AdminStep ==
    ASSUME ClusterInv, AdminInv, [Next]_vars PROVE AdminInv'
<1>1. Types /\ play \in PlaySet
  BY DEF ClusterInv, Types
<1>2. ASSUME Monitored PROVE AdminInv'
  BY <1>1, <1>2, ShortensAdmin
<1>3. ASSUME play'.todo = <<>> PROVE AdminInv'
  BY <1>3 DEF AdminInv, AfterAdmin, AtTask
<1>4. ASSUME AllFail PROVE AdminInv'
  BY <1>1, <1>3, <1>4, AllFailTodo
<1>5. ASSUME play' = play, want' = want, ceph' = ceph, KeyThere => KeyThere' PROVE AdminInv'
  BY <1>5 DEF AdminInv, AtTask
<1>6. ASSUME NEW h \in Hosts, MonStarts(h) \/ MonStops(h) PROVE AdminInv'
  <2>1. play' = play /\ want' = want /\ ceph' = ceph
    BY <1>6 DEF MonStarts, MonStops
  <2>2. KeyThere => KeyThere'
    BY <1>1, <1>6, MonitorKeys
  <2> QED
    BY <1>5, <2>1, <2>2
<1>7. CASE UNCHANGED vars
  BY <1>5, <1>7 DEF vars, KeyThere
<1>8. CASE TaskFails
  BY <1>2, <1>4, <1>8, TaskFailsWays
<1>9. CASE NoMonitor \/ AnswerLost
  BY <1>4, <1>9 DEF NoMonitor, AnswerLost
<1>10. CASE Edit
  BY <1>3, <1>10 DEF Edit, Idle
<1>11. CASE StartPlay
  BY <1>1, <1>11, StartPlayAdmin
<1>12. CASE \/ CheckMons \/ Generate \/ Bootstrap \/ StartFirst \/ Register \/ Fetch
            \/ Refetch
            \/ \E h \in Hosts : \/ CreateVolume(h) \/ WriteTemp(h) \/ Push(h) \/ BringUp(h)
                                \/ PushBreaks(h)
  BY <1>2, <1>12, MonitorsTasks
<1> QED
  BY <1>6, <1>7, <1>8, <1>9, <1>10, <1>11, <1>12, AskAdmin, CommandAdmin DEF Next

LEMMA WholePrefix ==
    ASSUME Types, Volumes, NEW t \in Seq(Nat), Whole(t)
    PROVE  IsPrefix(Text[1], t)
<1>1. /\ Text[1] \in Seq(Nat) /\ Len(Text[1]) \in Nat \ {0}
      /\ \A i \in 1 .. Len(Text[1]) : Text[1][i] = 1
  BY Texts
<1>2. Len(Text[1]) <= Len(t) /\ Len(t) \in Nat
  BY <1>1 DEF Whole
<1> DEFINE x == Text[1]
           y == SubSeq(t, 1, Len(Text[1]))
           z == SubSeq(x, 1, Len(x))
<1>3. \A i \in 1 .. Len(x) : t[i] = x[i]
  <2> SUFFICES ASSUME NEW i \in 1 .. Len(x) PROVE t[i] = x[i]
    OBVIOUS
  <2>1. i \in DOMAIN t /\ i <= Len(Text[1])
    BY <1>1, <1>2
  <2> QED
    BY <1>1, <2>1 DEF Whole, Begun
<1>4. /\ y \in Seq(Nat) /\ Len(y) = Len(x)
      /\ \A i \in 1 .. Len(x) : y[i] = t[i]
  BY <1>1, <1>2
<1>5. y = x
  BY <1>1, <1>3, <1>4
<1>6. IsPrefix(x, t)
  BY <1>1, <1>2, <1>5 DEF IsPrefix
<1> QED
  BY <1>6

(* Before the include, and when a deploy ends well, every host still in the play *)
(* has the keys of the monitors, unless keys were made over older files or while *)
(* a host with the volume was out of the play, and client.admin has the caps    *)
(* asked for; when one ends well, which takes ceph_install_daemon, every keyring *)
(* has them.                                                                *)
THEOREM KeysDelivered == Spec => []KeyringsInForce
<1>1. ASSUME DeployInv, AdminInv PROVE KeyringsInForce
  <2> SUFFICES ASSUME AtTask("refetch") \/ play.result = "ok"
      PROVE  /\ \E a \in Range(want.mons) : mon[a].key # 0
             /\ ~tainted => \A a \in Hosts, h \in play.alive : mon[a].key # 0 =>
                    IsPrefix(Text[mon[a].key], pushed[h])
             /\ ceph.caps["client.admin"] = want.caps
             /\ play.result = "ok" => \A e \in Keyrings : ceph.caps[e] = want.caps
    BY DEF KeyringsInForce
  <2>1. play.result = "ok" => KeyThere /\ \A e \in Keyrings : ceph.caps[e] = want.caps
    BY <1>1, EndedWell
  <2>2. "client.admin" \in Keyrings
    BY DEF Keyrings
  <2>3. KeyThere /\ ceph.caps["client.admin"] = want.caps
    BY <1>1, <2>1, <2>2 DEF AdminInv
  <2>4. ASSUME ~tainted, NEW a \in Hosts, NEW h \in play.alive, mon[a].key # 0
        PROVE  IsPrefix(Text[mon[a].key], pushed[h])
    <3>1. Types /\ Playing /\ Volumes /\ Keys
      BY <1>1, <2>4 DEF DeployInv, ClusterInv
    <3>2. Stage = 9
      <4>1. CASE AtTask("refetch")
        BY <3>1, <4>1, StageOf
      <4>2. CASE play.result = "ok"
        BY <1>1, <4>2, EndedWell DEF Stage
      <4> QED
        BY <4>1, <4>2
    <3>3. HaveDone(7) = play.alive
      BY <3>2 DEF HaveDone
    <3>4. Whole(pushed[h]) /\ mon[a].key = 1
      BY <2>4, <3>1, <3>3 DEF Keys
    <3>5. pushed[h] \in Seq(Nat)
      <4>1. play.alive \subseteq Range(want.mons) /\ Range(want.mons) \subseteq Hosts
        BY <3>1, FirstFacts DEF Playing
      <4> QED
        BY <3>1, <4>1 DEF Types
    <3> QED
      BY <3>1, <3>4, <3>5, WholePrefix
  <2> QED
    BY <2>1, <2>3, <2>4 DEF KeyThere
<1>2. Init => AdminInv
  BY StartAdmin
<1>3. DeployInv /\ AdminInv /\ [Next]_vars => AdminInv'
  BY AdminStep DEF DeployInv
<1> QED
  BY <1>1, <1>2, <1>3, DeployInvariance, PTL DEF Spec

(* A deploy that ends well, which takes ceph_install_daemon, leaves the         *)
(* filesystem, the classes and the pools as asked, except the settings of a pool *)
(* on which some deploy failed; an osd is without a class only between two      *)
(* commands, or if a deploy failed there.                                    *)
THEOREM CephIsAsAsked == Spec => []CephAsAsked
<1>1. ASSUME DeployInv PROVE CephAsAsked
  <2>1. \A o \in Range(Osds) \ hurt : ceph.class[o] = "none" =>
            play.todo # <<>> /\ Head(play.todo) = Cmd("set_device_class", o)
    BY <1>1 DEF DeployInv, CommandsInv, Classes
  <2>2. ASSUME play.result = "ok"
        PROVE  /\ ceph.fs
               /\ \A o \in Range(Osds) : ceph.class[o] = want.class
               /\ \A p \in Pools : Pool[p].rule \/ Pool[p].erasure =>
                      /\ "created" \in ceph.pools[p]
                      /\ p \notin hurt => Asked(p) \subseteq ceph.pools[p]
    <3>1. /\ ceph.fs /\ \A t : ~InTodo(t)
          /\ \A o \in Range(Osds) : ceph.class[o] = want.class
          /\ \A p \in Pools : Pool[p].rule \/ Pool[p].erasure => "created" \in ceph.pools[p]
      BY <1>1, <2>2, EndedWell
    <3>2. \A p \in Pools \ hurt : "created" \in ceph.pools[p] => Asked(p) \subseteq ceph.pools[p]
      BY <1>1, <3>1 DEF DeployInv, CommandsInv, PoolsWhole
    <3> QED
      BY <3>1, <3>2
  <2> QED
    BY <2>1, <2>2 DEF CephAsAsked
<1> QED
  BY <1>1, DeployInvariance, PTL
=============================================================================
