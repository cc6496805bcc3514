-------------------------- MODULE Container_proofs --------------------------
(***************************************************************************)
(* Proofs about Container: what a call of kolla_docker leaves behind and when *)
(* a service runs, for any parameters, files, images and failures.           *)
(***************************************************************************)
EXTENDS Container, SequenceTheorems, TLAPS

StepNames == {"image", "compare", "create", "up", "wait", "verdict", "recreate", "stop",
              "remove", "stop_and_remove", "halt", "relaunch", "pull"} \cup Simple

Content == UNION {[S -> Nat] : S \in SUBSET Names}
Records == {Created(p, i) : p \in Asked, i \in Images}

(* The types, in full.                                                       *)
Types ==
    /\ TypeOK
    /\ info \in Records \cup {Null}
    /\ host \in [DOMAIN Entries -> Content \cup {Absent}]
    /\ files \in [DOMAIN Entries -> Content \cup {Absent}]
    /\ json \in Nat \ {0}
    /\ call = [action |-> call.action, p |-> call.p, todo |-> call.todo, seen |-> call.seen,
               changed |-> call.changed, result |-> call.result, before |-> call.before,
               host |-> call.host]
    /\ call.todo \in Seq(StepNames) /\ call.changed \in BOOLEAN

-----------------------------------------------------------------------------
(* The steps of a call follow one another.                                   *)

(* What a step may come after; the others only begin a call.                 *)
Follows(s) ==
    CASE s = "compare" -> {"image"}
      [] s = "create" -> {"compare", "remove"}
      [] s = "up" -> {"create"}
      [] s = "wait" -> {"up"}
      [] s = "remove" -> {"stop"}
      [] s \in {"image", "verdict"} -> {"remove"}
      [] s = "relaunch" -> {"halt"}
      [] OTHER -> {}

Making == {"image", "compare", "create", "up", "wait", "stop", "remove", "verdict"}
Allowed(action) ==
    IF action = "start_container" THEN Making
    ELSE IF action = "recreate_or_restart_container"
    THEN Making \cup {"recreate", "halt", "relaunch"}
    ELSE {"stop", "remove", "stop_and_remove", "halt", "relaunch", "pull"} \cup Simple

Ends(p, action) ==
    IF action \notin Makes THEN {"stop", "remove", "stop_and_remove", "relaunch", "pull"} \cup Simple
    ELSE IF p.detach THEN {"wait", "relaunch", "recreate"}
    ELSE {"wait", "relaunch", "recreate", "verdict"}

Planned(s, p, action) ==
    /\ \A i \in 1 .. Len(s) : s[i] \in Allowed(action)
    /\ \A i \in 2 .. Len(s) : s[i - 1] \in Follows(s[i])
    /\ s # <<>> => s[Len(s)] \in Ends(p, action)

-----------------------------------------------------------------------------
Same == \/ ~Differs(call.p, info, Image, "running")
        \/ Image # Null /\ info = Created(call.p, Image)

Calling ==
    /\ Planned(call.todo, call.p, call.action)
    /\ At("up") \/ At("wait") \/ At("relaunch") => Exists
    /\ At("verdict") => ~Exists

Settled ==
    call.action \in Makes =>
        /\ At("compare") => Image # Null
        /\ At("create") /\ Exists => Same
        /\ At("up") \/ At("wait") \/ At("halt") \/ At("relaunch") => Same
        /\ At("halt") => Exists
        /\ (At("create") /\ Exists) \/ At("up") => (state = "created" => call.seen # "running")
        /\ At("wait") => state # "created"
        /\ call.result = "ok" /\ call.p.detach => Exists /\ state # "created" /\ Same

Reported ==
    /\ call.result \in {"running", "ok"} /\ ~call.changed =>
           \/ SameHoldings(call.p, call.before, Holdings)
           \/ ~Exists /\ (At("compare") \/ At("create"))
    /\ At("image") /\ call.changed => ~Exists
    /\ \A x \in Simple \cup {"pull"} : At(x) => ~call.changed

(* start.sh *)
Scripts ==
    /\ configured => Strategy(info) = "COPY_ONCE" /\ command # 0 /\ step \in {0, Exec, Serving}
    /\ step = Mark => Strategy(info) = "COPY_ONCE"
    /\ step \in {Mark, Exec, Serving} => command # 0
    /\ step \in {Exec, Serving} =>
           IF Strategy(info) = "COPY_ONCE" THEN configured ELSE command = loaded
    /\ step > 0 => loaded > 0
    /\ \A k \in DOMAIN Entries : step > k \/ configured => Entries[k].optional \/ files[k] # Absent

Older(f) == f # Absent => \A name \in DOMAIN f : f[name] <= edits + 1
HostKept ==
    /\ \A k \in DOMAIN Entries : Older(host[k])
    /\ call.action # "none" =>
          /\ call.host = <<call.host[1], call.host[2]>>
          /\ call.host[1] \in [DOMAIN Entries -> Content \cup {Absent}]
          /\ \A k \in DOMAIN Entries : Older(call.host[1][k])
          /\ call.host[2] \in Nat /\ json >= call.host[2]

Since(k) ==
    host[k] = call.host[1][k] /\ host[k] # Absent =>
        \A name \in DOMAIN host[k] : files[k][name] = host[k][name]

Renewed ==
    /\ \A k \in DOMAIN Entries : step > k \/ configured => Since(k)
    /\ step > 0 => loaded >= call.host[2]
    /\ step > WriteCommand \/ configured => command >= call.host[2]

Recreated ==
    call.action = "recreate_or_restart_container" =>
        /\ At("image") \/ At("compare") \/ At("create") => ~Exists
        /\ At("halt") \/ At("relaunch") => Strategy(info) = "COPY_ALWAYS"
        /\ At("up") \/ At("wait") \/ call.result = "ok" => Renewed

CInv == Types /\ Calling /\ Settled /\ Reported /\ Scripts /\ HostKept /\ Recreated

-----------------------------------------------------------------------------
(* Lists of steps.                                                           *)

LEMMA Onward ==
    ASSUME NEW s \in Seq(StepNames), NEW p, NEW a, Planned(s, p, a), s # <<>>
    PROVE  /\ Tail(s) \in Seq(StepNames)
           /\ Planned(Tail(s), p, a)
           /\ Head(s) \in Allowed(a)
           /\ Tail(s) # <<>> => Head(s) \in Follows(Head(Tail(s)))
           /\ Tail(s) = <<>> => Head(s) \in Ends(p, a)
<1> DEFINE u == Tail(s)
<1>a. /\ u \in Seq(StepNames) /\ Len(s) \in Nat \ {0} /\ Len(u) = Len(s) - 1
      /\ \A i \in 1 .. Len(u) : i + 1 \in 1 .. Len(s) /\ u[i] = s[i + 1]
  OBVIOUS
<1>b. Head(s) = s[1] /\ (u # <<>> => Head(u) = u[1])
  OBVIOUS
<1>c. u = <<>> <=> Len(u) = 0
  BY <1>a
<1> HIDE DEF u
<1>1. /\ u \in Seq(StepNames) /\ Len(s) \in Nat \ {0} /\ Len(u) = Len(s) - 1
      /\ \A i \in 1 .. Len(u) : i + 1 \in 1 .. Len(s) /\ u[i] = s[i + 1]
      /\ Head(s) = s[1] /\ (u # <<>> => Head(u) = u[1] /\ 1 \in 1 .. Len(u) /\ Len(u) \in 1 .. Len(u))
      /\ u = <<>> <=> Len(u) = 0
  BY <1>a, <1>b, <1>c
<1>2. /\ \A i \in 1 .. Len(s) : s[i] \in Allowed(a)
      /\ \A i \in 2 .. Len(s) : s[i - 1] \in Follows(s[i])
      /\ s[Len(s)] \in Ends(p, a)
  BY DEF Planned
<1>3. \A i \in 1 .. Len(u) : u[i] \in Allowed(a)
  BY <1>1, <1>2
<1>4. ASSUME NEW i \in 2 .. Len(u) PROVE u[i - 1] \in Follows(u[i])
  <2>1. /\ i \in 1 .. Len(u) /\ i - 1 \in 1 .. Len(u) /\ i + 1 \in 2 .. Len(s)
        /\ (i - 1) + 1 = i /\ (i + 1) - 1 = i
    BY <1>1
  <2>2. u[i] = s[i + 1] /\ u[i - 1] = s[(i - 1) + 1]
    BY <1>1, <2>1
  <2>3. s[(i + 1) - 1] \in Follows(s[i + 1])
    BY <1>2, <2>1
  <2> QED
    BY <2>1, <2>2, <2>3
<1>5. u # <<>> => u[Len(u)] \in Ends(p, a)
  <2> SUFFICES ASSUME u # <<>> PROVE u[Len(u)] \in Ends(p, a)
    OBVIOUS
  <2>1. Len(u) \in 1 .. Len(u) /\ Len(u) + 1 = Len(s)
    BY <1>1
  <2> QED
    BY <1>1, <1>2, <2>1
<1>6. u # <<>> => Head(s) \in Follows(Head(u))
  <2> SUFFICES ASSUME u # <<>> PROVE s[1] \in Follows(u[1])
    BY <1>1
  <2>1. 2 \in 2 .. Len(s) /\ u[1] = s[2]
    BY <1>1
  <2>2. s[2 - 1] \in Follows(s[2]) /\ 2 - 1 = 1
    BY <1>2, <2>1
  <2> QED
    BY <2>1, <2>2
<1>7. u = <<>> => Head(s) \in Ends(p, a)
  <2>1. u = <<>> => Len(s) = 1
    BY <1>1
  <2> QED
    BY <1>1, <1>2, <2>1
<1>8. Head(s) \in Allowed(a)
  BY <1>1, <1>2
<1> QED
  BY <1>1, <1>3, <1>4, <1>5, <1>6, <1>7, <1>8 DEF Planned, u

LEMMA StopFirst ==
    ASSUME NEW s \in Seq(StepNames), NEW p, NEW a \in Makes, Planned(s, p, a), s # <<>>,
           Head(s) \in {"create", "image", "verdict"}
    PROVE  /\ <<"stop", "remove">> \o s \in Seq(StepNames)
           /\ Planned(<<"stop", "remove">> \o s, p, a)
           /\ Head(<<"stop", "remove">> \o s) = "stop"
           /\ <<"stop", "remove">> \o s # <<>>
<1> DEFINE u == <<"stop", "remove">> \o s
<1>1. /\ u \in Seq(StepNames) /\ Len(s) \in Nat \ {0} /\ Len(u) = Len(s) + 2
      /\ u[1] = "stop" /\ u[2] = "remove" /\ \A i \in 3 .. Len(u) : u[i] = s[i - 2]
      /\ Head(s) = s[1] /\ u # <<>> /\ Head(u) = u[1]
  BY DEF StepNames
<1> HIDE DEF u
<1>2. /\ \A i \in 1 .. Len(s) : s[i] \in Allowed(a)
      /\ \A i \in 2 .. Len(s) : s[i - 1] \in Follows(s[i])
      /\ s[Len(s)] \in Ends(p, a)
  BY DEF Planned
<1>3. ASSUME NEW i \in 1 .. Len(u) PROVE u[i] \in Allowed(a)
  <2>1. CASE i \in {1, 2}
    BY <1>1, <2>1 DEF Allowed, Makes, Making
  <2>2. CASE i \notin {1, 2}
    <3>1. i \in 3 .. Len(u) /\ i - 2 \in 1 .. Len(s)
      BY <1>1, <2>2
    <3> QED
      BY <1>1, <1>2, <3>1
  <2> QED
    BY <2>1, <2>2
<1>4. ASSUME NEW i \in 2 .. Len(u) PROVE u[i - 1] \in Follows(u[i])
  <2>1. CASE i = 2
    BY <1>1, <2>1 DEF Follows
  <2>2. CASE i = 3
    <3>1. u[3] = s[1] /\ 3 \in 3 .. Len(u) /\ 3 - 1 = 2
      BY <1>1
    <3> QED
      BY <1>1, <2>2, <3>1 DEF Follows
  <2>3. CASE i > 3
    <3>1. /\ i \in 3 .. Len(u) /\ i - 1 \in 3 .. Len(u) /\ i - 2 \in 2 .. Len(s)
          /\ (i - 1) - 2 = (i - 2) - 1
      BY <1>1, <2>3
    <3>2. u[i] = s[i - 2] /\ u[i - 1] = s[(i - 1) - 2]
      BY <1>1, <3>1
    <3>3. s[(i - 2) - 1] \in Follows(s[i - 2])
      BY <1>2, <3>1
    <3> QED
      BY <3>1, <3>2, <3>3
  <2>4. i = 2 \/ i = 3 \/ i > 3
    BY <1>1
  <2> QED
    BY <2>1, <2>2, <2>3, <2>4
<1>5. u[Len(u)] \in Ends(p, a)
  <2>1. Len(u) \in 3 .. Len(u) /\ Len(u) - 2 = Len(s)
    BY <1>1
  <2> QED
    BY <1>1, <1>2, <2>1
<1> QED
  BY <1>1, <1>3, <1>4, <1>5 DEF Planned, u

(* The lists the code begins with.                                           *)
LEMMA Single ==
    ASSUME NEW p, NEW a, NEW x \in StepNames, x \in Allowed(a), x \in Ends(p, a)
    PROVE  <<x>> \in Seq(StepNames) /\ Planned(<<x>>, p, a) /\ Head(<<x>>) = x /\ <<x>> # <<>>
BY DEF Planned

LEMMA Pair ==
    ASSUME NEW p, NEW a, NEW x \in StepNames, NEW y \in StepNames,
           x \in Allowed(a), y \in Allowed(a), x \in Follows(y), y \in Ends(p, a)
    PROVE  /\ <<x, y>> \in Seq(StepNames) /\ Planned(<<x, y>>, p, a)
           /\ Head(<<x, y>>) = x /\ <<x, y>> # <<>>
BY DEF Planned

LEMMA StartPlanned ==
    ASSUME NEW p, NEW a \in Makes
    PROVE  /\ StartContainer \in Seq(StepNames) /\ Planned(StartContainer, p, a)
           /\ Head(StartContainer) = "image" /\ StartContainer # <<>>
<1> DEFINE s == StartContainer
<1>1. /\ s \in Seq(StepNames) /\ Len(s) = 5 /\ s[1] = "image" /\ s[2] = "compare"
      /\ s[3] = "create" /\ s[4] = "up" /\ s[5] = "wait" /\ Head(s) = "image" /\ s # <<>>
  BY DEF StepNames, StartContainer
<1> HIDE DEF s
<1>2. \A i \in 1 .. 5 : s[i] \in Allowed(a)
  BY <1>1 DEF Allowed, Makes, Making
<1>3. \A i \in 2 .. 5 : s[i - 1] \in Follows(s[i])
  <2>1. \A i \in 2 .. 5 : i = 2 \/ i = 3 \/ i = 4 \/ i = 5
    OBVIOUS
  <2>2. /\ s[2 - 1] \in Follows(s[2]) /\ s[3 - 1] \in Follows(s[3])
        /\ s[4 - 1] \in Follows(s[4]) /\ s[5 - 1] \in Follows(s[5])
    BY <1>1 DEF Follows
  <2> QED
    BY <2>1, <2>2
<1>4. s[Len(s)] \in Ends(p, a)
  BY <1>1 DEF Ends, Makes
<1> QED
  BY <1>1, <1>2, <1>3, <1>4 DEF Planned, s

-----------------------------------------------------------------------------
(* The options.                                                              *)

(* What docker reports of a new container, field by field.                    *)
LEMMA CreatedFields ==
    ASSUME NEW p, NEW i
    PROVE  LET c == Created(p, i)
           IN  /\ c.id = i /\ c.tag = p.image /\ c.mounts = Mounts(p)
               /\ c.environment = Environment(p)
               /\ c.labels = Over(NullAsEmpty(p.labels), ImageLabels[i])
               /\ c.binds = Binds(p) /\ c.cap_add = p.cap_add
               /\ c.security_opt = IF Unconfined(p) THEN {} ELSE p.security_opt
               /\ c.ipc_mode = IF p.ipc_mode \in {Null, Empty} THEN "private" ELSE p.ipc_mode
               /\ c.pid_mode = IF p.pid_mode = Empty THEN Null ELSE p.pid_mode
               /\ c.privileged = p.privileged
               /\ c.volumes_from = p.volumes_from
               /\ c.dimensions = Limits(p)
BY DEF Created, HostConfig, Over

LEMMA NoString == Null # Empty /\ Null \notin Strategies
BY ContainerAssumption DEF ContainerAssumption

(* What docker made of a value is what it makes of it again.                  *)
LEMMA TextTwice == ASSUME NEW v PROVE Text(v) # Null /\ Text(v) \notin DOMAIN Texts
<1>1. /\ Null \notin STRING /\ Empty \in STRING /\ DOMAIN Texts \cap STRING = {}
      /\ \A u \in DOMAIN Texts : Texts[u] \in STRING
  BY ContainerAssumption DEF ContainerAssumption
<1>2. CASE v = Null
  BY <1>1, <1>2 DEF Text
<1>3. CASE v # Null /\ v \in DOMAIN Texts
  BY <1>1, <1>3 DEF Text
<1>4. CASE v # Null /\ v \notin DOMAIN Texts
  BY <1>4 DEF Text
<1> QED
  BY <1>2, <1>3, <1>4

(* The environment has every variable that is asked for.                      *)
LEMMA CreatedVariable ==
    ASSUME NEW p \in Asked, NEW i, NEW k \in DOMAIN p.environment
    PROVE  /\ k \in DOMAIN Created(p, i).environment
           /\ Created(p, i).environment[k] = Text(p.environment[k])
<1>1. k # "KOLLA_SERVICE_NAME"
  BY ContainerAssumption DEF ContainerAssumption
<1>2. DOMAIN [KOLLA_SERVICE_NAME |-> p.name] = {"KOLLA_SERVICE_NAME"}
  OBVIOUS
<1> DEFINE e == Over([KOLLA_SERVICE_NAME |-> p.name], p.environment)
<1>3. k \in DOMAIN e /\ e[k] = p.environment[k]
  BY <1>1, <1>2 DEF Over
<1>4. Environment(p) = [l \in DOMAIN e |-> Text(e[l])]
  BY DEF Environment
<1>5. Created(p, i).environment = Environment(p)
  BY CreatedFields
<1> HIDE DEF e
<1> QED
  BY <1>3, <1>4, <1>5

(* The limits, one by one.                                                   *)
LEMMA LimitsIs ==
    ASSUME NEW p
    PROVE  LET asked == [d \in Dimensions |-> IF d \in DOMAIN p.dimensions
                                             THEN Amount(p.dimensions[d]) ELSE Falsy[d]]
           IN  /\ Limits(p) = [d \in Dimensions |-> Limits(p)[d]]
               /\ \A d \in Dimensions \ {"memswap_limit"} : Limits(p)[d] = asked[d]
               /\ Limits(p)["memswap_limit"] =
                      IF asked["mem_limit"] # 0 /\ asked["memswap_limit"] = 0
                      THEN 2 * asked["mem_limit"] ELSE asked["memswap_limit"]
<1>1. "memswap_limit" \in Dimensions /\ "mem_limit" \in Dimensions
  BY DEF Dimensions
<1> QED
  BY <1>1 DEF Limits

LEMMA StrategyCreated ==
    ASSUME NEW p \in Asked, NEW i
    PROVE  Strategy(Created(p, i)) = Strategy(p) /\ Strategy(p) \in Strategies
<1>1. /\ "KOLLA_CONFIG_STRATEGY" \in DOMAIN p.environment
      /\ p.environment["KOLLA_CONFIG_STRATEGY"] \in Strategies
      /\ DOMAIN Texts \cap (STRING \cup Strategies) = {}
  BY ContainerAssumption DEF ContainerAssumption
<1>2. Text(p.environment["KOLLA_CONFIG_STRATEGY"]) = p.environment["KOLLA_CONFIG_STRATEGY"]
  BY <1>1, NoString DEF Text
<1> QED
  BY <1>1, <1>2, CreatedVariable DEF Strategy

(* A container just made as asked is as asked, for tasks that ask for nothing  *)
(* docker cannot report.                                                    *)
LEMMA CreatedQuiet ==
    ASSUME NEW p \in Asked, NEW i \in Images, Plain(p)
    PROVE  ~Differs(p, Created(p, i), i, "running")
<1> DEFINE c == Created(p, i)
<1>0. /\ c.id = i /\ c.tag = p.image /\ c.mounts = Mounts(p)
      /\ c.labels = Over(NullAsEmpty(p.labels), ImageLabels[i])
      /\ c.binds = Binds(p) /\ c.cap_add = p.cap_add
      /\ c.security_opt = IF Unconfined(p) THEN {} ELSE p.security_opt
      /\ p.ipc_mode # Null => c.ipc_mode = p.ipc_mode
      /\ c.pid_mode = p.pid_mode /\ c.privileged = p.privileged
      /\ c.volumes_from = p.volumes_from /\ c.dimensions = Limits(p)
  BY CreatedFields DEF Plain
<1>00. \A k \in DOMAIN p.environment :
          /\ k \in DOMAIN c.environment
          /\ c.environment[k] = p.environment[k]
  <2> SUFFICES ASSUME NEW k \in DOMAIN p.environment
               PROVE  k \in DOMAIN c.environment /\ c.environment[k] = p.environment[k]
    OBVIOUS
  <2>1. p.environment[k] # Null /\ p.environment[k] \notin DOMAIN Texts
    BY DEF Plain
  <2>2. Text(p.environment[k]) = p.environment[k]
    BY <2>1 DEF Text
  <2> QED
    BY <2>2, CreatedVariable
<1>000. p.command = Null
  BY DEF Plain
<1> HIDE DEF c
<1>1. i # Null
  BY ContainerAssumption DEF ContainerAssumption
<1>2. /\ ~CompareCapAdd(p, c) /\ ~CompareSecurityOpt(p, c) /\ ~CompareImage(p, c, i)
      /\ ~CompareIpcMode(p, c) /\ ~ComparePrivileged(p, c) /\ ~ComparePidMode(p, c)
      /\ ~CompareVolumes(p, c) /\ ~CompareVolumesFrom(p, c) /\ ~CompareCommand(p, c)
  BY <1>0, <1>000, <1>1
     DEF CompareCapAdd, CompareSecurityOpt, CompareImage, CompareIpcMode, ComparePrivileged,
         ComparePidMode, CompareVolumes, CompareVolumesFrom, CompareCommand
<1>3. ~CompareLabels(p, c, i)
  <2> DEFINE image == ImageLabels[i]
             kept == DOMAIN c.labels \ (DOMAIN image \ DOMAIN p.labels)
  <2>1. c.labels = Over(NullAsEmpty(p.labels), image)
    BY <1>0
  <2>2. DOMAIN NullAsEmpty(p.labels) = DOMAIN p.labels
    BY DEF NullAsEmpty
  <2>3. DOMAIN c.labels = DOMAIN p.labels \cup DOMAIN image
    BY <2>1, <2>2 DEF Over
  <2>4. kept = DOMAIN p.labels
    BY <2>3
  <2>5. \A k \in DOMAIN p.labels : c.labels[k] = p.labels[k]
    <3> SUFFICES ASSUME NEW k \in DOMAIN p.labels PROVE c.labels[k] = p.labels[k]
      OBVIOUS
    <3>1. p.labels[k] # Null
      BY DEF Plain
    <3>2. NullAsEmpty(p.labels)[k] = p.labels[k]
      BY <3>1 DEF NullAsEmpty
    <3> QED
      BY <2>1, <2>2, <3>2 DEF Over
  <2>6. p.labels = [k \in DOMAIN p.labels |-> p.labels[k]]
    BY ContainerAssumption DEF ContainerAssumption
  <2>7. p.labels = [k \in kept |-> c.labels[k]]
    BY <2>4, <2>5, <2>6
  <2>8. \A k \in DOMAIN p.labels : k \notin DOMAIN image
    BY DEF Plain
  <2> QED
    BY <2>7, <2>8 DEF CompareLabels
<1>4. ~CompareEnvironment(p, c)
  BY <1>00 DEF CompareEnvironment, Plain
<1>5. ~CompareDimensions(p, c)
  <2> DEFINE asked == [d \in Dimensions |-> IF d \in DOMAIN p.dimensions
                                           THEN Amount(p.dimensions[d]) ELSE Falsy[d]]
  <2>1. \A d \in Dimensions : asked[d]
            = IF d \in DOMAIN p.dimensions THEN p.dimensions[d] ELSE Falsy[d]
    BY DEF Plain, Amount
  <2>2. Falsy["mem_limit"] = 0 /\ "mem_limit" \in Dimensions /\ "memswap_limit" \in Dimensions
    BY DEF Falsy, Dimensions
  <2>3. ~(asked["mem_limit"] # 0 /\ asked["memswap_limit"] = 0)
    BY <2>1, <2>2 DEF Plain
  <2>4. \A d \in Dimensions : c.dimensions[d] = asked[d]
    BY <1>0, <2>3, LimitsIs
  <2> HIDE DEF asked
  <2> QED
    BY <2>1, <2>4 DEF CompareDimensions
<1> QED
  BY <1>2, <1>3, <1>4, <1>5 DEF Differs, DiffersBeforeVolumes, c

(* What was found without a difference has everything that is asked for.       *)
LEMMA NoDifference ==
    ASSUME NEW p \in Asked, NEW c, NEW i, NEW s, ~Differs(p, c, i, s)
    PROVE  i # Null /\ s = "running" /\ ~Differs(p, c, i, "running")
BY DEF Differs, DiffersBeforeVolumes, CompareImage

LEMMA SameStrategy ==
    ASSUME NEW p \in Asked, NEW c, NEW i, NEW s, ~Differs(p, c, i, s)
    PROVE  Strategy(c) = Strategy(p)
<1>1. ~CompareEnvironment(p, c)
  BY DEF Differs
<1>2. "KOLLA_CONFIG_STRATEGY" \in DOMAIN p.environment
  BY ContainerAssumption DEF ContainerAssumption
<1> QED
  BY <1>1, <1>2 DEF CompareEnvironment, Strategy

(* A container without a difference has the fields of one made as asked.       *)
LEMMA EqualFields ==
    ASSUME NEW p \in Asked, NEW q \in Asked, NEW i \in Images, NEW j \in Images, NEW c, NEW w,
           c = Created(q, j), w = Created(p, i), ~Differs(p, c, i, "running")
    PROVE  /\ c.id = w.id /\ c.tag = w.tag /\ c.cap_add = w.cap_add /\ c.binds = w.binds
           /\ c.mounts = w.mounts /\ c.volumes_from = w.volumes_from /\ c.pid_mode = w.pid_mode
           /\ c.privileged = w.privileged /\ c.dimensions = w.dimensions
           /\ DOMAIN c.labels = DOMAIN w.labels
           /\ \A k \in DOMAIN p.labels : c.labels[k] = w.labels[k]
           /\ \A k \in DOMAIN p.environment : c.environment[k] = w.environment[k]
           /\ p.ipc_mode # Null => c.ipc_mode = w.ipc_mode
           /\ p.command # Null => c.command = p.command
           /\ ~Unconfined(p) => c.security_opt = p.security_opt
<1>0. Null # Empty /\ Empty # "private"
  BY NoString DEF Empty
<1>1. /\ ~CompareCapAdd(p, c) /\ ~CompareSecurityOpt(p, c) /\ ~CompareImage(p, c, i)
      /\ ~CompareIpcMode(p, c) /\ ~CompareLabels(p, c, i) /\ ~ComparePrivileged(p, c)
      /\ ~ComparePidMode(p, c) /\ ~CompareVolumes(p, c) /\ ~CompareVolumesFrom(p, c)
      /\ ~CompareEnvironment(p, c) /\ ~CompareDimensions(p, c) /\ ~CompareCommand(p, c)
  BY DEF Differs, DiffersBeforeVolumes
<1>2. /\ w.id = i /\ w.tag = p.image /\ w.mounts = Mounts(p)
      /\ w.labels = Over(NullAsEmpty(p.labels), ImageLabels[i])
      /\ w.binds = Binds(p) /\ w.cap_add = p.cap_add
      /\ w.pid_mode = (IF p.pid_mode = Empty THEN Null ELSE p.pid_mode)
      /\ w.ipc_mode = (IF p.ipc_mode \in {Null, Empty} THEN "private" ELSE p.ipc_mode)
      /\ w.privileged = p.privileged
      /\ w.volumes_from = p.volumes_from /\ w.dimensions = Limits(p)
  BY CreatedFields
<1>3. /\ c.id = j /\ c.dimensions = Limits(q)
      /\ c.labels = Over(NullAsEmpty(q.labels), ImageLabels[j])
      /\ c.pid_mode = (IF q.pid_mode = Empty THEN Null ELSE q.pid_mode)
      /\ c.ipc_mode = (IF q.ipc_mode \in {Null, Empty} THEN "private" ELSE q.ipc_mode)
  BY CreatedFields
<1>4. /\ c.id = w.id /\ c.tag = w.tag /\ c.cap_add = w.cap_add /\ c.binds = w.binds
      /\ c.mounts = w.mounts /\ c.volumes_from = w.volumes_from /\ c.pid_mode = w.pid_mode
      /\ c.privileged = w.privileged
      /\ p.ipc_mode # Null => c.ipc_mode = w.ipc_mode
      /\ p.command # Null => c.command = p.command
      /\ ~Unconfined(p) => c.security_opt = p.security_opt
  BY <1>1, <1>2, <1>3, <1>0
     DEF CompareCapAdd, CompareSecurityOpt, CompareImage, CompareIpcMode, ComparePrivileged,
         ComparePidMode, CompareVolumes, CompareVolumesFrom, CompareCommand
<1>5. c.dimensions = w.dimensions
  <2> DEFINE had == [d \in Dimensions |-> IF d \in DOMAIN q.dimensions
                                         THEN Amount(q.dimensions[d]) ELSE Falsy[d]]
             want == [d \in Dimensions |-> IF d \in DOMAIN p.dimensions
                                          THEN Amount(p.dimensions[d]) ELSE Falsy[d]]
  <2>1. "mem_limit" \in Dimensions /\ "memswap_limit" \in Dimensions
        /\ Falsy["mem_limit"] = 0 /\ Falsy["memswap_limit"] = 0
    BY DEF Falsy, Dimensions
  <2>2. \A d \in DOMAIN p.dimensions : p.dimensions[d] \in DOMAIN Amounts
                                         => Amount(p.dimensions[d]) \notin DOMAIN Amounts
    BY ContainerAssumption DEF ContainerAssumption
  <2>3. had["mem_limit"] \in Nat
    BY <2>1, ContainerAssumption DEF ContainerAssumption
  <2>4. /\ \A d \in Dimensions \ {"memswap_limit"} : c.dimensions[d] = had[d]
        /\ c.dimensions["memswap_limit"] =
              IF had["mem_limit"] # 0 /\ had["memswap_limit"] = 0
              THEN 2 * had["mem_limit"] ELSE had["memswap_limit"]
    BY <1>3, LimitsIs
  <2>5. c.dimensions["mem_limit"] # 0 => c.dimensions["memswap_limit"] # 0
    BY <2>1, <2>3, <2>4
  <2>6. ASSUME NEW d \in Dimensions PROVE had[d] \notin DOMAIN Amounts
    <3>1. Falsy[d] \notin DOMAIN Amounts
      BY ContainerAssumption DEF ContainerAssumption, Falsy
    <3> QED
      BY <3>1, ContainerAssumption DEF ContainerAssumption
  <2>7. ASSUME NEW d \in Dimensions PROVE c.dimensions[d] = want[d]
    <3>1. CASE d \notin DOMAIN p.dimensions
      BY <1>1, <3>1 DEF CompareDimensions
    <3>2. CASE d \in DOMAIN p.dimensions
      <4>1. c.dimensions[d] = p.dimensions[d]
        BY <1>1, <3>2 DEF CompareDimensions
      <4>2. c.dimensions[d] \notin DOMAIN Amounts
        BY <2>1, <2>3, <2>4, <2>6, ContainerAssumption DEF ContainerAssumption
      <4> QED
        BY <3>2, <4>1, <4>2 DEF Amount
    <3> QED
      BY <3>1, <3>2
  <2>8. ~(want["mem_limit"] # 0 /\ want["memswap_limit"] = 0)
    BY <2>1, <2>5, <2>7
  <2>9. \A d \in Dimensions : w.dimensions[d] = want[d]
    BY <1>2, <2>8, LimitsIs
  <2>10. /\ c.dimensions = [d \in Dimensions |-> c.dimensions[d]]
         /\ w.dimensions = [d \in Dimensions |-> w.dimensions[d]]
    BY <1>2, <1>3, LimitsIs
  <2> HIDE DEF had, want
  <2> QED
    BY <2>7, <2>9, <2>10
<1>6. /\ DOMAIN c.labels = DOMAIN w.labels
      /\ \A k \in DOMAIN p.labels : c.labels[k] = w.labels[k]
  <2> DEFINE image == ImageLabels[i]
             kept == DOMAIN c.labels \ (DOMAIN image \ DOMAIN p.labels)
  <2>1. i = j
    BY <1>1, <1>3 DEF CompareImage
  <2>2. DOMAIN image \subseteq DOMAIN c.labels
    BY <1>3, <2>1 DEF Over
  <2>3. p.labels = [k \in kept |-> c.labels[k]]
    BY <1>1 DEF CompareLabels
  <2>4. DOMAIN p.labels = kept
    BY <2>3
  <2>5. DOMAIN w.labels = DOMAIN p.labels \cup DOMAIN image
    BY <1>2 DEF Over, NullAsEmpty
  <2>6. ASSUME NEW k \in DOMAIN p.labels PROVE c.labels[k] = w.labels[k]
    <3>1. c.labels[k] = p.labels[k]
      <4> HIDE DEF kept
      <4>1. k \in kept
        BY <2>4
      <4> QED
        BY <2>3, <4>1
    <3>2. c.labels[k] # Null
      <4>1. k \in DOMAIN q.labels \cup DOMAIN ImageLabels[j]
        BY <1>3, <2>4 DEF Over, NullAsEmpty
      <4>2. k \in DOMAIN q.labels => c.labels[k] = IF q.labels[k] = Null THEN Empty ELSE q.labels[k]
        BY <1>3 DEF Over, NullAsEmpty
      <4>3. k \notin DOMAIN q.labels => c.labels[k] = ImageLabels[j][k]
        BY <1>3, <4>1 DEF Over, NullAsEmpty
      <4>4. k \in DOMAIN ImageLabels[j] => ImageLabels[j][k] # Null
        BY ContainerAssumption DEF ContainerAssumption
      <4> QED
        BY <4>1, <4>2, <4>3, <4>4, NoString
    <3>3. w.labels[k] = p.labels[k]
      BY <1>2, <3>1, <3>2 DEF Over, NullAsEmpty
    <3> QED
      BY <3>1, <3>3
  <2> QED
    BY <2>2, <2>4, <2>5, <2>6
<1>7. ASSUME NEW k \in DOMAIN p.environment PROVE c.environment[k] = w.environment[k]
  <2>1. k \in DOMAIN c.environment /\ c.environment[k] = p.environment[k]
    BY <1>1 DEF CompareEnvironment
  <2>2. w.environment[k] = Text(p.environment[k])
    BY CreatedVariable
  <2>3. PICK v : c.environment[k] = Text(v)
    <3> DEFINE e == Over([KOLLA_SERVICE_NAME |-> q.name], q.environment)
    <3>1. c.environment = [l \in DOMAIN e |-> Text(e[l])]
      BY CreatedFields DEF Environment
    <3> HIDE DEF e
    <3>2. c.environment[k] = Text(e[k])
      BY <2>1, <3>1
    <3> QED
      BY <3>2
  <2>4. c.environment[k] # Null /\ c.environment[k] \notin DOMAIN Texts
    BY <2>3, TextTwice
  <2> QED
    BY <2>1, <2>2, <2>4 DEF Text
<1> QED
  BY <1>4, <1>5, <1>6, <1>7

LEMMA SameAgrees ==
    ASSUME Same, call.p \in Asked, info \in Records, Image \in Images \cup {Null}
    PROVE  Agrees(call.p)
<1> DEFINE p == call.p
           w == Created(p, Image)
<1>1. CASE ~Differs(p, info, Image, "running")
  <2>1. Image \in Images
    BY <1>1, NoDifference
  <2>2. PICK q \in Asked, j \in Images : info = Created(q, j)
    BY DEF Records
  <2>3. /\ info.id = w.id /\ info.tag = w.tag /\ info.cap_add = w.cap_add /\ info.binds = w.binds
        /\ info.mounts = w.mounts /\ info.volumes_from = w.volumes_from
        /\ info.pid_mode = w.pid_mode
        /\ info.privileged = w.privileged /\ info.dimensions = w.dimensions
        /\ DOMAIN info.labels = DOMAIN w.labels
        /\ \A k \in DOMAIN p.labels : info.labels[k] = w.labels[k]
        /\ \A k \in DOMAIN p.environment : info.environment[k] = w.environment[k]
        /\ p.ipc_mode # Null => info.ipc_mode = w.ipc_mode
        /\ p.command # Null => info.command = p.command
        /\ ~Unconfined(p) => info.security_opt = p.security_opt
    BY <1>1, <2>1, <2>2, EqualFields
  <2> QED
    BY <2>3 DEF Agrees
<1>2. CASE info = w
  <2>1. ~Unconfined(p) => w.security_opt = p.security_opt
    BY CreatedFields
  <2> QED
    BY <1>2, <2>1 DEF Agrees
<1> QED
  BY <1>1, <1>2 DEF Same

(* What --check calls in order is as on the host.                             *)
LEMMA CheckedSame ==
    ASSUME NEW entry, NEW source, NEW dest, CheckEntry(entry, source, dest) = "same"
    PROVE  source = Absent \/ dest = source
<1> SUFFICES ASSUME source # Absent PROVE dest = source
  OBVIOUS
<1>1. ~Skipped(entry, source) /\ ~MissingSource(entry, source)
  BY DEF Skipped, MissingSource
<1>2. IsDir(source) => CmpDir(entry, source, dest) = "same"
  BY <1>1 DEF CheckEntry
<1>3. CmpFile(entry, source, dest) = "same"
  BY <1>1, <1>2 DEF CheckEntry
<1> QED
  BY <1>3 DEF CmpFile

-----------------------------------------------------------------------------
(* The calls.                                                               *)

(* What a step makes of the call.                                            *)
LEMMA Gone ==
    ASSUME Types, NEW changed \in BOOLEAN, NEW todo \in Seq(StepNames), Go(changed, todo)
    PROVE  /\ call'.action = call.action /\ call'.p = call.p /\ call'.todo = todo
           /\ call'.seen = call.seen /\ call'.changed = changed /\ call'.before = call.before
           /\ call'.host = call.host
           /\ call'.result = IF todo = <<>> THEN "ok" ELSE "running"
           /\ call' = [action |-> call'.action, p |-> call'.p, todo |-> call'.todo,
                       seen |-> call'.seen, changed |-> call'.changed, result |-> call'.result,
                       before |-> call'.before, host |-> call'.host]
BY DEF Types, Go

LEMMA Raised ==
    ASSUME Types, Raise
    PROVE  /\ call'.action = call.action /\ call'.p = call.p /\ call'.todo = <<>>
           /\ call'.seen = call.seen /\ call'.changed = call.changed /\ call'.before = call.before
           /\ call'.host = call.host /\ call'.result = "failed"
           /\ call' = [action |-> call'.action, p |-> call'.p, todo |-> call'.todo,
                       seen |-> call'.seen, changed |-> call'.changed, result |-> call'.result,
                       before |-> call'.before, host |-> call'.host]
BY DEF Types, Raise

LEMMA Successor ==
    ASSUME NEW h, NEW x, h \in Follows(x)
    PROVE  \/ h = "image" /\ x = "compare"
           \/ h \in {"compare", "remove"} /\ x = "create"
           \/ h = "create" /\ x = "up"
           \/ h = "up" /\ x = "wait"
           \/ h = "stop" /\ x = "remove"
           \/ h = "remove" /\ x \in {"image", "verdict"}
           \/ h = "halt" /\ x = "relaunch"
BY DEF Follows

LEMMA Proceeded ==
    ASSUME Types, Calling, call.todo # <<>>, NEW changed \in BOOLEAN, Proceed(changed)
    PROVE  LET h == Head(call.todo)
               x == Head(call'.todo)
           IN  /\ call'.action = call.action /\ call'.p = call.p /\ call'.todo \in Seq(StepNames)
               /\ call'.seen = call.seen /\ call'.changed = changed
               /\ call'.before = call.before /\ call'.host = call.host
               /\ call'.result = IF call'.todo = <<>> THEN "ok" ELSE "running"
               /\ call' = [action |-> call'.action, p |-> call'.p, todo |-> call'.todo,
                           seen |-> call'.seen, changed |-> call'.changed,
                           result |-> call'.result, before |-> call'.before, host |-> call'.host]
               /\ Planned(call'.todo, call'.p, call'.action)
               /\ h \in Allowed(call.action)
               /\ call'.todo = <<>> => h \in Ends(call.p, call.action)
               /\ call'.todo # <<>> =>
                     \/ h = "image" /\ x = "compare"
                     \/ h \in {"compare", "remove"} /\ x = "create"
                     \/ h = "create" /\ x = "up"
                     \/ h = "up" /\ x = "wait"
                     \/ h = "stop" /\ x = "remove"
                     \/ h = "remove" /\ x \in {"image", "verdict"}
                     \/ h = "halt" /\ x = "relaunch"
<1> DEFINE s == call.todo
           u == Tail(s)
<1>1. s \in Seq(StepNames) /\ Planned(s, call.p, call.action)
  BY DEF Types, Calling
<1>2. /\ u \in Seq(StepNames) /\ Planned(u, call.p, call.action) /\ Head(s) \in Allowed(call.action)
      /\ u # <<>> => Head(s) \in Follows(Head(u))
      /\ u = <<>> => Head(s) \in Ends(call.p, call.action)
  BY <1>1, Onward
<1>3. /\ call'.action = call.action /\ call'.p = call.p /\ call'.todo = u
      /\ call'.seen = call.seen /\ call'.changed = changed /\ call'.before = call.before
      /\ call'.host = call.host
      /\ call'.result = IF u = <<>> THEN "ok" ELSE "running"
      /\ call' = [action |-> call'.action, p |-> call'.p, todo |-> call'.todo,
                  seen |-> call'.seen, changed |-> call'.changed, result |-> call'.result,
                  before |-> call'.before, host |-> call'.host]
  BY <1>2, Gone DEF Proceed
<1> HIDE DEF u, s
<1>4. u # <<>> =>
         \/ Head(s) = "image" /\ Head(u) = "compare"
         \/ Head(s) \in {"compare", "remove"} /\ Head(u) = "create"
         \/ Head(s) = "create" /\ Head(u) = "up"
         \/ Head(s) = "up" /\ Head(u) = "wait"
         \/ Head(s) = "stop" /\ Head(u) = "remove"
         \/ Head(s) = "remove" /\ Head(u) \in {"image", "verdict"}
         \/ Head(s) = "halt" /\ Head(u) = "relaunch"
  BY <1>2, Successor
<1> QED
  BY <1>2, <1>3, <1>4 DEF s

-----------------------------------------------------------------------------
(* What the steps of a call leave alone.                                     *)

(* start.sh goes on, or begins anew.                                         *)
LEMMA Restarted ==
    ASSUME Types, Scripts, HostKept, UNCHANGED <<info, insideVars, loaded, hostVars>>,
           step' = step \/ step' = 0,
           call'.host = call.host, call'.action = call.action
    PROVE  Scripts' /\ HostKept' /\ (Renewed => Renewed')
<1>1. step \in Nat /\ step' \in Nat /\ (step' = step \/ step' = 0)
  BY DEF Types, TypeOK, Serving
<1>2. \A k \in DOMAIN Entries : k \in Nat \ {0}
  BY ContainerAssumption DEF ContainerAssumption
<1>3. /\ Mark \in Nat \ {0} /\ Exec \in Nat \ {0} /\ Serving \in Nat \ {0}
      /\ WriteCommand \in Nat \ {0}
  BY ContainerAssumption DEF ContainerAssumption, Mark, Exec, Serving, WriteCommand
<1>4. Scripts'
  BY <1>1, <1>2, <1>3 DEF Scripts, insideVars, Strategy
<1>5. HostKept'
  BY DEF HostKept, hostVars, Older
<1>6. Renewed => Renewed'
  <2>1. ASSUME NEW k \in DOMAIN Entries, Since(k) PROVE Since(k)'
    BY <2>1 DEF Since, insideVars, hostVars
  <2>2. \A k \in DOMAIN Entries : step' > k => step > k
    BY <1>1, <1>2
  <2>3. (step' > 0 => step > 0) /\ (step' > WriteCommand => step > WriteCommand)
    BY <1>1, <1>3
  <2>4. configured' = configured /\ loaded' = loaded /\ command' = command
    BY DEF insideVars
  <2> QED
    BY <2>1, <2>2, <2>3, <2>4 DEF Renewed
<1> QED
  BY <1>4, <1>5, <1>6

(* The container is new or gone.                                             *)
LEMMA Anew ==
    ASSUME Types, HostKept, FreshContainer, UNCHANGED hostVars,
           call'.host = call.host, call'.action = call.action
    PROVE  Scripts' /\ HostKept' /\ Renewed'
<1>1. step' = 0 /\ ~configured'
  BY DEF FreshContainer
<1>2. \A k \in DOMAIN Entries : k \in Nat \ {0}
  BY ContainerAssumption DEF ContainerAssumption
<1>3. /\ Mark \in Nat \ {0} /\ Exec \in Nat \ {0} /\ Serving \in Nat \ {0}
      /\ WriteCommand \in Nat \ {0}
  BY ContainerAssumption DEF ContainerAssumption, Mark, Exec, Serving, WriteCommand
<1>4. Scripts'
  BY <1>1, <1>2, <1>3 DEF Scripts
<1>5. HostKept'
  BY DEF HostKept, hostVars, Older
<1>6. Renewed'
  BY <1>1, <1>2, <1>3 DEF Renewed
<1> QED
  BY <1>4, <1>5, <1>6

-----------------------------------------------------------------------------
(* The steps of a call, one by one.                                          *)

(* Among the types, a step of a call changes only some.                       *)
CallTypes ==
    /\ call'.action = call.action /\ call'.p = call.p /\ call'.todo \in Seq(StepNames)
    /\ call'.changed \in BOOLEAN /\ (call'.result = "running" <=> call'.todo # <<>>)
    /\ call' = [action |-> call'.action, p |-> call'.p, todo |-> call'.todo,
                seen |-> call'.seen, changed |-> call'.changed, result |-> call'.result,
                before |-> call'.before, host |-> call'.host]

LEMMA TypesStay ==
    ASSUME Types, CallTypes, UNCHANGED <<registry, hostVars, contVars, calls>>,
           volumes' \subseteq VolumeNames, local' \in [Tags -> Images \cup {Null}],
           faults' \in 0 .. MaxFaults
    PROVE  Types'
BY DEF Types, TypeOK, CallTypes, hostVars, contVars, insideVars, scriptVars

LEMMA TypesRestart ==
    ASSUME Types, CallTypes, UNCHANGED <<dockerVars, info, rc, insideVars, loaded, hostVars, countVars>>,
           state' \in {"created", "running", "restarting", "exited"},
           step' = step \/ step' = 0, state' # "running" => step' = 0, Exists \/ state' = state
    PROVE  Types'
<1>1. step' \in 0 .. Serving
  <2>1. Serving \in Nat /\ step \in 0 .. Serving
    BY ContainerAssumption DEF ContainerAssumption, Serving, Types, TypeOK
  <2> QED
    BY <2>1
<1>2. info = Null => state' = "created" /\ step' = 0 /\ ~configured
  BY DEF Types, TypeOK, Exists
<1> QED
  BY <1>1, <1>2
     DEF Types, TypeOK, CallTypes, dockerVars, hostVars, insideVars, countVars, Serving, Tags,
         VolumeNames, Images

LEMMA TypesAnew ==
    ASSUME Types, CallTypes, FreshContainer, UNCHANGED <<registry, local, hostVars, countVars>>,
           volumes' \subseteq VolumeNames, info' \in Records \cup {Null}
    PROVE  Types'
<1>1. 0 \in 0 .. Serving
  BY ContainerAssumption DEF ContainerAssumption, Serving
<1>2. files' \in [DOMAIN Entries -> Content \cup {Absent}]
  BY DEF FreshContainer
<1>3. 0 \in 0 .. json
  BY DEF Types
<1> QED
  BY <1>1, <1>2, <1>3
     DEF Types, TypeOK, CallTypes, FreshContainer, hostVars, countVars, Serving, Tags, Images,
         VolumeNames

LEMMA ImageTyped ==
    ASSUME Types
    PROVE  call.p \in Asked /\ call.p.image \in Tags /\ Image \in Images \cup {Null}
<1>1. call.p \in Asked /\ local \in [Tags -> Images \cup {Null}]
  BY DEF Types, TypeOK
<1>2. call.p.image \in Tags
  BY <1>1, ContainerAssumption DEF ContainerAssumption
<1> QED
  BY <1>1, <1>2 DEF Image

(* An image that is asked for by a tag is the one docker has for it.           *)
LEMMA OneListed ==
    ASSUME NEW have, NEW t, Listed[t] = {t}
    PROVE  ImageId(have, t) = have[t]
<1> DEFINE ids == {have[u] : u \in Listed[t]} \ {Null}
<1>1. CASE have[t] = Null
  <2>1. ids = {}
    BY <1>1
  <2> QED
    BY <1>1, <2>1 DEF ImageId
<1>2. CASE have[t] # Null
  <2>1. ids = {have[t]}
    BY <1>2
  <2>2. \A i \in ids : i = have[t]
    BY <2>1
  <2> QED
    BY <2>1, <2>2 DEF ImageId
<1> QED
  BY <1>1, <1>2

LEMMA PullStep == ASSUME CInv, Pull PROVE CInv'
<1> DEFINE new == ImageId(local, call.p.image) # ImageId(local', call.p.image)
<1>1. Types /\ Calling /\ Settled /\ Reported /\ Scripts /\ HostKept /\ Recreated
  BY DEF CInv
<1>2. /\ call.todo # <<>> /\ Head(call.todo) \in {"pull", "image"} /\ new \in BOOLEAN /\ Proceed(new)
      /\ Head(call.todo) = "image" => Image = Null
      /\ local' = [local EXCEPT ![call.p.image] = registry[call.p.image]]
      /\ UNCHANGED <<registry, volumes, contVars, hostVars, countVars>>
  BY DEF Pull, At
<1>3. /\ call.p \in Asked /\ call.p.image \in Tags /\ Image = local[call.p.image]
      /\ local \in [Tags -> Images \cup {Null}] /\ registry \in [Tags -> Images]
  BY <1>1, ImageTyped DEF Image, Types, TypeOK
<1>0. ASSUME Listed[call.p.image] = {call.p.image}
      PROVE  /\ ~new => local' = local
             /\ Image = Null => new
  <2>1. ImageId(local, call.p.image) = local[call.p.image]
        /\ ImageId(local', call.p.image) = local'[call.p.image]
    BY <1>0, OneListed
  <2>2. registry[call.p.image] # Null /\ local'[call.p.image] = registry[call.p.image]
    BY <1>2, <1>3, ContainerAssumption DEF ContainerAssumption
  <2>3. local[call.p.image] = registry[call.p.image] => local' = local
    BY <1>2, <1>3
  <2> QED
    BY <1>3, <2>1, <2>2, <2>3
<1> HIDE DEF new
<1>4. /\ CallTypes /\ call'.changed = new /\ call'.before = call.before /\ call'.host = call.host
      /\ Planned(call'.todo, call'.p, call'.action)
      /\ call'.result # "failed" /\ (call'.result = "ok" <=> call'.todo = <<>>)
  BY <1>1, <1>2, Proceeded DEF CallTypes
<1>5. /\ Head(call.todo) \in Allowed(call.action)
      /\ call'.todo = <<>> => Head(call.todo) \in Ends(call.p, call.action)
      /\ call'.todo # <<>> => Head(call.todo) = "image" /\ Head(call'.todo) = "compare"
  BY <1>1, <1>2, Proceeded
<1>6. Types'
  <2>1. local' \in [Tags -> Images \cup {Null}]
    BY <1>2, <1>3
  <2>2. volumes' \subseteq VolumeNames /\ faults' \in 0 .. MaxFaults
    BY <1>1, <1>2 DEF Types, TypeOK, countVars
  <2> QED
    BY <1>1, <1>2, <1>4, <2>1, <2>2, TypesStay DEF countVars
<1>7. Scripts' /\ HostKept'
  BY <1>1, <1>2, <1>4, Restarted DEF CallTypes, contVars, scriptVars
<1>8. CASE Head(call.todo) = "pull"
  <2>1. call.action \notin Makes /\ call'.todo = <<>> /\ call'.action = call.action
    BY <1>4, <1>5, <1>8 DEF Allowed, Makes, Making, Simple, CallTypes
  <2>2. Calling' /\ Settled' /\ Recreated'
    BY <1>4, <2>1 DEF Calling, Settled, Recreated, At, Makes
  <2>3. ASSUME ~new, Listed[call.p.image] = {call.p.image} PROVE local' = local
    BY <1>0, <2>3
  <2>4. call.result = "running" /\ ~call.changed
    BY <1>1, <1>2, <1>8 DEF Reported, At, Types, TypeOK
  <2>5. Reported'
    <3>1. SameHoldings(call.p, call.before, Holdings) /\ call'.p = call.p
      BY <1>1, <1>2, <1>4, <1>8, <2>4 DEF Reported, CallTypes, At
    <3>2. ASSUME ~new PROVE SameHoldings(call.p, call.before, Holdings')
      BY <1>2, <2>3, <3>1, <3>2 DEF SameHoldings, Holdings, contVars
    <3> QED
      BY <1>4, <2>1, <3>1, <3>2 DEF Reported, At
  <2> QED
    BY <1>6, <1>7, <2>2, <2>5 DEF CInv
<1>9. CASE Head(call.todo) = "image"
  <2>1. call'.todo # <<>> /\ Head(call'.todo) = "compare" /\ call'.action = call.action
    BY <1>4, <1>5, <1>9 DEF Ends, Makes, Simple, CallTypes
  <2>2. Listed[call.p.image] = {call.p.image} => new
    BY <1>0, <1>2, <1>9
  <2>3. Image' # Null
    <3>1. Image' = local'[call'.p.image] /\ call'.p = call.p
      BY <1>4 DEF Image, CallTypes
    <3> QED
      BY <1>2, <1>3, <3>1, ContainerAssumption DEF ContainerAssumption
  <2>4. Calling' /\ Settled'
    BY <1>4, <2>1, <2>3 DEF Calling, Settled, At
  <2>5. Reported'
    <3>1. call'.p = call.p /\ (Exists' <=> Exists) /\ call.result = "running"
      BY <1>1, <1>2, <1>4 DEF CallTypes, Exists, contVars, Types, TypeOK
    <3>2. ~call.changed => SameHoldings(call.p, call.before, Holdings)
      BY <1>1, <1>2, <1>9, <3>1 DEF Reported, At
    <3>3. ASSUME ~new, SameHoldings(call.p, call.before, Holdings)
          PROVE  SameHoldings(call.p, call.before, Holdings')
      BY <1>2, <2>2, <3>3 DEF SameHoldings, Holdings, contVars
    <3>4. call.changed => ~Exists
      BY <1>1, <1>2, <1>9 DEF Reported, At
    <3>5. ~new => \/ SameHoldings(call.p, call.before, Holdings)'
                  \/ ~Exists'
      BY <1>4, <3>1, <3>2, <3>3, <3>4
    <3> QED
      BY <1>4, <2>1, <3>5 DEF Reported, At, Simple
  <2>6. Recreated'
    BY <1>1, <1>2, <1>4, <1>9, <2>1 DEF Recreated, At, Exists, contVars
  <2> QED
    BY <1>6, <1>7, <2>4, <2>5, <2>6 DEF CInv
<1> QED
  BY <1>2, <1>8, <1>9

(* A call that fails has nothing more to do and nothing to promise.            *)
LEMMA FailedCall ==
    ASSUME Types, Raise
    PROVE  CallTypes /\ Calling' /\ Settled' /\ Reported' /\ Recreated' /\ call'.host = call.host
<1>1. /\ CallTypes /\ call'.todo = <<>> /\ call'.result = "failed" /\ call'.host = call.host
  <2>1. call.changed \in BOOLEAN /\ <<>> \in Seq(StepNames)
    BY DEF Types
  <2> QED
    BY <2>1, Raised DEF CallTypes
<1>2. Planned(<<>>, call'.p, call'.action)
  BY DEF Planned
<1> QED
  BY <1>1, <1>2 DEF Calling, Settled, Reported, Recreated, At

(* Steps that only look at the container.                                    *)
LEMMA Looked ==
    ASSUME CInv, CallTypes, call'.host = call.host,
           UNCHANGED <<dockerVars, contVars, hostVars, countVars>>
    PROVE  /\ Types' /\ Scripts' /\ HostKept'
           /\ Image' = Image /\ (Exists' <=> Exists) /\ (Same => Same') /\ Holdings' = Holdings
           /\ (Renewed => Renewed')
<1>1. Types'
  BY TypesStay DEF CInv, Types, TypeOK, dockerVars, countVars
<1>2. Scripts' /\ HostKept' /\ (Renewed => Renewed')
  BY Restarted DEF CInv, CallTypes, contVars, scriptVars
<1>3. info' = info /\ local' = local /\ volumes' = volumes /\ call'.p = call.p
  BY DEF contVars, dockerVars, CallTypes
<1>4. Image' = Image
  BY <1>3 DEF Image
<1>5. Same => Same'
  BY <1>3, <1>4 DEF Same
<1> QED
  BY <1>1, <1>2, <1>3, <1>4, <1>5 DEF Exists, Holdings

LEMMA HasImageStep == ASSUME CInv, HasImage PROVE CInv'
<1>1. Types /\ Calling /\ Settled /\ Reported /\ Scripts /\ HostKept /\ Recreated
  BY DEF CInv
<1>2. /\ call.todo # <<>> /\ Head(call.todo) = "image" /\ Image # Null
      /\ call.changed \in BOOLEAN /\ Proceed(call.changed)
      /\ UNCHANGED <<dockerVars, contVars, hostVars, countVars>>
  BY <1>1 DEF HasImage, At, Types
<1>3. /\ CallTypes /\ call'.changed = call.changed /\ call'.before = call.before
      /\ call'.host = call.host /\ Planned(call'.todo, call'.p, call'.action)
      /\ call'.action = call.action
      /\ call'.result = IF call'.todo = <<>> THEN "ok" ELSE "running"
      /\ Head(call.todo) \in Allowed(call.action)
      /\ call'.todo = <<>> => Head(call.todo) \in Ends(call.p, call.action)
      /\ call'.todo # <<>> => Head(call'.todo) = "compare"
  BY <1>1, <1>2, Proceeded DEF CallTypes
<1>4. call'.todo # <<>>
  BY <1>2, <1>3 DEF Ends, Simple
<1>5. /\ Types' /\ Scripts' /\ HostKept' /\ Image' = Image /\ (Exists' <=> Exists)
      /\ Holdings' = Holdings
  BY <1>2, <1>3, Looked
<1>6. Calling' /\ Settled'
  BY <1>2, <1>3, <1>4, <1>5 DEF Calling, Settled, At
<1>7. Reported'
  BY <1>1, <1>2, <1>3, <1>4, <1>5
     DEF Reported, SameHoldings, CallTypes, At, Simple, Types, TypeOK
<1>8. Recreated'
  BY <1>1, <1>2, <1>3, <1>4, <1>5 DEF Recreated, At
<1> QED
  BY <1>5, <1>6, <1>7, <1>8 DEF CInv

LEMMA VerdictStep == ASSUME CInv, Verdict PROVE CInv'
<1>1. Types /\ Calling /\ Settled /\ Reported /\ Scripts /\ HostKept /\ Recreated
  BY DEF CInv
<1>2. /\ call.todo # <<>> /\ Head(call.todo) = "verdict" /\ call.changed \in BOOLEAN
      /\ Proceed(call.changed) \/ Raise
      /\ UNCHANGED <<dockerVars, contVars, hostVars, countVars>>
  BY <1>1 DEF Verdict, At, Types
<1>3. CASE Raise
  <2>1. CallTypes /\ Calling' /\ Settled' /\ Reported' /\ Recreated' /\ call'.host = call.host
    BY <1>1, <1>3, FailedCall
  <2> QED
    BY <1>2, <2>1, Looked DEF CInv
<1>4. CASE Proceed(call.changed)
  <2>1. /\ CallTypes /\ call'.changed = call.changed /\ call'.before = call.before
        /\ call'.host = call.host /\ Planned(call'.todo, call'.p, call'.action)
        /\ call'.action = call.action /\ call'.p = call.p
        /\ call'.result = IF call'.todo = <<>> THEN "ok" ELSE "running"
        /\ Head(call.todo) \in Allowed(call.action)
        /\ call'.todo = <<>> => Head(call.todo) \in Ends(call.p, call.action)
        /\ call'.todo = <<>>
    BY <1>1, <1>2, <1>4, Proceeded DEF CallTypes
  <2>2. /\ Types' /\ Scripts' /\ HostKept' /\ (Exists' <=> Exists) /\ Holdings' = Holdings
        /\ (Renewed => Renewed')
    BY <1>2, <2>1, Looked
  <2>3. ~Exists
    BY <1>1, <1>2 DEF Calling, At
  <2>4. Calling' /\ Settled'
    BY <1>2, <2>1, <2>2 DEF Calling, Settled, At, Ends, Makes, Simple
  <2>5. Reported'
    BY <1>1, <1>2, <2>1, <2>2 DEF Reported, At, Types, TypeOK
  <2>6. Renewed
    <3>1. info = Null => step = 0 /\ ~configured
      BY <1>1 DEF Types, TypeOK
    <3>2. \A k \in DOMAIN Entries : k \in Nat \ {0}
      BY ContainerAssumption DEF ContainerAssumption
    <3>3. WriteCommand \in Nat \ {0}
      BY ContainerAssumption DEF ContainerAssumption, WriteCommand
    <3> QED
      BY <2>3, <3>1, <3>2, <3>3 DEF Renewed, Exists
  <2>7. Recreated'
    BY <2>1, <2>2, <2>6 DEF Recreated, At
  <2> QED
    BY <2>2, <2>4, <2>5, <2>7 DEF CInv
<1> QED
  BY <1>2, <1>3, <1>4

LEMMA RecreateStep == ASSUME CInv, Recreate PROVE CInv'
<1>1. Types /\ Calling /\ Settled /\ Reported /\ Scripts /\ HostKept /\ Recreated
  BY DEF CInv
<1>2. /\ call.todo # <<>> /\ Head(call.todo) = "recreate"
      /\ UNCHANGED <<dockerVars, contVars, hostVars, countVars>>
  BY DEF Recreate, At
<1>3. call.action = "recreate_or_restart_container" /\ call.action \in Makes
  <2>1. Head(call.todo) \in Allowed(call.action)
    BY <1>1, <1>2, Onward DEF Calling, Types
  <2> QED
    BY <1>2, <2>1 DEF Allowed, Making, Simple, Makes
<1>4. /\ call.p \in Asked /\ Strategy(call.p) \in Strategies
      /\ Image \in Images \cup {Null}
  BY <1>1, ImageTyped, StrategyCreated
<1> DEFINE differs == Differs(call.p, info, Image, state)
           restart == Exists /\ ~differs /\ Strategy(call.p) = "COPY_ALWAYS"
<1>5. \/ Raise
      \/ ~Exists /\ Go(TRUE, StartContainer)
      \/ Exists /\ Go(TRUE, <<"stop", "remove">> \o StartContainer)
      \/ restart /\ Go(TRUE, <<"halt", "relaunch">>)
  <2>1. Strategy(call.p) = "COPY_ONCE" \/ Strategy(call.p) = "COPY_ALWAYS"
    BY <1>4 DEF Strategies
  <2> QED
    BY <2>1 DEF Recreate
<1>6. restart => Exists /\ Same /\ Strategy(info) = "COPY_ALWAYS"
  BY <1>4, NoDifference, SameStrategy DEF Same
<1> HIDE DEF restart
<1>7. CASE Raise
  <2>1. CallTypes /\ Calling' /\ Settled' /\ Reported' /\ Recreated' /\ call'.host = call.host
    BY <1>1, <1>7, FailedCall
  <2> QED
    BY <1>2, <2>1, Looked DEF CInv
<1>8. ASSUME NEW todo \in Seq(StepNames), Go(TRUE, todo), todo # <<>>,
             Planned(todo, call.p, call.action),
             \/ ~Exists /\ Head(todo) = "image"
             \/ Exists /\ Head(todo) = "stop"
             \/ restart /\ Head(todo) = "halt"
      PROVE  CInv'
  <2>1. /\ CallTypes /\ call'.changed = TRUE /\ call'.before = call.before
        /\ call'.host = call.host /\ call'.action = call.action /\ call'.p = call.p
        /\ call'.todo = todo /\ call'.result = "running"
    BY <1>1, <1>8, Gone DEF CallTypes
  <2>2. /\ Types' /\ Scripts' /\ HostKept' /\ (Exists' <=> Exists) /\ (Same => Same')
    BY <1>2, <2>1, Looked
  <2>3. Calling' /\ Reported'
    BY <1>8, <2>1, <2>2 DEF Calling, Reported, At, Simple
  <2>4. Settled'
    BY <1>6, <1>8, <2>1, <2>2 DEF Settled, At
  <2>5. Strategy(info)' = Strategy(info)
    BY <1>2 DEF contVars
  <2>6. Recreated'
    BY <1>6, <1>8, <2>1, <2>2, <2>5 DEF Recreated, At
  <2> QED
    BY <2>2, <2>3, <2>4, <2>6 DEF CInv
<1>9. /\ StartContainer \in Seq(StepNames) /\ Planned(StartContainer, call.p, call.action)
      /\ Head(StartContainer) = "image" /\ StartContainer # <<>>
  BY <1>3, StartPlanned
<1>10. CASE ~Exists /\ Go(TRUE, StartContainer)
  BY <1>8, <1>9, <1>10
<1>11. CASE Exists /\ Go(TRUE, <<"stop", "remove">> \o StartContainer)
  <2>1. /\ <<"stop", "remove">> \o StartContainer \in Seq(StepNames)
        /\ Planned(<<"stop", "remove">> \o StartContainer, call.p, call.action)
        /\ Head(<<"stop", "remove">> \o StartContainer) = "stop"
        /\ <<"stop", "remove">> \o StartContainer # <<>>
    BY <1>3, <1>9, StopFirst
  <2> DEFINE u == <<"stop", "remove">> \o StartContainer
  <2> HIDE DEF u
  <2>2. u \in Seq(StepNames) /\ Planned(u, call.p, call.action) /\ Head(u) = "stop" /\ u # <<>>
        /\ Go(TRUE, u)
    BY <1>11, <2>1 DEF u
  <2> QED
    BY <1>8, <1>11, <2>2
<1>12. CASE restart /\ Go(TRUE, <<"halt", "relaunch">>)
  <2> DEFINE u == <<"halt", "relaunch">>
  <2>1. u \in Seq(StepNames) /\ Planned(u, call.p, call.action) /\ Head(u) = "halt" /\ u # <<>>
    <3>1. /\ "halt" \in StepNames /\ "relaunch" \in StepNames
          /\ "halt" \in Allowed(call.action) /\ "relaunch" \in Allowed(call.action)
          /\ "halt" \in Follows("relaunch") /\ "relaunch" \in Ends(call.p, call.action)
      BY <1>3 DEF StepNames, Allowed, Follows, Ends, Makes
    <3> QED
      BY <3>1, Pair
  <2> HIDE DEF u
  <2>2. Go(TRUE, u)
    BY <1>12 DEF u
  <2> QED
    BY <1>8, <1>12, <2>1, <2>2
<1> QED
  BY <1>5, <1>7, <1>10, <1>11, <1>12

Compared(todo) == call' = [call EXCEPT !.seen = state, !.todo = todo]

LEMMA CompareStep == ASSUME CInv, Compare PROVE CInv'
<1>1. Types /\ Calling /\ Settled /\ Reported /\ Scripts /\ HostKept /\ Recreated
  BY DEF CInv
<1>2. /\ call.todo # <<>> /\ Head(call.todo) = "compare"
      /\ UNCHANGED <<dockerVars, contVars, hostVars, countVars>>
  BY DEF Compare, At
<1> DEFINE rest == Tail(call.todo)
           differs == Exists /\ Differs(call.p, info, Image, state)
<1>3. /\ rest \in Seq(StepNames) /\ Planned(rest, call.p, call.action)
      /\ "compare" \in Allowed(call.action)
      /\ rest # <<>> => "compare" \in Follows(Head(rest))
      /\ rest = <<>> => "compare" \in Ends(call.p, call.action)
  BY <1>1, <1>2, Onward DEF Calling, Types
<1>4. rest # <<>> /\ Head(rest) = "create" /\ call.action \in Makes
  <2> HIDE DEF rest
  <2>1. rest # <<>>
    BY <1>3 DEF Ends, Simple
  <2>2. Head(rest) = "create"
    BY <1>3, <2>1, Successor
  <2>3. call.action \in Makes
    BY <1>3 DEF Allowed, Makes, Simple
  <2> QED
    BY <2>1, <2>2, <2>3
<1>5. CASE Raise
  <2>1. CallTypes /\ Calling' /\ Settled' /\ Reported' /\ Recreated' /\ call'.host = call.host
    BY <1>1, <1>5, FailedCall
  <2> QED
    BY <1>2, <2>1, Looked DEF CInv
<1>6. ASSUME NEW todo \in Seq(StepNames), todo # <<>>, Planned(todo, call.p, call.action),
             Compared(todo),
             \/ Head(todo) = "stop" /\ Exists
             \/ Head(todo) = "create" /\ ~differs
      PROVE  CInv'
  <2>1. /\ CallTypes /\ call'.changed = call.changed /\ call'.before = call.before
        /\ call'.host = call.host /\ call'.action = call.action /\ call'.p = call.p
        /\ call'.todo = todo /\ call'.seen = state /\ call'.result = "running"
    <3>1. /\ call'.action = call.action /\ call'.p = call.p /\ call'.todo = todo
          /\ call'.seen = state /\ call'.changed = call.changed /\ call'.result = call.result
          /\ call'.before = call.before /\ call'.host = call.host
          /\ call' = [action |-> call'.action, p |-> call'.p, todo |-> call'.todo,
                      seen |-> call'.seen, changed |-> call'.changed, result |-> call'.result,
                      before |-> call'.before, host |-> call'.host]
      BY <1>1, <1>6 DEF Types, Compared
    <3>2. call.result = "running" /\ call.changed \in BOOLEAN
      BY <1>1, <1>2 DEF Types, TypeOK
    <3> QED
      BY <1>6, <3>1, <3>2 DEF CallTypes
  <2>2. /\ Types' /\ Scripts' /\ HostKept' /\ (Exists' <=> Exists) /\ (Same => Same')
        /\ Holdings' = Holdings
    BY <1>2, <2>1, Looked
  <2>3. state' = state
    BY <1>2 DEF contVars
  <2>4. Calling'
    BY <1>6, <2>1 DEF Calling, At
  <2>5. Exists /\ ~differs => Same /\ state = "running"
    <3>1. call.p \in Asked
      BY <1>1, ImageTyped
    <3> QED
      BY <3>1, NoDifference DEF Same
  <2> HIDE DEF differs
  <2>6. Settled'
    BY <1>6, <2>1, <2>2, <2>3, <2>5 DEF Settled, At
  <2>7. Reported'
    BY <1>1, <1>2, <1>6, <2>1, <2>2 DEF Reported, At, Simple, Types, TypeOK
  <2>8. Recreated'
    BY <1>1, <1>2, <1>6, <2>1, <2>2 DEF Recreated, At
  <2> QED
    BY <2>2, <2>4, <2>6, <2>7, <2>8 DEF CInv
<1> DEFINE all == <<"stop", "remove">> \o rest
<1>7. /\ all \in Seq(StepNames) /\ Planned(all, call.p, call.action)
      /\ Head(all) = "stop" /\ all # <<>>
  <2> HIDE DEF rest
  <2> QED
    BY <1>3, <1>4, StopFirst
<1>8. \/ Raise
      \/ differs /\ Compared(all)
      \/ ~differs /\ Compared(rest)
  BY DEF Compare, Compared
<1> HIDE DEF rest, all
<1>9. CASE differs /\ Compared(all)
  BY <1>6, <1>7, <1>9
<1>10. CASE ~differs /\ Compared(rest)
  <2> HIDE DEF differs
  <2> QED
    BY <1>3, <1>4, <1>6, <1>10
<1> QED
  BY <1>5, <1>8, <1>9, <1>10

Made == call' = [call EXCEPT !.changed = TRUE, !.seen = "created", !.todo = Tail(@)]

LEMMA CreateStep == ASSUME CInv, Create PROVE CInv'
<1>1. Types /\ Calling /\ Settled /\ Reported /\ Scripts /\ HostKept /\ Recreated
  BY DEF CInv
<1>2. /\ call.todo # <<>> /\ Head(call.todo) = "create" /\ call.changed \in BOOLEAN
      /\ UNCHANGED <<registry, local, hostVars, countVars>>
  BY <1>1 DEF Create, At, Types
<1>3. \/ Raise /\ UNCHANGED <<volumes, contVars>>
      \/ Exists /\ Proceed(call.changed) /\ UNCHANGED <<volumes, contVars>>
      \/ /\ ~Exists /\ Image # Null /\ Made /\ info' = Created(call.p, Image)
         /\ volumes' = volumes \cup NamedVolumes(call.p) /\ FreshContainer
  BY DEF Create, Made
<1>4. call.action \in Makes /\ "create" \notin Ends(call.p, call.action)
  <2>1. Head(call.todo) \in Allowed(call.action)
    BY <1>1, <1>2, Onward DEF Calling, Types
  <2> QED
    BY <1>2, <2>1 DEF Allowed, Makes, Simple, Ends
<1>5. CASE Raise /\ UNCHANGED <<volumes, contVars>>
  <2>1. CallTypes /\ Calling' /\ Settled' /\ Reported' /\ Recreated' /\ call'.host = call.host
    BY <1>1, <1>5, FailedCall
  <2>2. UNCHANGED <<dockerVars, contVars, hostVars, countVars>>
    BY <1>2, <1>5 DEF dockerVars
  <2> QED
    BY <2>1, <2>2, Looked DEF CInv
<1>6. CASE Exists /\ Proceed(call.changed) /\ UNCHANGED <<volumes, contVars>>
  <2>1. /\ CallTypes /\ call'.changed = call.changed /\ call'.before = call.before
        /\ call'.host = call.host /\ Planned(call'.todo, call'.p, call'.action)
        /\ call'.action = call.action /\ call'.seen = call.seen
        /\ call'.todo # <<>> /\ Head(call'.todo) = "up" /\ call'.result = "running"
    BY <1>1, <1>2, <1>4, <1>6, Proceeded DEF CallTypes
  <2>2. UNCHANGED <<dockerVars, contVars, hostVars, countVars>>
    BY <1>2, <1>6 DEF dockerVars
  <2>3. /\ Types' /\ Scripts' /\ HostKept' /\ (Exists' <=> Exists) /\ (Same => Same')
        /\ Holdings' = Holdings
    BY <2>1, <2>2, Looked
  <2>4. Calling'
    BY <1>6, <2>1, <2>3 DEF Calling, At
  <2>5. Settled'
    BY <1>1, <1>2, <1>4, <1>6, <2>1, <2>3 DEF Settled, At, contVars
  <2>6. Reported'
    BY <1>1, <1>2, <1>6, <2>1, <2>3
       DEF Reported, SameHoldings, CallTypes, At, Simple, Types, TypeOK
  <2>7. Recreated'
    BY <1>1, <1>2, <1>6, <2>1 DEF Recreated, At
  <2> QED
    BY <2>3, <2>4, <2>5, <2>6, <2>7 DEF CInv
<1>7. CASE /\ ~Exists /\ Image # Null /\ Made /\ info' = Created(call.p, Image)
           /\ volumes' = volumes \cup NamedVolumes(call.p) /\ FreshContainer
  <2>1. /\ call.todo \in Seq(StepNames) /\ Planned(call.todo, call.p, call.action)
        /\ call.result = "running"
    BY <1>1, <1>2 DEF Types, TypeOK, Calling
  <2> DEFINE rest == Tail(call.todo)
  <2>2. /\ rest \in Seq(StepNames) /\ Planned(rest, call.p, call.action)
        /\ rest # <<>> /\ Head(rest) = "up"
    <3>1. /\ rest \in Seq(StepNames) /\ Planned(rest, call.p, call.action)
          /\ rest # <<>> => "create" \in Follows(Head(rest))
          /\ rest = <<>> => "create" \in Ends(call.p, call.action)
      BY <1>2, <2>1, Onward
    <3> HIDE DEF rest
    <3>2. rest # <<>> => Head(rest) = "up"
      BY <3>1, Successor
    <3> QED
      BY <1>4, <3>1, <3>2
  <2>3. /\ call'.action = call.action /\ call'.p = call.p /\ call'.todo = rest
        /\ call'.seen = "created" /\ call'.changed = TRUE /\ call'.result = call.result
        /\ call'.before = call.before /\ call'.host = call.host
        /\ call' = [action |-> call'.action, p |-> call'.p, todo |-> call'.todo,
                    seen |-> call'.seen, changed |-> call'.changed, result |-> call'.result,
                    before |-> call'.before, host |-> call'.host]
    BY <1>1, <1>7 DEF Types, Made
  <2> HIDE DEF rest
  <2>4. CallTypes
    BY <2>1, <2>2, <2>3 DEF CallTypes
  <2>5. call.p \in Asked /\ Image \in Images
    BY <1>1, <1>7, ImageTyped
  <2>6. Image' = Image /\ Exists'
    BY <1>2, <1>7, <2>3, <2>5, ContainerAssumption DEF Image, Exists, ContainerAssumption
  <2>7. Types'
    <3>1. info' \in Records
      BY <1>7, <2>5 DEF Records
    <3>2. volumes' \subseteq VolumeNames
      BY <1>1, <1>7, <2>5 DEF Types, TypeOK, VolumeNames
    <3> QED
      BY <1>1, <1>2, <1>7, <2>4, <3>1, <3>2, TypesAnew
  <2>8. Scripts' /\ HostKept' /\ Renewed'
    BY <1>1, <1>2, <1>7, <2>3, Anew
  <2>9. Same'
    BY <1>7, <2>3, <2>6 DEF Same
  <2>10. state' = "created"
    BY <1>7 DEF FreshContainer
  <2>11. Calling' /\ Settled' /\ Reported' /\ Recreated'
    BY <2>1, <2>2, <2>3, <2>6, <2>8, <2>9, <2>10 DEF Calling, Settled, Reported, Recreated, At, Simple
  <2> QED
    BY <2>7, <2>8, <2>11 DEF CInv
<1> QED
  BY <1>3, <1>5, <1>6, <1>7

(* Steps that stop or start the container.                                   *)
LEMMA Started ==
    ASSUME CInv, CallTypes, call'.host = call.host, Exists \/ state' = state,
           UNCHANGED <<dockerVars, info, rc, insideVars, loaded, hostVars, countVars>>,
           \/ UNCHANGED <<state, step>>
           \/ state' \in {"created", "running", "restarting", "exited"} /\ step' = 0
    PROVE  /\ Types' /\ Scripts' /\ HostKept'
           /\ Image' = Image /\ (Exists' <=> Exists) /\ (Same => Same') /\ Holdings' = Holdings
           /\ (Renewed => Renewed') /\ Strategy(info)' = Strategy(info)
<1>1. Types /\ Scripts /\ HostKept
  BY DEF CInv
<1>2. /\ state' \in {"created", "running", "restarting", "exited"}
      /\ step' = step \/ step' = 0
      /\ state' # "running" => step' = 0
  BY <1>1 DEF Types, TypeOK
<1>3. Types'
  BY <1>1, <1>2, TypesRestart
<1>4. Scripts' /\ HostKept' /\ (Renewed => Renewed')
  BY <1>1, <1>2, Restarted DEF CallTypes
<1>5. info' = info /\ local' = local /\ volumes' = volumes /\ call'.p = call.p
  BY DEF dockerVars, CallTypes
<1>6. Image' = Image
  BY <1>5 DEF Image
<1>7. Same => Same'
  BY <1>5, <1>6 DEF Same
<1> QED
  BY <1>3, <1>4, <1>5, <1>6, <1>7 DEF Exists, Holdings

LEMMA UpStep == ASSUME CInv, Up PROVE CInv'
<1> DEFINE changed == call.changed \/ call.seen # "running"
<1>1. Types /\ Calling /\ Settled /\ Reported /\ Scripts /\ HostKept /\ Recreated
  BY DEF CInv
<1>2. /\ call.todo # <<>> /\ Head(call.todo) = "up" /\ changed \in BOOLEAN /\ Proceed(changed)
      /\ UNCHANGED <<dockerVars, info, rc, insideVars, loaded, hostVars, countVars>>
  BY <1>1 DEF Up, At, Types
<1>3. \/ UNCHANGED <<state, step>> /\ (call.seen = "running" \/ state # "created")
      \/ state' = "running" /\ step' = 0
  BY DEF Up, Launched
<1>4. call.action \in Makes /\ "up" \notin Ends(call.p, call.action)
  <2>1. Head(call.todo) \in Allowed(call.action)
    BY <1>1, <1>2, Onward DEF Calling, Types
  <2> QED
    BY <1>2, <2>1 DEF Allowed, Makes, Simple, Ends
<1>5. Exists /\ Same /\ (state = "created" => call.seen # "running")
  BY <1>1, <1>2, <1>4 DEF Calling, Settled, At
<1> HIDE DEF changed
<1>6. /\ CallTypes /\ call'.changed = changed /\ call'.before = call.before
      /\ call'.host = call.host /\ Planned(call'.todo, call'.p, call'.action)
      /\ call'.action = call.action /\ call'.seen = call.seen
      /\ call'.todo # <<>> /\ Head(call'.todo) = "wait" /\ call'.result = "running"
  BY <1>1, <1>2, <1>4, Proceeded DEF CallTypes
<1>7. /\ Types' /\ Scripts' /\ HostKept' /\ (Exists' <=> Exists) /\ (Same => Same')
      /\ Holdings' = Holdings /\ (Renewed => Renewed')
  BY <1>2, <1>3, <1>5, <1>6, Started
<1>8. state' # "created"
  BY <1>3, <1>5
<1>9. Calling' /\ Settled'
  BY <1>5, <1>6, <1>7, <1>8 DEF Calling, Settled, At
<1>10. Reported'
  <2>1. ~changed => ~call.changed
    BY <1>1 DEF changed, Types
  <2> QED
    BY <1>1, <1>2, <1>6, <1>7, <2>1
       DEF Reported, SameHoldings, CallTypes, At, Simple, Types, TypeOK
<1>11. Recreated'
  BY <1>1, <1>2, <1>6, <1>7 DEF Recreated, At
<1> QED
  BY <1>7, <1>9, <1>10, <1>11 DEF CInv

LEMMA VerdictPlanned ==
    ASSUME NEW p, NEW a \in Makes, ~p.detach
    PROVE  LET s == <<"stop", "remove", "verdict">>
           IN  s \in Seq(StepNames) /\ Planned(s, p, a) /\ Head(s) = "stop" /\ s # <<>>
<1> DEFINE s == <<"stop", "remove", "verdict">>
<1>1. /\ s \in Seq(StepNames) /\ Len(s) = 3 /\ s[1] = "stop" /\ s[2] = "remove" /\ s[3] = "verdict"
      /\ Head(s) = "stop" /\ s # <<>>
  BY DEF StepNames
<1> HIDE DEF s
<1>2. \A i \in 1 .. 3 : s[i] \in Allowed(a)
  BY <1>1 DEF Allowed, Makes, Making
<1>3. \A i \in 2 .. 3 : s[i - 1] \in Follows(s[i])
  <2>1. \A i \in 2 .. 3 : i = 2 \/ i = 3
    OBVIOUS
  <2>2. s[2 - 1] \in Follows(s[2]) /\ s[3 - 1] \in Follows(s[3])
    BY <1>1 DEF Follows
  <2> QED
    BY <2>1, <2>2
<1>4. s[Len(s)] \in Ends(p, a)
  BY <1>1 DEF Ends, Makes
<1> QED
  BY <1>1, <1>2, <1>3, <1>4 DEF Planned, s

Waited(seen, todo) == call' = [call EXCEPT !.seen = seen, !.todo = todo]

LEMMA WaitStep == ASSUME CInv, Wait PROVE CInv'
<1>1. Types /\ Calling /\ Settled /\ Reported /\ Scripts /\ HostKept /\ Recreated
  BY DEF CInv
<1>2. /\ call.todo # <<>> /\ Head(call.todo) = "wait" /\ call.changed \in BOOLEAN
      /\ UNCHANGED <<dockerVars, contVars, hostVars, countVars>>
  BY <1>1 DEF Wait, At, Types
<1> DEFINE verdict == IF rc = 0 THEN "done" ELSE "error"
<1>3. \/ Raise
      \/ Proceed(call.changed)
      \/ ~call.p.detach /\ Waited(verdict, <<"stop", "remove", "verdict">>)
  BY DEF Wait, Waited
<1> HIDE DEF verdict
<1>4. call.action \in Makes
  <2>1. Head(call.todo) \in Allowed(call.action)
    BY <1>1, <1>2, Onward DEF Calling, Types
  <2> QED
    BY <1>2, <2>1 DEF Allowed, Makes, Simple
<1>5. CASE Raise
  <2>1. CallTypes /\ Calling' /\ Settled' /\ Reported' /\ Recreated' /\ call'.host = call.host
    BY <1>1, <1>5, FailedCall
  <2> QED
    BY <1>2, <2>1, Looked DEF CInv
<1>6. CASE Proceed(call.changed)
  <2>1. /\ CallTypes /\ call'.changed = call.changed /\ call'.before = call.before
        /\ call'.host = call.host /\ Planned(call'.todo, call'.p, call'.action)
        /\ call'.action = call.action /\ call'.p = call.p /\ call'.todo = <<>>
    BY <1>1, <1>2, <1>6, Proceeded DEF CallTypes
  <2>2. /\ Types' /\ Scripts' /\ HostKept' /\ (Exists' <=> Exists) /\ (Same => Same')
        /\ Holdings' = Holdings /\ (Renewed => Renewed')
    BY <1>2, <2>1, Looked
  <2>3. Exists /\ Same /\ state # "created" /\ state' = state
    BY <1>1, <1>2, <1>4 DEF Calling, Settled, At, contVars
  <2>4. Calling' /\ Settled'
    BY <2>1, <2>2, <2>3 DEF Calling, Settled, At
  <2>5. Reported'
    BY <1>1, <1>2, <2>1, <2>2 DEF Reported, At, Types, TypeOK
  <2>6. Recreated'
    BY <1>1, <1>2, <2>1, <2>2 DEF Recreated, At
  <2> QED
    BY <2>2, <2>4, <2>5, <2>6 DEF CInv
<1>7. CASE ~call.p.detach /\ Waited(verdict, <<"stop", "remove", "verdict">>)
  <2> DEFINE todo == <<"stop", "remove", "verdict">>
  <2>1. /\ todo \in Seq(StepNames) /\ Planned(todo, call.p, call.action) /\ Head(todo) = "stop"
        /\ todo # <<>>
    BY <1>4, <1>7, VerdictPlanned
  <2>2. Waited(verdict, todo)
    BY <1>7
  <2> HIDE DEF todo
  <2>3. /\ CallTypes /\ call'.changed = call.changed /\ call'.before = call.before
        /\ call'.host = call.host /\ call'.action = call.action /\ call'.p = call.p
        /\ call'.todo = todo /\ call'.result = "running"
    <3>1. /\ call'.action = call.action /\ call'.p = call.p /\ call'.todo = todo
          /\ call'.changed = call.changed /\ call'.result = call.result
          /\ call'.before = call.before /\ call'.host = call.host
          /\ call' = [action |-> call'.action, p |-> call'.p, todo |-> call'.todo,
                      seen |-> call'.seen, changed |-> call'.changed, result |-> call'.result,
                      before |-> call'.before, host |-> call'.host]
      BY <1>1, <2>2 DEF Types, Waited
    <3>2. call.result = "running"
      BY <1>1, <1>2 DEF Types, TypeOK
    <3> QED
      BY <1>2, <2>1, <3>1, <3>2 DEF CallTypes
  <2>4. /\ Types' /\ Scripts' /\ HostKept' /\ Holdings' = Holdings
    BY <1>2, <2>3, Looked
  <2>5. Calling' /\ Settled' /\ Recreated'
    BY <2>1, <2>3 DEF Calling, Settled, Recreated, At
  <2>6. Reported'
    BY <1>1, <1>2, <2>1, <2>3, <2>4 DEF Reported, At, Simple, Types, TypeOK
  <2> QED
    BY <2>4, <2>5, <2>6 DEF CInv
<1> QED
  BY <1>3, <1>5, <1>6, <1>7

LEMMA StopStep == ASSUME CInv, Stop PROVE CInv'
<1>1. Types /\ Calling /\ Settled /\ Reported /\ Scripts /\ HostKept /\ Recreated
  BY DEF CInv
<1>2. /\ call.todo # <<>> /\ Head(call.todo) = "stop" /\ call.changed \in BOOLEAN
      /\ UNCHANGED <<dockerVars, info, rc, insideVars, loaded, hostVars, countVars>>
  BY <1>1 DEF Stop, At, Types
<1>3. \/ Raise /\ UNCHANGED <<state, step>>
      \/ Exists /\ Proceed(call.changed) /\ UNCHANGED <<state, step>>
      \/ /\ Exists /\ Proceed(TRUE)
         /\ state' \in {"created", "running", "restarting", "exited"} /\ step' = 0
  BY DEF Stop, Halted
<1>4. CASE Raise /\ UNCHANGED <<state, step>>
  <2>1. CallTypes /\ Calling' /\ Settled' /\ Reported' /\ Recreated' /\ call'.host = call.host
    BY <1>1, <1>4, FailedCall
  <2> QED
    BY <1>2, <1>4, <2>1, Started DEF CInv
<1>5. ASSUME NEW changed \in BOOLEAN, Exists, Proceed(changed), call.changed => changed,
             \/ UNCHANGED <<state, step>>
             \/ state' \in {"created", "running", "restarting", "exited"} /\ step' = 0
      PROVE  CInv'
  <2>1. /\ CallTypes /\ call'.changed = changed /\ call'.before = call.before
        /\ call'.host = call.host /\ Planned(call'.todo, call'.p, call'.action)
        /\ call'.action = call.action
        /\ call'.result = IF call'.todo = <<>> THEN "ok" ELSE "running"
        /\ call'.todo = <<>> => Head(call.todo) \in Ends(call.p, call.action)
        /\ call'.todo # <<>> => Head(call'.todo) = "remove"
    BY <1>1, <1>2, <1>5, Proceeded DEF CallTypes
  <2>2. Types' /\ Scripts' /\ HostKept' /\ Holdings' = Holdings
    BY <1>2, <1>5, <2>1, Started
  <2>3. call'.todo = <<>> => call.action \notin Makes
    BY <1>2, <2>1 DEF Ends
  <2>4. Calling' /\ Settled' /\ Recreated'
    BY <2>1, <2>3 DEF Calling, Settled, Recreated, At, Makes
  <2>5. Reported'
    BY <1>1, <1>2, <1>5, <2>1, <2>2
       DEF Reported, SameHoldings, CallTypes, At, Simple, Types, TypeOK
  <2> QED
    BY <2>2, <2>4, <2>5 DEF CInv
<1> QED
  BY <1>2, <1>3, <1>4, <1>5

LEMMA RemoveStep == ASSUME CInv, Remove PROVE CInv'
<1>1. Types /\ Calling /\ Settled /\ Reported /\ Scripts /\ HostKept /\ Recreated
  BY DEF CInv
<1>2. /\ call.todo # <<>> /\ Head(call.todo) = "remove" /\ call.changed \in BOOLEAN
      /\ UNCHANGED <<dockerVars, hostVars, countVars>>
  BY <1>1 DEF Remove, At, Types
<1>3. \/ Proceed(TRUE) /\ info' = Null /\ FreshContainer
      \/ ~Exists /\ Proceed(call.changed) /\ UNCHANGED contVars
  BY DEF Remove
<1>4. ASSUME NEW changed \in BOOLEAN, Proceed(changed), call.changed => changed,
             ~changed => Holdings' = Holdings, ~Exists',
             (CallTypes /\ call'.host = call.host /\ call'.action = call.action)
                 => Types' /\ Scripts' /\ HostKept'
      PROVE  CInv'
  <2>1. /\ CallTypes /\ call'.changed = changed /\ call'.before = call.before
        /\ call'.host = call.host /\ Planned(call'.todo, call'.p, call'.action)
        /\ call'.action = call.action
        /\ call'.result = IF call'.todo = <<>> THEN "ok" ELSE "running"
        /\ call'.todo = <<>> => Head(call.todo) \in Ends(call.p, call.action)
        /\ call'.todo # <<>> => Head(call'.todo) \in {"create", "image", "verdict"}
    BY <1>1, <1>2, <1>4, Proceeded DEF CallTypes
  <2>2. call'.todo = <<>> => call.action \notin Makes
    BY <1>2, <2>1 DEF Ends
  <2>3. Calling' /\ Settled' /\ Recreated'
    BY <1>4, <2>1, <2>2 DEF Calling, Settled, Recreated, At, Makes
  <2>4. Reported'
    BY <1>1, <1>2, <1>4, <2>1 DEF Reported, SameHoldings, CallTypes, At, Simple, Types, TypeOK
  <2> QED
    BY <1>4, <2>1, <2>3, <2>4 DEF CInv
<1>5. CASE Proceed(TRUE) /\ info' = Null /\ FreshContainer
  <2>1. (CallTypes /\ call'.host = call.host /\ call'.action = call.action)
            => Types' /\ Scripts' /\ HostKept'
    <3> SUFFICES ASSUME CallTypes, call'.host = call.host, call'.action = call.action
                 PROVE  Types' /\ Scripts' /\ HostKept'
      OBVIOUS
    <3>1. Scripts' /\ HostKept'
      BY <1>1, <1>2, <1>5, Anew
    <3>2. Types'
      <4>1. volumes' \subseteq VolumeNames
        BY <1>1, <1>2 DEF Types, TypeOK, dockerVars
      <4> QED
        BY <1>1, <1>2, <1>5, <4>1, TypesAnew DEF dockerVars
    <3> QED
      BY <3>1, <3>2
  <2> QED
    BY <1>4, <1>5, <2>1 DEF Exists
<1>6. CASE ~Exists /\ Proceed(call.changed) /\ UNCHANGED contVars
  <2>1. (CallTypes /\ call'.host = call.host /\ call'.action = call.action)
            => Types' /\ Scripts' /\ HostKept'
    BY <1>2, <1>6, Looked
  <2>2. ~Exists' /\ Holdings' = Holdings
    BY <1>2, <1>6 DEF Exists, Holdings, contVars, dockerVars
  <2> QED
    BY <1>2, <1>4, <1>6, <2>1, <2>2
<1> QED
  BY <1>3, <1>5, <1>6

LEMMA StopAndRemoveStep == ASSUME CInv, StopAndRemove PROVE CInv'
<1>1. Types /\ Calling /\ Settled /\ Reported /\ Scripts /\ HostKept /\ Recreated
  BY DEF CInv
<1>2. /\ call.todo # <<>> /\ Head(call.todo) = "stop_and_remove" /\ call.changed \in BOOLEAN
      /\ UNCHANGED <<dockerVars, contVars, hostVars, countVars>>
  BY <1>1 DEF StopAndRemove, At, Types
<1>3. Go(call.changed, <<>>) \/ Go(call.changed, <<"stop", "remove">>)
  BY DEF StopAndRemove
<1>4. call.action \notin Makes
  <2>1. Head(call.todo) \in Allowed(call.action)
    BY <1>1, <1>2, Onward DEF Calling, Types
  <2> QED
    BY <1>2, <2>1 DEF Allowed, Makes, Making, Simple
<1>5. ASSUME NEW todo \in Seq(StepNames), Planned(todo, call.p, call.action),
             todo = <<>> \/ Head(todo) = "stop", Go(call.changed, todo)
      PROVE  CInv'
  <2>1. /\ CallTypes /\ call'.changed = call.changed /\ call'.before = call.before
        /\ call'.host = call.host /\ call'.action = call.action /\ call'.p = call.p
        /\ call'.todo = todo /\ call'.result = IF todo = <<>> THEN "ok" ELSE "running"
    BY <1>1, <1>2, <1>5, Gone DEF CallTypes
  <2>2. Types' /\ Scripts' /\ HostKept' /\ Holdings' = Holdings
    BY <1>2, <2>1, Looked
  <2>3. Calling' /\ Settled' /\ Recreated'
    BY <1>4, <1>5, <2>1 DEF Calling, Settled, Recreated, At, Makes
  <2>4. Reported'
    BY <1>1, <1>2, <1>5, <2>1, <2>2 DEF Reported, At, Simple, Types, TypeOK
  <2> QED
    BY <2>2, <2>3, <2>4 DEF CInv
<1>6. CASE Go(call.changed, <<>>)
  <2>1. <<>> \in Seq(StepNames) /\ Planned(<<>>, call.p, call.action)
    BY DEF Planned
  <2> QED
    BY <1>5, <1>6, <2>1
<1>7. CASE Go(call.changed, <<"stop", "remove">>)
  <2> DEFINE todo == <<"stop", "remove">>
  <2>1. /\ "stop" \in StepNames /\ "remove" \in StepNames
        /\ "stop" \in Allowed(call.action) /\ "remove" \in Allowed(call.action)
        /\ "stop" \in Follows("remove") /\ "remove" \in Ends(call.p, call.action)
    BY <1>4 DEF StepNames, Allowed, Makes, Follows, Ends
  <2>2. todo \in Seq(StepNames) /\ Planned(todo, call.p, call.action) /\ Head(todo) = "stop"
    BY <2>1, Pair
  <2> HIDE DEF todo
  <2>3. Go(call.changed, todo)
    BY <1>7 DEF todo
  <2> QED
    BY <1>5, <2>2, <2>3
<1> QED
  BY <1>3, <1>6, <1>7

LEMMA HaltStep == ASSUME CInv, Halt PROVE CInv'
<1>1. Types /\ Calling /\ Settled /\ Reported /\ Scripts /\ HostKept /\ Recreated
  BY DEF CInv
<1>2. /\ call.todo # <<>> /\ Head(call.todo) = "halt"
      /\ UNCHANGED <<dockerVars, info, rc, insideVars, loaded, hostVars, countVars>>
  BY DEF Halt, At
<1>3. \/ Raise /\ UNCHANGED <<state, step>>
      \/ /\ Exists /\ Proceed(TRUE)
         /\ state' \in {"created", "running", "restarting", "exited"} /\ step' = 0
  BY DEF Halt, Halted
<1>4. CASE Raise /\ UNCHANGED <<state, step>>
  <2>1. CallTypes /\ Calling' /\ Settled' /\ Reported' /\ Recreated' /\ call'.host = call.host
    BY <1>1, <1>4, FailedCall
  <2> QED
    BY <1>2, <1>4, <2>1, Started DEF CInv
<1>5. CASE /\ Exists /\ Proceed(TRUE)
           /\ state' \in {"created", "running", "restarting", "exited"} /\ step' = 0
  <2>1. /\ CallTypes /\ call'.changed = TRUE /\ call'.host = call.host
        /\ Planned(call'.todo, call'.p, call'.action) /\ call'.action = call.action
        /\ call'.result = IF call'.todo = <<>> THEN "ok" ELSE "running"
        /\ call'.todo = <<>> => Head(call.todo) \in Ends(call.p, call.action)
        /\ call'.todo # <<>> => Head(call'.todo) = "relaunch"
    BY <1>1, <1>2, <1>5, Proceeded DEF CallTypes
  <2>2. call'.todo # <<>>
    BY <1>2, <2>1 DEF Ends, Simple
  <2>3. /\ Types' /\ Scripts' /\ HostKept' /\ (Exists' <=> Exists) /\ (Same => Same')
        /\ Strategy(info)' = Strategy(info)
    BY <1>2, <1>5, <2>1, Started
  <2>4. Calling' /\ Reported'
    BY <1>5, <2>1, <2>2, <2>3 DEF Calling, Reported, At, Simple
  <2>5. Settled'
    BY <1>1, <1>2, <2>1, <2>2, <2>3 DEF Settled, At
  <2>6. Recreated'
    BY <1>1, <1>2, <2>1, <2>2, <2>3 DEF Recreated, At
  <2> QED
    BY <2>3, <2>4, <2>5, <2>6 DEF CInv
<1> QED
  BY <1>3, <1>4, <1>5

LEMMA RelaunchStep == ASSUME CInv, Relaunch PROVE CInv'
<1>1. Types /\ Calling /\ Settled /\ Reported /\ Scripts /\ HostKept /\ Recreated
  BY DEF CInv
<1>2. /\ call.todo # <<>> /\ Head(call.todo) = "relaunch" /\ call.changed \in BOOLEAN
      /\ Proceed(call.changed) /\ state' = "running" /\ step' = 0
      /\ UNCHANGED <<dockerVars, info, rc, insideVars, loaded, hostVars, countVars>>
  BY <1>1 DEF Relaunch, At, Launched, Types
<1>3. /\ CallTypes /\ call'.changed = call.changed /\ call'.before = call.before
      /\ call'.host = call.host /\ Planned(call'.todo, call'.p, call'.action)
      /\ call'.action = call.action /\ call'.todo = <<>>
  BY <1>1, <1>2, Proceeded DEF CallTypes
<1>4. Exists
  BY <1>1, <1>2 DEF Calling, At
<1>5. /\ Types' /\ Scripts' /\ HostKept' /\ (Exists' <=> Exists) /\ (Same => Same')
      /\ Holdings' = Holdings /\ Strategy(info)' = Strategy(info)
  BY <1>2, <1>3, <1>4, Started
<1>6. Calling'
  BY <1>3 DEF Calling, At
<1>7. Settled'
  BY <1>1, <1>2, <1>3, <1>4, <1>5 DEF Settled, At
<1>8. Reported'
  BY <1>1, <1>2, <1>3, <1>5 DEF Reported, SameHoldings, CallTypes, At, Types, TypeOK
<1>9. call.action = "recreate_or_restart_container" => Renewed'
  <2> SUFFICES ASSUME call.action = "recreate_or_restart_container" PROVE Renewed'
    OBVIOUS
  <2>1. Strategy(info) = "COPY_ALWAYS"
    BY <1>1, <1>2 DEF Recreated, At
  <2>2. ~configured'
    BY <1>1, <1>2, <2>1 DEF Scripts, insideVars
  <2>3. \A k \in DOMAIN Entries : k \in Nat \ {0}
    BY ContainerAssumption DEF ContainerAssumption
  <2>4. WriteCommand \in Nat \ {0}
    BY ContainerAssumption DEF ContainerAssumption, WriteCommand
  <2> QED
    BY <1>2, <2>2, <2>3, <2>4 DEF Renewed
<1>10. Recreated'
  BY <1>3, <1>9 DEF Recreated, At
<1> QED
  BY <1>5, <1>6, <1>7, <1>8, <1>10 DEF CInv

(* The steps that are a call of their own.                                   *)
LEMMA Answered ==
    ASSUME CInv, call.todo # <<>>, Head(call.todo) \in Simple, NEW changed \in BOOLEAN,
           Proceed(changed), ~changed => Holdings' = Holdings,
           UNCHANGED <<registry, contVars, hostVars, countVars>>,
           volumes' \subseteq VolumeNames, local' \in [Tags -> Images \cup {Null}]
    PROVE  CInv'
<1>1. Types /\ Calling /\ Settled /\ Reported /\ Scripts /\ HostKept /\ Recreated
  BY DEF CInv
<1>2. /\ CallTypes /\ call'.changed = changed /\ call'.before = call.before
      /\ call'.host = call.host /\ Planned(call'.todo, call'.p, call'.action)
      /\ call'.action = call.action /\ call'.todo = <<>>
      /\ Head(call.todo) \in Allowed(call.action)
  BY <1>1, Proceeded DEF CallTypes, Simple
<1>3. call.action \notin Makes
  BY <1>2 DEF Allowed, Makes, Making, Simple
<1>4. Types'
  <2>1. faults' \in 0 .. MaxFaults
    BY <1>1 DEF Types, TypeOK, countVars
  <2> QED
    BY <1>1, <1>2, <2>1, TypesStay DEF countVars
<1>5. Scripts' /\ HostKept'
  BY <1>1, <1>2, Restarted DEF CallTypes, contVars, scriptVars
<1>6. Calling' /\ Settled' /\ Recreated'
  BY <1>2, <1>3 DEF Calling, Settled, Recreated, At, Makes
<1>7. SameHoldings(call.p, call.before, Holdings)
  <2>1. ~call.changed /\ call.result = "running"
    BY <1>1 DEF Reported, At, Types, TypeOK
  <2> QED
    BY <1>1, <2>1 DEF Reported, At, Simple
<1>8. Reported'
  BY <1>2, <1>7 DEF Reported, SameHoldings, CallTypes, At
<1> QED
  BY <1>4, <1>5, <1>6, <1>8 DEF CInv

LEMMA QueryStep == ASSUME CInv, Query PROVE CInv'
<1>1. Types /\ UNCHANGED <<dockerVars, contVars, hostVars, countVars>>
  BY DEF CInv, Query
<1>2. call.todo # <<>> /\ Head(call.todo) \in Simple
  BY DEF Query, At, Simple
<1>3. \/ Raise
      \/ \E changed \in BOOLEAN : Proceed(changed)
  <2> DEFINE one == ~Exists \/ Differs(call.p, info, Image, state)
             two == ~Exists \/ state \notin {"running", "restarting"}
  <2>1. one \in BOOLEAN /\ two \in BOOLEAN
    OBVIOUS
  <2>2. Raise \/ Proceed(one) \/ Proceed(FALSE) \/ Proceed(two)
    BY DEF Query
  <2> HIDE DEF one, two
  <2> QED
    BY <2>1, <2>2
<1>4. CASE Raise
  <2>1. CallTypes /\ Calling' /\ Settled' /\ Reported' /\ Recreated' /\ call'.host = call.host
    BY <1>1, <1>4, FailedCall
  <2> QED
    BY <1>1, <2>1, Looked DEF CInv
<1>5. ASSUME NEW changed \in BOOLEAN, Proceed(changed) PROVE CInv'
  <2>1. volumes' \subseteq VolumeNames /\ local' \in [Tags -> Images \cup {Null}]
    BY <1>1 DEF Types, TypeOK, dockerVars
  <2>2. Holdings' = Holdings /\ registry' = registry
    BY <1>1 DEF Holdings, dockerVars, contVars
  <2> QED
    BY <1>1, <1>2, <1>5, <2>1, <2>2, Answered
<1> QED
  BY <1>3, <1>4, <1>5

LEMMA KeepStep == ASSUME CInv, Keep PROVE CInv'
<1>1. /\ Types /\ UNCHANGED <<registry, contVars, hostVars, countVars>>
      /\ volumes \subseteq VolumeNames /\ local \in [Tags -> Images \cup {Null}]
      /\ call.p.image \in Tags /\ Image = local[call.p.image]
  BY ImageTyped DEF CInv, Keep, Types, TypeOK, Image
<1>2. call.todo # <<>> /\ Head(call.todo) \in Simple /\ info' = info
  BY DEF Keep, At, Simple, contVars
<1>3. ASSUME Raise, UNCHANGED <<local, volumes>> PROVE CInv'
  <2>1. CallTypes /\ Calling' /\ Settled' /\ Reported' /\ Recreated' /\ call'.host = call.host
    BY <1>1, <1>3, FailedCall
  <2>2. UNCHANGED <<dockerVars, contVars, hostVars, countVars>>
    BY <1>1, <1>3 DEF dockerVars
  <2> QED
    BY <2>1, <2>2, Looked DEF CInv
<1>4. ASSUME NEW changed \in BOOLEAN, Proceed(changed), volumes' \subseteq VolumeNames,
             local' \in [Tags -> Images \cup {Null}],
             ~changed => local' = local /\ volumes' = volumes
      PROVE  CInv'
  <2>1. ~changed => Holdings' = Holdings
    BY <1>2, <1>4 DEF Holdings
  <2> QED
    BY <1>1, <1>2, <1>4, <2>1, Answered
<1>5. CASE \E v \in VolumeNames : /\ Proceed(v \notin volumes) /\ volumes' = volumes \cup {v}
                                  /\ UNCHANGED local
  <2>1. PICK v \in VolumeNames : /\ Proceed(v \notin volumes) /\ volumes' = volumes \cup {v}
                                 /\ UNCHANGED local
    BY <1>5
  <2> DEFINE changed == v \notin volumes
  <2>2. changed \in BOOLEAN /\ Proceed(changed) /\ (~changed => volumes' = volumes)
    BY <2>1
  <2>3. volumes' \subseteq VolumeNames
    BY <1>1, <2>1
  <2> HIDE DEF changed
  <2> QED
    BY <1>1, <1>4, <2>1, <2>2, <2>3
<1>6. CASE \E v \in VolumeNames : /\ Proceed(v \in volumes) /\ volumes' = volumes \ {v}
                                  /\ UNCHANGED local
  <2>1. PICK v \in VolumeNames : /\ Proceed(v \in volumes) /\ volumes' = volumes \ {v}
                                 /\ UNCHANGED local
    BY <1>6
  <2> DEFINE changed == v \in volumes
  <2>2. changed \in BOOLEAN /\ Proceed(changed) /\ (~changed => volumes' = volumes)
    BY <2>1
  <2>3. volumes' \subseteq VolumeNames
    BY <1>1, <2>1
  <2> HIDE DEF changed
  <2> QED
    BY <1>1, <1>4, <2>1, <2>2, <2>3
<1>7. CASE /\ Proceed(Image # Null) /\ local' = [local EXCEPT ![call.p.image] = Null]
           /\ UNCHANGED volumes
  <2> DEFINE changed == Image # Null
  <2>1. changed \in BOOLEAN /\ Proceed(changed) /\ volumes' = volumes
    BY <1>7
  <2>2. local' \in [Tags -> Images \cup {Null}] /\ (~changed => local' = local)
    BY <1>1, <1>7
  <2> HIDE DEF changed
  <2> QED
    BY <1>1, <1>4, <2>1, <2>2
<1>8. CASE Raise /\ UNCHANGED <<local, volumes>>
  BY <1>3, <1>8
<1> QED
  BY <1>5, <1>6, <1>7, <1>8 DEF Keep

-----------------------------------------------------------------------------
(* A call begins, or fails.                                                  *)

LEMMA ProgramPlanned ==
    ASSUME NEW action \in Actions, NEW p
    PROVE  LET s == Program(action)
           IN  /\ s \in Seq(StepNames) /\ Planned(s, p, action) /\ s # <<>>
               /\ Head(s) \in {"image", "recreate", "halt", "stop", "remove", "stop_and_remove",
                               "pull"} \cup Simple
               /\ action \in Makes => Head(s) \in {"image", "recreate"}
               /\ action = "recreate_or_restart_container" => Head(s) = "recreate"
<1>1. CASE action = "start_container"
  BY <1>1, StartPlanned DEF Makes, Program
<1>2. CASE action = "restart_container"
  <2>1. Program(action) = <<"halt", "relaunch">>
    BY <1>2 DEF Program
  <2>2. /\ "halt" \in StepNames /\ "relaunch" \in StepNames
        /\ "halt" \in Allowed(action) /\ "relaunch" \in Allowed(action)
        /\ "halt" \in Follows("relaunch") /\ "relaunch" \in Ends(p, action) /\ action \notin Makes
    BY <1>2 DEF StepNames, Allowed, Makes, Follows, Ends
  <2> DEFINE s == <<"halt", "relaunch">>
  <2>3. s \in Seq(StepNames) /\ Planned(s, p, action) /\ Head(s) = "halt" /\ s # <<>>
    BY <2>2, Pair
  <2> HIDE DEF s
  <2>4. Program(action) = s
    BY <2>1 DEF s
  <2> QED
    BY <1>2, <2>2, <2>3, <2>4
<1>3. CASE action \notin {"start_container", "restart_container"}
  <2> DEFINE x == Head(Program(action))
  <2>1. /\ Program(action) = <<x>>
        /\ x \in {"recreate", "stop", "remove", "stop_and_remove", "pull"} \cup Simple
        /\ action \in Makes => x = "recreate"
        /\ action = "recreate_or_restart_container" => x = "recreate"
        /\ x = "recreate" => action \in Makes \ {"start_container"}
    BY <1>3 DEF Program, Actions, Simple, Makes
  <2> HIDE DEF x
  <2>2. x \in StepNames /\ x \in Allowed(action) /\ x \in Ends(p, action)
    BY <2>1 DEF StepNames, Allowed, Ends, Makes
  <2>3. <<x>> \in Seq(StepNames) /\ Planned(<<x>>, p, action) /\ Head(<<x>>) = x /\ <<x>> # <<>>
    BY <2>2, Single
  <2> QED
    BY <2>1, <2>3
<1> QED
  BY <1>1, <1>2, <1>3

LEMMA CallBegins ==
    ASSUME CInv, NEW action \in Actions, NEW p \in ParamsOf(action), Call(action, p)
    PROVE  CInv'
<1>1. Types /\ Calling /\ Settled /\ Reported /\ Scripts /\ HostKept /\ Recreated
  BY DEF CInv
<1>2. p \in Asked
  <2>1. \A t \in Tags : \E q \in Asked : q.image = t
    BY ContainerAssumption DEF ContainerAssumption
  <2>2. \A t \in Tags : (CHOOSE q \in Asked : q.image = t) \in Asked
    BY <2>1
  <2> QED
    BY <2>2 DEF ParamsOf
<1> DEFINE todo == Program(action)
<1>3. /\ call'.action = action /\ call'.p = p /\ call'.todo = todo
      /\ call'.changed = FALSE /\ call'.result = "running" /\ call'.before = Holdings
      /\ call'.host = <<host, json>>
      /\ call' = [action |-> call'.action, p |-> call'.p, todo |-> call'.todo,
                  seen |-> call'.seen, changed |-> call'.changed, result |-> call'.result,
                  before |-> call'.before, host |-> call'.host]
  BY Zenon DEF Call, NoCall
<1>4. /\ todo \in Seq(StepNames) /\ Planned(todo, p, action) /\ todo # <<>>
      /\ Head(todo) \in {"image", "recreate", "halt", "stop", "remove", "stop_and_remove",
                         "pull"} \cup Simple
      /\ action \in Makes => Head(todo) \in {"image", "recreate"}
      /\ action = "recreate_or_restart_container" => Head(todo) = "recreate"
  BY ProgramPlanned
<1> HIDE DEF todo
<1>5. UNCHANGED <<dockerVars, contVars, hostVars, faults>> /\ calls' = calls + 1 /\ calls < MaxCalls
  BY DEF Call
<1>6. Types'
  <2>1. calls' \in 0 .. MaxCalls
    BY <1>1, <1>5, ContainerAssumption DEF ContainerAssumption, Types, TypeOK
  <2> QED
    BY <1>1, <1>2, <1>3, <1>4, <1>5, <2>1
       DEF Types, TypeOK, dockerVars, contVars, insideVars, scriptVars, hostVars
<1>7. Calling' /\ Settled' /\ Recreated'
  BY <1>3, <1>4 DEF Calling, Settled, Recreated, At, Simple
<1>8. Reported'
  <2>1. Holdings' = Holdings
    BY <1>5 DEF Holdings, dockerVars, contVars
  <2> QED
    BY <1>3, <2>1 DEF Reported, SameHoldings, CallTypes
<1>9. Scripts'
  BY <1>1, <1>5 DEF Scripts, contVars, insideVars, scriptVars
<1>10. HostKept'
  <2>1. /\ call'.host[1] = host /\ call'.host[2] = json /\ host' = host /\ json' = json
        /\ edits' = edits /\ json \in Nat /\ host \in [DOMAIN Entries -> Content \cup {Absent}]
    BY <1>1, <1>3, <1>5 DEF hostVars, Types
  <2>2. call'.host = <<call'.host[1], call'.host[2]>>
    BY <1>3
  <2> QED
    BY <1>1, <2>1, <2>2 DEF HostKept, Older
<1> QED
  BY <1>6, <1>7, <1>8, <1>9, <1>10 DEF CInv

LEMMA RequestFailsStep == ASSUME CInv, RequestFails PROVE CInv'
<1>1. Types /\ Scripts /\ HostKept
  BY DEF CInv
<1>2. CallTypes /\ Calling' /\ Settled' /\ Reported' /\ Recreated' /\ call'.host = call.host
  BY <1>1, FailedCall DEF RequestFails
<1>3. Scripts' /\ HostKept'
  BY <1>1, <1>2, Restarted DEF RequestFails, CallTypes, contVars, scriptVars
<1>4. Types'
  <2>1. /\ volumes' \subseteq VolumeNames /\ local' \in [Tags -> Images \cup {Null}]
        /\ faults' \in 0 .. MaxFaults
    BY <1>1, ContainerAssumption
       DEF RequestFails, Types, TypeOK, ContainerAssumption, dockerVars
  <2> QED
    BY <1>1, <1>2, <2>1, TypesStay DEF RequestFails, dockerVars
<1> QED
  BY <1>2, <1>3, <1>4 DEF CInv

-----------------------------------------------------------------------------
(* The container, the host and the registry go on by themselves.              *)

LEMMA ContentTyped ==
    ASSUME NEW f \in Content
    PROVE  f # Absent /\ DOMAIN f \subseteq Names /\ f \in [DOMAIN f -> Nat]
<1>1. PICK S \in SUBSET Names : f \in [S -> Nat]
  BY DEF Content
<1>2. Absent \notin [S -> Nat]
  BY ContainerAssumption DEF ContainerAssumption
<1> QED
  BY <1>1, <1>2

LEMMA CopiedTyped ==
    ASSUME NEW source \in Content, NEW dest \in Content \cup {Absent}
    PROVE  /\ Copied(source, dest) \in Content
           /\ \A name \in DOMAIN source : Copied(source, dest)[name] = source[name]
<1>1. DOMAIN source \subseteq Names /\ source \in [DOMAIN source -> Nat]
  BY ContentTyped
<1>2. CASE dest = Absent
  BY <1>2 DEF Copied
<1>3. CASE dest # Absent
  <2>1. DOMAIN dest \subseteq Names /\ dest \in [DOMAIN dest -> Nat]
    BY <1>3, ContentTyped
  <2> DEFINE S == DOMAIN source \cup DOMAIN dest
             c == Copied(source, dest)
  <2>2. c \in [S -> Nat] /\ S \in SUBSET Names
    BY <1>1, <1>3, <2>1 DEF Copied
  <2>3. \A name \in DOMAIN source : c[name] = source[name]
    BY <1>3 DEF Copied
  <2> QED
    BY <2>2, <2>3 DEF Content
<1> QED
  BY <1>2, <1>3

LEMMA ContentsTyped ==
    ASSUME NEW k \in DOMAIN Entries, NEW s \in Shapes[k], NEW version \in Nat
    PROVE  /\ Contents(s, version) \in Content \cup {Absent}
           /\ Contents(s, version) # Absent =>
                 \A name \in DOMAIN Contents(s, version) : Contents(s, version)[name] = version
<1>1. CASE s = Absent
  BY <1>1 DEF Contents
<1>2. CASE s # Absent
  <2>1. s \subseteq Names
    BY <1>2 DEF Names
  <2>2. Contents(s, version) = [name \in s |-> version]
    BY <1>2 DEF Contents
  <2>3. [name \in s |-> version] \in [s -> Nat]
    OBVIOUS
  <2> QED
    BY <2>1, <2>2, <2>3 DEF Content
<1> QED
  BY <1>1, <1>2

LEMMA Steps ==
    /\ \A k \in DOMAIN Entries : k \in Nat \ {0} /\ k <= Len(Entries)
    /\ \A n \in Nat \ {0} : n <= Len(Entries) => n \in DOMAIN Entries
    /\ Len(Entries) \in Nat /\ WriteCommand = Len(Entries) + 1 /\ Mark = Len(Entries) + 2
    /\ Exec = Len(Entries) + 3 /\ Serving = Len(Entries) + 4
BY ContainerAssumption DEF ContainerAssumption, WriteCommand, Mark, Exec, Serving

(* What a step that leaves the call alone has to show.                        *)
LEMMA Aside ==
    ASSUME CInv, UNCHANGED <<info, local, volumes, call>>, state' = "created" <=> state = "created",
           Types', Scripts', HostKept', Renewed /\ call.action # "none" => Renewed'
    PROVE  CInv'
<1>1. Calling /\ Settled /\ Reported /\ Recreated
  BY DEF CInv
<1>2. Image' = Image /\ (Exists' <=> Exists) /\ (Same' <=> Same) /\ Holdings' = Holdings
      /\ Strategy(info)' = Strategy(info)
  BY DEF Image, Exists, Same, Holdings
<1>3. Calling'
  BY <1>1, <1>2 DEF Calling, At
<1>4. Settled'
  BY <1>1, <1>2 DEF Settled, At
<1>5. Reported'
  BY <1>1, <1>2 DEF Reported, At
<1>6. Recreated'
  BY <1>1, <1>2 DEF Recreated, At
<1> QED
  BY <1>3, <1>4, <1>5, <1>6 DEF CInv

LEMMA LoadStep == ASSUME CInv, Load PROVE CInv'
<1>1. Types /\ Scripts /\ HostKept
  BY DEF CInv
<1>2. /\ step = 0 /\ loaded' = json /\ state = "running" /\ Exists
      /\ step' = IF Strategy(info) = "COPY_ONCE" /\ configured THEN Exec ELSE 1
      /\ UNCHANGED <<dockerVars, info, state, rc, files, command, configured, hostVars, call, countVars>>
  BY DEF Load, Starting, insideVars
<1>3. configured => Strategy(info) = "COPY_ONCE" /\ command # 0
  BY <1>1 DEF Scripts
<1>4. \/ configured /\ step' = Exec
      \/ ~configured /\ step' = 1
  BY <1>2, <1>3
<1>5. Types'
  <2>1. step' \in 0 .. Serving /\ loaded' \in 0 .. json
    BY <1>1, <1>2, <1>4, Steps DEF Types
  <2> QED
    BY <1>1, <1>2, <2>1 DEF Types, TypeOK, Exists, Serving, dockerVars, hostVars, countVars
<1>6. /\ 1 # Mark /\ 1 # Exec /\ 1 # Serving /\ Mark # Exec /\ Exec # Serving
      /\ \A k \in DOMAIN Entries : ~(1 > k)
      /\ ~(1 > WriteCommand) /\ Exec # 0
  BY Steps
<1>7. Scripts'
  <2>1. json > 0 /\ loaded' > 0
    BY <1>1, <1>2 DEF Types
  <2> QED
    BY <1>1, <1>2, <1>3, <1>4, <1>6, <2>1 DEF Scripts
<1>8. HostKept'
  BY <1>1, <1>2 DEF HostKept, hostVars, Older
<1>9. Renewed /\ call.action # "none" => Renewed'
  <2>1. \A k \in DOMAIN Entries : Since(k) => Since(k)'
    BY <1>2 DEF Since, hostVars
  <2>2. call.action # "none" => loaded' >= call.host[2]
    BY <1>1, <1>2 DEF HostKept
  <2> QED
    BY <1>2, <1>4, <1>6, <2>1, <2>2 DEF Renewed
<1>10. UNCHANGED <<info, local, volumes, call>> /\ (state' = "created" <=> state = "created")
  BY <1>2 DEF dockerVars
<1> QED
  BY <1>5, <1>7, <1>8, <1>9, <1>10, Aside

(* The process ends, at the end of its work or before.                        *)
LEMMA Exited ==
    ASSUME CInv, Exists, state = "running", NEW code \in {0, 1, 137}, Exit(code),
           UNCHANGED <<dockerVars, info, command, configured, loaded, hostVars, call, calls>>,
           faults' \in 0 .. MaxFaults, configured => files' = files,
           files' \in [DOMAIN Entries -> Content \cup {Absent}]
    PROVE  CInv'
<1>1. Types /\ Scripts /\ HostKept
  BY DEF CInv
<1>2. rc' = code /\ step' = 0 /\ state' \in {"restarting", "exited"}
  BY DEF Exit
<1>3. Types'
  <2>1. 0 \in 0 .. Serving
    BY Steps
  <2> QED
    BY <1>1, <1>2, <2>1 DEF Types, TypeOK, Exists, Serving, dockerVars, hostVars
<1>4. (\A k \in DOMAIN Entries : ~(0 > k)) /\ 0 # Mark /\ 0 # Exec /\ 0 # Serving /\ ~(0 > WriteCommand)
  BY Steps
<1>5. Scripts'
  BY <1>1, <1>2, <1>4 DEF Scripts
<1>6. HostKept'
  BY <1>1 DEF HostKept, hostVars, Older
<1>7. Renewed /\ call.action # "none" => Renewed'
  <2>1. ASSUME configured, NEW k \in DOMAIN Entries, Since(k) PROVE Since(k)'
    BY <2>1 DEF Since, hostVars
  <2> QED
    BY <1>2, <1>4, <2>1 DEF Renewed
<1>8. UNCHANGED <<info, local, volumes, call>> /\ (state' = "created" <=> state = "created")
  BY <1>2 DEF dockerVars
<1> QED
  BY <1>3, <1>5, <1>6, <1>7, <1>8, Aside

LEMMA CopyEntryStep == ASSUME CInv, CopyEntry PROVE CInv'
<1>1. Types /\ Scripts /\ HostKept
  BY DEF CInv
<1> DEFINE entry == Entries[step]
           cleared == Cleared(entry, host[step], files[step])
           new == IF Skipped(entry, host[step]) THEN files[step] ELSE Copied(host[step], cleared)
<1>2. /\ step \in DOMAIN Entries /\ Exists /\ state = "running"
      /\ UNCHANGED <<dockerVars, info, command, configured, loaded, hostVars, call, countVars>>
      /\ \/ Exit(1) /\ UNCHANGED files
         \/ /\ ~MissingSource(entry, host[step])
            /\ files' = [files EXCEPT ![step] = new] /\ step' = step + 1 /\ UNCHANGED <<state, rc>>
  BY DEF CopyEntry, Starting
<1>3. /\ files \in [DOMAIN Entries -> Content \cup {Absent}]
      /\ host \in [DOMAIN Entries -> Content \cup {Absent}] /\ faults \in 0 .. MaxFaults
  BY <1>1 DEF Types, TypeOK
<1>4. CASE Exit(1) /\ UNCHANGED files
  BY <1>2, <1>3, <1>4, Exited DEF countVars
<1>5. CASE /\ ~MissingSource(entry, host[step])
           /\ files' = [files EXCEPT ![step] = new] /\ step' = step + 1 /\ UNCHANGED <<state, rc>>
  <2>1. /\ new \in Content \cup {Absent}
        /\ entry.optional \/ new # Absent
        /\ host[step] # Absent => \A name \in DOMAIN host[step] : new[name] = host[step][name]
    <3>1. host[step] \in Content \cup {Absent} /\ cleared \in Content \cup {Absent}
      BY <1>2, <1>3 DEF Cleared
    <3>2. CASE host[step] = Absent
      BY <1>2, <1>3, <1>5, <3>2 DEF Skipped, MissingSource
    <3>3. CASE host[step] # Absent
      <4>1. new = Copied(host[step], cleared)
        BY <3>3 DEF Skipped
      <4> HIDE DEF cleared
      <4>2. /\ Copied(host[step], cleared) \in Content
            /\ \A name \in DOMAIN host[step] : Copied(host[step], cleared)[name] = host[step][name]
        BY <3>1, <3>3, CopiedTyped
      <4>3. Copied(host[step], cleared) # Absent
        BY <4>2, ContentTyped
      <4> HIDE DEF new
      <4> QED
        BY <4>1, <4>2, <4>3
    <3> QED
      BY <3>2, <3>3
  <2> HIDE DEF new
  <2>2. /\ files' \in [DOMAIN Entries -> Content \cup {Absent}] /\ files'[step] = new
        /\ \A k \in DOMAIN Entries : k # step => files'[k] = files[k]
    BY <1>2, <1>3, <1>5, <2>1
  <2>3. /\ step \in Nat \ {0} /\ step' \in 0 .. Serving /\ step' = step + 1
        /\ step # Exec /\ step # Serving /\ step' # Mark /\ step' # Exec /\ step' # Serving
        /\ ~(step' > WriteCommand)
        /\ \A k \in DOMAIN Entries : step' > k => k = step \/ step > k
    BY <1>2, <1>5, Steps
  <2>4. ~configured
    BY <1>1, <2>3 DEF Scripts
  <2>5. Types'
    BY <1>1, <1>2, <1>5, <2>2, <2>3
       DEF Types, TypeOK, Exists, Serving, dockerVars, hostVars, countVars
  <2>6. Scripts'
    <3>1. ASSUME NEW k \in DOMAIN Entries, step' > k PROVE Entries[k].optional \/ files'[k] # Absent
      BY <1>1, <2>1, <2>2, <2>3, <3>1 DEF Scripts
    <3>2. loaded > 0
      <4>1. step > 0
        BY <2>3
      <4> QED
        BY <1>1, <4>1 DEF Scripts
    <3> QED
      BY <1>2, <2>3, <2>4, <3>1, <3>2 DEF Scripts
  <2>7. HostKept'
    BY <1>1, <1>2 DEF HostKept, hostVars, Older
  <2>8. Renewed /\ call.action # "none" => Renewed'
    <3> SUFFICES ASSUME Renewed PROVE Renewed'
      OBVIOUS
    <3>1. ASSUME NEW k \in DOMAIN Entries, step' > k PROVE Since(k)'
      <4>1. host' = host /\ call' = call
        BY <1>2 DEF hostVars
      <4>2. CASE k = step
        BY <2>1, <2>2, <4>1, <4>2 DEF Since
      <4>3. CASE k # step
        <5>1. Since(k)
          BY <2>3, <3>1, <4>3 DEF Renewed
        <5> QED
          BY <2>2, <4>1, <4>3, <5>1 DEF Since
      <4> QED
        BY <4>2, <4>3
    <3>2. loaded' >= call'.host[2]
      <4>1. step > 0
        BY <2>3
      <4> QED
        BY <1>2, <4>1 DEF Renewed
    <3> QED
      BY <1>2, <2>3, <2>4, <3>1, <3>2 DEF Renewed
  <2>9. UNCHANGED <<info, local, volumes, call>> /\ (state' = "created" <=> state = "created")
    BY <1>2, <1>5 DEF dockerVars
  <2> QED
    BY <2>5, <2>6, <2>7, <2>8, <2>9, Aside
<1> QED
  BY <1>2, <1>4, <1>5

LEMMA WriteRunCommandStep == ASSUME CInv, WriteRunCommand PROVE CInv'
<1>1. Types /\ Scripts /\ HostKept
  BY DEF CInv
<1>2. /\ step = WriteCommand /\ Exists /\ state = "running" /\ command' = loaded
      /\ step' = IF Strategy(info) = "COPY_ONCE" THEN Mark ELSE Exec
      /\ UNCHANGED <<dockerVars, info, state, rc, files, configured, loaded, hostVars, call, countVars>>
  BY DEF WriteRunCommand, Starting
<1>3. /\ step' \in 0 .. Serving /\ step > 0 /\ step # Exec /\ step # Serving /\ step # 0
      /\ Mark # Exec /\ Mark # Serving /\ Exec # Serving /\ step' > WriteCommand
      /\ \A k \in DOMAIN Entries : step > k
  BY <1>2, Steps
<1>4. ~configured /\ loaded > 0 /\ loaded \in 0 .. json
  BY <1>1, <1>3 DEF Scripts, Types, TypeOK
<1>5. Types'
  BY <1>1, <1>2, <1>3, <1>4 DEF Types, TypeOK, Exists, Serving, dockerVars, hostVars, countVars
<1>6. Scripts'
  <2>1. command' # 0
    BY <1>1, <1>2, <1>4 DEF Types
  <2> QED
    BY <1>1, <1>2, <1>3, <1>4, <2>1 DEF Scripts
<1>7. HostKept'
  BY <1>1, <1>2 DEF HostKept, hostVars, Older
<1>8. Renewed /\ call.action # "none" => Renewed'
  <2>1. \A k \in DOMAIN Entries : Since(k) => Since(k)'
    BY <1>2 DEF Since, hostVars
  <2> QED
    BY <1>2, <1>3, <1>4, <2>1 DEF Renewed
<1>9. UNCHANGED <<info, local, volumes, call>> /\ (state' = "created" <=> state = "created")
  BY <1>2 DEF dockerVars
<1> QED
  BY <1>5, <1>6, <1>7, <1>8, <1>9, Aside

LEMMA MarkConfiguredStep == ASSUME CInv, MarkConfigured PROVE CInv'
<1>1. Types /\ Scripts /\ HostKept
  BY DEF CInv
<1>2. /\ step = Mark /\ Exists /\ state = "running" /\ configured' = TRUE /\ step' = Exec
      /\ UNCHANGED <<dockerVars, info, state, rc, files, command, loaded, hostVars, call, countVars>>
  BY DEF MarkConfigured, Starting
<1>3. /\ step' \in 0 .. Serving /\ step > 0 /\ Mark # Exec /\ Exec # Serving
      /\ step > WriteCommand /\ \A k \in DOMAIN Entries : step > k
  BY <1>2, Steps
<1>4. Types'
  BY <1>1, <1>2, <1>3 DEF Types, TypeOK, Exists, Serving, dockerVars, hostVars, countVars
<1>5. Scripts'
  BY <1>1, <1>2, <1>3 DEF Scripts
<1>6. HostKept'
  BY <1>1, <1>2 DEF HostKept, hostVars, Older
<1>7. Renewed /\ call.action # "none" => Renewed'
  <2>1. \A k \in DOMAIN Entries : Since(k) => Since(k)'
    BY <1>2 DEF Since, hostVars
  <2> QED
    BY <1>2, <1>3, <2>1 DEF Renewed
<1>8. UNCHANGED <<info, local, volumes, call>> /\ (state' = "created" <=> state = "created")
  BY <1>2 DEF dockerVars
<1> QED
  BY <1>4, <1>5, <1>6, <1>7, <1>8, Aside

LEMMA ExecServiceStep == ASSUME CInv, ExecService PROVE CInv'
<1>1. Types /\ Scripts /\ HostKept
  BY DEF CInv
<1>2. /\ step = Exec /\ Exists /\ state = "running"
      /\ Exit(1) \/ (step' = Serving /\ UNCHANGED <<state, rc>>)
      /\ UNCHANGED <<dockerVars, info, files, command, configured, loaded, hostVars, call, countVars>>
  BY DEF ExecService, Starting, insideVars
<1>3. CASE Exit(1)
  <2>1. files \in [DOMAIN Entries -> Content \cup {Absent}] /\ faults \in 0 .. MaxFaults
    BY <1>1 DEF Types, TypeOK
  <2> QED
    BY <1>2, <1>3, <2>1, Exited DEF countVars
<1>4. CASE step' = Serving /\ UNCHANGED <<state, rc>>
  <2>1. /\ step' \in 0 .. Serving /\ step > 0 /\ Mark # Serving /\ Exec # Serving
        /\ step > WriteCommand /\ \A k \in DOMAIN Entries : step > k
    BY <1>2, <1>4, Steps
  <2>2. Types'
    BY <1>1, <1>2, <1>4, <2>1 DEF Types, TypeOK, Exists, Serving, dockerVars, hostVars, countVars
  <2>3. Scripts'
    BY <1>1, <1>2, <1>4, <2>1 DEF Scripts
  <2>4. HostKept'
    BY <1>1, <1>2 DEF HostKept, hostVars, Older
  <2>5. Renewed /\ call.action # "none" => Renewed'
    <3>1. \A k \in DOMAIN Entries : Since(k) => Since(k)'
      BY <1>2 DEF Since, hostVars
    <3> QED
      BY <1>2, <2>1, <3>1 DEF Renewed
  <2>6. UNCHANGED <<info, local, volumes, call>> /\ (state' = "created" <=> state = "created")
    BY <1>2, <1>4 DEF dockerVars
  <2> QED
    BY <2>2, <2>3, <2>4, <2>5, <2>6, Aside
<1> QED
  BY <1>2, <1>3, <1>4

LEMMA FinishStep == ASSUME CInv, Finish PROVE CInv'
<1>1. files \in [DOMAIN Entries -> Content \cup {Absent}] /\ faults \in 0 .. MaxFaults
  BY DEF CInv, Types, TypeOK
<1> QED
  BY <1>1, Exited DEF Finish, insideVars, countVars

LEMMA CrashStep == ASSUME CInv, Crash PROVE CInv'
<1>1. Types /\ Scripts
  BY DEF CInv
<1>2. files \in [DOMAIN Entries -> Content \cup {Absent}] /\ faults' \in 0 .. MaxFaults
  <2>1. faults \in 0 .. MaxFaults /\ MaxFaults \in Nat /\ faults < MaxFaults /\ faults' = faults + 1
    BY <1>1, ContainerAssumption DEF Crash, ContainerAssumption, Types, TypeOK
  <2> QED
    BY <1>1, <2>1 DEF Types
<1>3. step \in DOMAIN Entries => ~configured
  <2>1. step \in DOMAIN Entries => step \notin {0, Exec, Serving}
    BY Steps
  <2> QED
    BY <1>1, <2>1 DEF Scripts
<1>4. configured => files' = files
  BY <1>3 DEF Crash
<1>5. files' \in [DOMAIN Entries -> Content \cup {Absent}]
  BY <1>2 DEF Crash, Cleared
<1> QED
  BY <1>2, <1>4, <1>5, Exited DEF Crash

LEMMA DockerRestartsStep == ASSUME CInv, DockerRestarts PROVE CInv'
<1>1. Types /\ Scripts /\ HostKept
  BY DEF CInv
<1>2. /\ Exists /\ state = "restarting" /\ state' = "running" /\ step' = 0
      /\ UNCHANGED <<dockerVars, info, rc, insideVars, loaded, hostVars, call, countVars>>
  BY DEF DockerRestarts, Launched
<1>3. CallTypes
  BY <1>1, <1>2 DEF CallTypes, Types, TypeOK
<1>4. Types' /\ Scripts' /\ HostKept' /\ (Renewed => Renewed')
  BY <1>2, <1>3, Started
<1>5. UNCHANGED <<info, local, volumes, call>> /\ (state' = "created" <=> state = "created")
  BY <1>2 DEF dockerVars
<1> QED
  BY <1>4, <1>5, Aside

LEMMA RewriteFileStep == ASSUME CInv, RewriteFile PROVE CInv'
<1>1. Types /\ Scripts /\ HostKept
  BY DEF CInv
<1>2. /\ edits' = edits + 1 /\ edits' \in 0 .. MaxEdits /\ edits \in Nat
      /\ UNCHANGED <<dockerVars, contVars, call, countVars>>
  <2>1. edits \in 0 .. MaxEdits /\ MaxEdits \in Nat /\ edits < MaxEdits /\ edits' = edits + 1
    BY <1>1, ContainerAssumption DEF RewriteFile, ContainerAssumption, Types, TypeOK
  <2> QED
    BY <2>1 DEF RewriteFile
<1> DEFINE Rewritten ==
      \A k \in DOMAIN Entries :
          \/ host'[k] = host[k]
          \/ host'[k] # Absent => \A name \in DOMAIN host'[k] : host'[k][name] = edits + 2
<1>3. /\ host \in [DOMAIN Entries -> Content \cup {Absent}]
      /\ json' \in Nat \ {0} /\ json' >= json
      /\ host' \in [DOMAIN Entries -> Content \cup {Absent}]
      /\ Rewritten
  <2>1. host \in [DOMAIN Entries -> Content \cup {Absent}] /\ json \in Nat \ {0}
    BY <1>1 DEF Types
  <2>2. CASE json' = json + 1 /\ UNCHANGED host
    BY <2>1, <2>2
  <2>3. ASSUME NEW k \in DOMAIN Entries, NEW s \in Shapes[k], json' = json,
               host' = [host EXCEPT ![k] = Contents(s, edits + 2)]
        PROVE  /\ json' \in Nat \ {0} /\ json' >= json
               /\ host' \in [DOMAIN Entries -> Content \cup {Absent}] /\ Rewritten
    <3> DEFINE new == Contents(s, edits + 2)
    <3>1. edits + 2 \in Nat
      BY <1>2
    <3>2. /\ new \in Content \cup {Absent}
          /\ new # Absent => \A name \in DOMAIN new : new[name] = edits + 2
      BY <3>1, ContentsTyped
    <3> HIDE DEF new
    <3>3. host' = [host EXCEPT ![k] = new]
      BY <2>3 DEF new
    <3> QED
      BY <2>1, <2>3, <3>2, <3>3
  <2> HIDE DEF Rewritten
  <2> QED
    BY <2>1, <2>2, <2>3 DEF RewriteFile
<1>4. Types'
  <2>1. loaded \in 0 .. json' /\ command \in 0 .. json'
    BY <1>1, <1>3 DEF Types, TypeOK
  <2> QED
    BY <1>1, <1>2, <1>3, <2>1
       DEF Types, TypeOK, dockerVars, contVars, insideVars, scriptVars, countVars
<1>5. Scripts'
  BY <1>1, <1>2 DEF Scripts, contVars, insideVars, scriptVars
<1>6. ASSUME NEW f \in Content \cup {Absent}, Older(f) PROVE Older(f)'
  <2> SUFFICES ASSUME f # Absent, NEW name \in DOMAIN f PROVE f[name] <= edits' + 1
    BY DEF Older
  <2>1. f[name] \in Nat
    BY ContentTyped
  <2>2. f[name] <= edits + 1
    BY <1>6 DEF Older
  <2> QED
    BY <1>2, <2>1, <2>2
<1>7. HostKept'
  <2>1. ASSUME NEW k \in DOMAIN Entries PROVE Older(host[k])'
    <3>1. CASE host'[k] = host[k]
      <4>1. Older(host[k]) /\ host[k] \in Content \cup {Absent}
        BY <1>1, <1>3 DEF HostKept
      <4> DEFINE f == host[k]
      <4>2. f # Absent => \A name \in DOMAIN f : f[name] <= edits' + 1
        BY <1>6, <4>1 DEF Older
      <4> QED
        BY <3>1, <4>2 DEF Older
    <3>2. CASE host'[k] # Absent => \A name \in DOMAIN host'[k] : host'[k][name] = edits + 2
      <4>1. edits + 2 <= edits' + 1
        BY <1>2
      <4> QED
        BY <3>2, <4>1 DEF Older
    <3> QED
      BY <1>3, <3>1, <3>2
  <2>2. call' = call
    BY <1>2
  <2>3. ASSUME call.action # "none", NEW k \in DOMAIN Entries PROVE Older(call.host[1][k])'
    <3>1. Older(call.host[1][k]) /\ call.host[1][k] \in Content \cup {Absent}
      BY <1>1, <2>3 DEF HostKept
    <3>2. call.host[1][k] # Absent =>
             \A name \in DOMAIN call.host[1][k] : call.host[1][k][name] <= edits' + 1
      BY <1>6, <3>1 DEF Older
    <3> QED
      BY <2>2, <3>2 DEF Older
  <2>4. call.action # "none" => json' >= call.host[2]
    BY <1>1, <1>3 DEF HostKept, Types
  <2> QED
    BY <1>1, <2>1, <2>2, <2>3, <2>4 DEF HostKept
<1>8. Renewed /\ call.action # "none" => Renewed'
  <2> SUFFICES ASSUME Renewed, call.action # "none" PROVE Renewed'
    OBVIOUS
  <2>1. /\ call' = call /\ files' = files /\ step' = step /\ configured' = configured
        /\ loaded' = loaded /\ command' = command
    BY <1>2 DEF contVars, insideVars, scriptVars
  <2>2. ASSUME NEW k \in DOMAIN Entries, Since(k) PROVE Since(k)'
    <3>1. CASE host'[k] = host[k]
      BY <2>1, <2>2, <3>1 DEF Since
    <3>2. CASE host'[k] # Absent => \A name \in DOMAIN host'[k] : host'[k][name] = edits + 2
      <4> SUFFICES ASSUME host'[k] = call.host[1][k], host'[k] # Absent, NEW name \in DOMAIN host'[k]
                   PROVE  FALSE
        BY <2>1 DEF Since
      <4>1. call.host[1][k][name] = edits + 2
        BY <3>2
      <4>2. call.host[1][k][name] <= edits + 1
        BY <1>1 DEF HostKept, Older
      <4> QED
        BY <1>2, <4>1, <4>2
    <3> QED
      BY <1>3, <3>1, <3>2
  <2> QED
    BY <2>1, <2>2 DEF Renewed
<1>9. UNCHANGED <<info, local, volumes, call>> /\ (state' = "created" <=> state = "created")
  BY <1>2 DEF dockerVars, contVars
<1> QED
  BY <1>4, <1>5, <1>7, <1>8, <1>9, Aside

LEMMA PushImageStep == ASSUME CInv, PushImage PROVE CInv'
<1>1. Types /\ Scripts /\ HostKept
  BY DEF CInv
<1>2. /\ edits' = edits + 1 /\ edits' \in 0 .. MaxEdits /\ edits \in Nat
      /\ UNCHANGED <<local, volumes, contVars, host, json, call, countVars>>
  <2>1. edits \in 0 .. MaxEdits /\ MaxEdits \in Nat /\ edits < MaxEdits /\ edits' = edits + 1
    BY <1>1, ContainerAssumption DEF PushImage, ContainerAssumption, Types, TypeOK
  <2> QED
    BY <2>1 DEF PushImage
<1>3. registry' \in [Tags -> Images]
  BY <1>1 DEF PushImage, Types, TypeOK
<1>4. Types'
  BY <1>1, <1>2, <1>3 DEF Types, TypeOK, contVars, insideVars, scriptVars, countVars
<1>5. Scripts'
  BY <1>1, <1>2 DEF Scripts, contVars, insideVars, scriptVars
<1>6. ASSUME NEW f \in Content \cup {Absent}, Older(f)
      PROVE  f # Absent => \A name \in DOMAIN f : f[name] <= edits' + 1
  <2> SUFFICES ASSUME f # Absent, NEW name \in DOMAIN f PROVE f[name] <= edits' + 1
    OBVIOUS
  <2>1. f[name] \in Nat
    BY ContentTyped
  <2>2. f[name] <= edits + 1
    BY <1>6 DEF Older
  <2> QED
    BY <1>2, <2>1, <2>2
<1>7. HostKept'
  <2>1. ASSUME NEW k \in DOMAIN Entries PROVE Older(host[k])'
    <3>1. Older(host[k]) /\ host[k] \in Content \cup {Absent}
      BY <1>1 DEF HostKept, Types
    <3> QED
      BY <1>2, <1>6, <3>1 DEF Older
  <2>2. ASSUME call.action # "none", NEW k \in DOMAIN Entries PROVE Older(call.host[1][k])'
    <3>1. Older(call.host[1][k]) /\ call.host[1][k] \in Content \cup {Absent}
      BY <1>1, <2>2 DEF HostKept
    <3> QED
      BY <1>2, <1>6, <3>1 DEF Older
  <2> QED
    BY <1>1, <1>2, <2>1, <2>2 DEF HostKept
<1>8. Renewed => Renewed'
  BY <1>2 DEF Renewed, Since, contVars, insideVars, scriptVars
<1>9. UNCHANGED <<info, local, volumes, call>> /\ (state' = "created" <=> state = "created")
  BY <1>2 DEF contVars
<1> QED
  BY <1>4, <1>5, <1>7, <1>8, <1>9, Aside

-----------------------------------------------------------------------------
(* The invariant.                                                            *)

LEMMA Initially == ASSUME Init PROVE CInv
<1>1. /\ call.action = "none" /\ call.p = (CHOOSE p \in Asked : TRUE) /\ call.todo = <<>>
      /\ call.changed = FALSE /\ call.result = "none"
      /\ call = [action |-> call.action, p |-> call.p, todo |-> call.todo, seen |-> call.seen,
                 changed |-> call.changed, result |-> call.result, before |-> call.before,
                 host |-> call.host]
  BY Zenon DEF Init, NoCall
<1>2. /\ registry = FirstImages /\ local = [t \in Tags |-> Null] /\ volumes = {}
      /\ info = Null /\ state = "created" /\ rc = 0
      /\ files = [k \in DOMAIN Entries |-> Absent] /\ command = 0 /\ configured = FALSE
      /\ step = 0 /\ loaded = 0 /\ json = 1 /\ edits = 0 /\ calls = 0 /\ faults = 0
      /\ DOMAIN host = DOMAIN Entries /\ host = [k \in DOMAIN Entries |-> host[k]]
      /\ \A k \in DOMAIN Entries : \E s \in Shapes[k] : host[k] = Contents(s, 1)
  BY DEF Init
<1>3. call.p \in Asked
  <2>1. \E p \in Asked : TRUE
    BY ContainerAssumption DEF ContainerAssumption
  <2> QED
    BY <1>1, <2>1
<1>4. \A k \in DOMAIN Entries :
         /\ host[k] \in Content \cup {Absent}
         /\ host[k] # Absent => \A name \in DOMAIN host[k] : host[k][name] = 1
  BY <1>2, ContentsTyped
<1>5. Types
  <2>1. registry \in [Tags -> Images]
    BY <1>2, ContainerAssumption DEF ContainerAssumption
  <2>2. 0 \in 0 .. Serving /\ 0 \in 0 .. MaxCalls /\ 0 \in 0 .. MaxEdits /\ 0 \in 0 .. MaxFaults
    BY Steps, ContainerAssumption DEF ContainerAssumption
  <2>3. host \in [DOMAIN Entries -> Content \cup {Absent}]
    BY <1>2, <1>4
  <2>4. TypeOK
    BY <1>1, <1>2, <1>3, <2>1, <2>2 DEF TypeOK
  <2>5. files \in [DOMAIN Entries -> Content \cup {Absent}] /\ info \in Records \cup {Null}
    BY <1>2
  <2>6. call.todo \in Seq(StepNames) /\ call.changed \in BOOLEAN /\ json \in Nat \ {0}
    <3>1. <<>> \in Seq(StepNames) /\ 1 \in Nat \ {0}
      OBVIOUS
    <3> QED
      BY <1>1, <1>2, <3>1
  <2> QED
    BY <1>1, <2>3, <2>4, <2>5, <2>6 DEF Types
<1>6. Calling /\ Settled /\ Reported /\ Recreated
  <2>1. Planned(<<>>, call.p, call.action)
    BY DEF Planned
  <2> QED
    BY <1>1, <2>1 DEF Calling, Settled, Reported, Recreated, At, Makes
<1>7. Scripts
  <2>1. (\A k \in DOMAIN Entries : ~(0 > k)) /\ 0 # Mark /\ 0 # Exec /\ 0 # Serving
    BY Steps
  <2> QED
    BY <1>2, <2>1 DEF Scripts
<1>8. HostKept
  BY <1>1, <1>2, <1>4 DEF HostKept, Older
<1> QED
  BY <1>5, <1>6, <1>7, <1>8 DEF CInv

LEMMA Stuttered == ASSUME CInv, UNCHANGED vars PROVE CInv'
<1>1. Types /\ Scripts /\ HostKept
  BY DEF CInv
<1>2. UNCHANGED <<dockerVars, contVars, hostVars, call, countVars>>
  BY DEF vars
<1>3. CallTypes
  BY <1>1, <1>2 DEF CallTypes, Types, TypeOK
<1>4. Types' /\ Scripts' /\ HostKept' /\ (Renewed => Renewed')
  BY <1>2, <1>3, Looked
<1>5. UNCHANGED <<info, local, volumes, call>> /\ (state' = "created" <=> state = "created")
  BY <1>2 DEF dockerVars, contVars
<1> QED
  BY <1>4, <1>5, Aside

(* The invariant holds in every state the container, docker, the host and the *)
(* module can be in.                                                        *)
THEOREM Invariance == Spec => []CInv
<1>1. Init => CInv
  BY Initially
<1>2. CInv /\ [Next]_vars => CInv'
  <2> SUFFICES ASSUME CInv, [Next]_vars PROVE CInv'
    OBVIOUS
  <2>1. CASE \E action \in Actions : \E p \in ParamsOf(action) : Call(action, p)
    BY <2>1, CallBegins
  <2>2. CASE CallStep
    BY <2>2, PullStep, HasImageStep, RecreateStep, CompareStep, CreateStep, UpStep, WaitStep,
       VerdictStep, StopStep, RemoveStep, StopAndRemoveStep, HaltStep, RelaunchStep, QueryStep,
       KeepStep
       DEF CallStep
  <2>3. CASE RequestFails
    BY <2>3, RequestFailsStep
  <2>4. CASE ScriptStep
    BY <2>4, LoadStep, CopyEntryStep, WriteRunCommandStep, MarkConfiguredStep, ExecServiceStep
       DEF ScriptStep
  <2>5. CASE Finish \/ Crash \/ DockerRestarts \/ RewriteFile \/ PushImage
    BY <2>5, FinishStep, CrashStep, DockerRestartsStep, RewriteFileStep, PushImageStep
  <2>6. CASE UNCHANGED vars
    BY <2>6, Stuttered
  <2> QED
    BY <2>1, <2>2, <2>3, <2>4, <2>5, <2>6 DEF Next
<1> QED
  BY <1>1, <1>2, PTL DEF Spec

-----------------------------------------------------------------------------
(* The properties.                                                           *)

(* The variables have their types (TypeOK), whatever the module is called for  *)
(* and in whatever step of it a request fails.                                *)
THEOREM TypeCorrect == Spec => []TypeOK
<1>1. CInv => TypeOK
  BY DEF CInv, Types
<1> QED
  BY <1>1, Invariance, PTL

(* A start or a recreation that reports success leaves a container that was    *)
(* started and has what was asked for (Delivered): start_container and         *)
(* recreate_or_restart_container.                                            *)
THEOREM Delivers == Spec => []Delivered
<1>1. CInv => Delivered
  <2> SUFFICES ASSUME CInv, Done(Makes), call.p.detach
               PROVE  Exists /\ state # "created" /\ Agrees(call.p)
    BY DEF Delivered
  <2>1. Exists /\ state # "created" /\ Same
    BY DEF CInv, Settled, Done
  <2>2. call.p \in Asked /\ Image \in Images \cup {Null} /\ info \in Records
    BY <2>1, ImageTyped DEF CInv, Types, Exists
  <2> QED
    BY <2>1, <2>2, SameAgrees
<1> QED
  BY <1>1, Invariance, PTL

(* Asking again for the container that was just made is not a change           *)
(* (RepeatIsQuiet): check_container_differs after create_container, for tasks  *)
(* that ask for nothing docker reports in another way.                        *)
THEOREM RepeatQuiet == Spec => []RepeatIsQuiet
<1>1. CInv => RepeatIsQuiet
  <2> SUFFICES ASSUME CInv, Done(Makes), call.p.detach, Plain(call.p), state = "running"
               PROVE  ~Differs(call.p, info, Image, "running")
    BY DEF RepeatIsQuiet
  <2>1. Same /\ call.p \in Asked /\ Image \in Images \cup {Null}
    BY ImageTyped DEF CInv, Settled, Done
  <2>2. CASE Image # Null /\ info = Created(call.p, Image)
    BY <2>1, <2>2, CreatedQuiet
  <2> QED
    BY <2>1, <2>2 DEF Same
<1> QED
  BY <1>1, Invariance, PTL

(* The service that comes up after recreate_or_restart_container has read the  *)
(* files that were on the host when it was called, or newer ones               *)
(* (ConfigTakesEffect), although files are rewritten and the container dies    *)
(* and is restarted in the meantime.                                         *)
THEOREM ConfigEffective == Spec => []ConfigTakesEffect
<1>1. CInv => ConfigTakesEffect
  <2> SUFFICES ASSUME CInv, Done({"recreate_or_restart_container"}), step = Serving
               PROVE  /\ command >= call.host[2]
                      /\ \A k \in DOMAIN Entries : Since(k)
    BY DEF ConfigTakesEffect, Since
  <2>1. Renewed
    BY DEF CInv, Recreated, Done
  <2>2. step > WriteCommand /\ \A k \in DOMAIN Entries : step > k
    BY Steps
  <2> QED
    BY <2>1, <2>2 DEF Renewed
<1> QED
  BY <1>1, Invariance, PTL

(* No service runs without a file it must have or with another command than    *)
(* its files were chosen by, and what --check calls in order is as on the host *)
(* (ServiceConfigured): start.sh and kolla_set_configs, killed and restarted   *)
(* at any point.                                                            *)
THEOREM Configured == Spec => []ServiceConfigured
<1>1. CInv => ServiceConfigured
  <2> SUFFICES ASSUME CInv PROVE ServiceConfigured
    OBVIOUS
  <2>1. Scripts
    BY DEF CInv
  <2>2. Serving \in {Mark, Exec, Serving} /\ \A k \in DOMAIN Entries : Serving > k
    BY Steps
  <2> QED
    BY <2>1, <2>2, CheckedSame DEF ServiceConfigured, Scripts
<1> QED
  BY <1>1, Invariance, PTL

(* A call that ends well and says "unchanged" has changed nothing docker has   *)
(* (ChangesReported): the flag self.changed of the module.                    *)
THEOREM Reports == Spec => []ChangesReported
<1>1. CInv => ChangesReported
  BY DEF CInv, Reported, ChangesReported, Types, TypeOK, At
<1> QED
  BY <1>1, Invariance, PTL

(* A container that copies once never changes its files or its command again,  *)
(* however often it dies and is restarted (OnceImmutable): /configured and     *)
(* execute_config_strategy.                                                  *)
THEOREM OnceStays == Spec => OnceImmutable
<1> DEFINE Kept == Exists /\ Exists' /\ configured /\ configured'
                       => files' = files /\ command' = command
<1>1. CInv /\ [Next]_vars => [Kept]_vars
  <2> SUFFICES ASSUME CInv, Next, Exists, Exists', configured, configured'
               PROVE  files' = files /\ command' = command
    BY DEF Kept
  <2>1. step \in {0, Exec, Serving}
    BY DEF CInv, Scripts
  <2>2. step # WriteCommand /\ step \notin DOMAIN Entries
    BY <2>1, Steps
  <2>3. CASE \E action \in Actions : \E p \in ParamsOf(action) : Call(action, p)
    BY <2>3 DEF Call, contVars, insideVars
  <2>4. CASE CallStep
    BY <2>4 DEF CallStep, Pull, HasImage, Recreate, Compare, Create, Up, Wait, Verdict, Stop,
                Remove, StopAndRemove, Halt, Relaunch, Query, Keep, contVars, insideVars,
                FreshContainer, Exists
  <2>5. CASE RequestFails
    BY <2>5 DEF RequestFails, contVars, insideVars
  <2>6. CASE ScriptStep
    BY <2>2, <2>6 DEF ScriptStep, Load, CopyEntry, WriteRunCommand, MarkConfigured, ExecService,
                      insideVars
  <2>7. CASE Finish \/ Crash \/ DockerRestarts
    BY <2>2, <2>7 DEF Finish, Crash, DockerRestarts, insideVars
  <2>8. CASE RewriteFile \/ PushImage
    BY <2>8 DEF RewriteFile, PushImage, contVars, insideVars
  <2> QED
    BY <2>3, <2>4, <2>5, <2>6, <2>7, <2>8 DEF Next
<1> QED
  BY <1>1, Invariance, PTL DEF Spec, OnceImmutable

=============================================================================
