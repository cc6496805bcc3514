------------------------ MODULE MergeConfigs_proofs ------------------------
(***************************************************************************)
(* Proofs about MergeConfigs: a merged file says of every key what the last    *)
(* file that speaks of it says, for any number of files of any length.         *)
(*                                                                         *)
(* The loops of the plugin are functions of the number of iterations; what     *)
(* they compute is shown by induction over that number.  The first part has    *)
(* what is needed of concatenations, here and in other proofs.                 *)
(***************************************************************************)
EXTENDS MergeConfigs, FiniteSetTheorems, SequenceTheorems, WellFoundedInduction, TLAPS

-----------------------------------------------------------------------------
(* Sequences                                                                *)

(* The least number that is not in S has one before it that is.                *)
LEMMA SetInduction ==
    ASSUME NEW S, 0 \in S, \A n \in Nat : n \in S => n + 1 \in S
    PROVE  Nat \subseteq S
<1> DEFINE T == Nat \ S
           R == OpToRel(<, Nat)
<1> SUFFICES ASSUME T # {} PROVE FALSE
  OBVIOUS
<1>1. IsWellFoundedOn(R, Nat)
  BY NatLessThanWellFounded
<1>2. T \subseteq Nat
  OBVIOUS
<1>3. \E x \in T : \A y \in T : ~ (<<y, x>> \in R)
  BY <1>1, <1>2, WFMin
<1>4. PICK x \in T : \A y \in T : ~ (<<y, x>> \in R)
  BY <1>3
<1>5. x \in Nat /\ x # 0
  BY <1>2
<1>6. x - 1 \in Nat /\ x - 1 < x /\ (x - 1) + 1 = x
  BY <1>5
<1>7. x - 1 \in T
  BY <1>4, <1>6
<1>8. <<x - 1, x>> \in R
  BY <1>5, <1>6 DEF OpToRel
<1> QED
  BY <1>4, <1>7, <1>8

(* The concatenations of which FlattenSeq takes the last.                      *)
Joined(ss, f, i) == IF i = 1 THEN ss[i] ELSE f[i - 1] \o ss[i]
Flattens(ss, f, n) == f = [i \in 1 .. n |-> Joined(ss, f, i)]
Flat(ss) == CHOOSE f : Flattens(ss, f, Len(ss))

LEMMA JoinedSame ==
    ASSUME NEW ss, NEW f, NEW g, NEW i, i = 1 \/ f[i - 1] = g[i - 1]
    PROVE  Joined(ss, f, i) = Joined(ss, g, i)
  BY DEF Joined

LEMMA FlatExists ==
    ASSUME NEW ss, Len(ss) \in Nat
    PROVE  Flattens(ss, Flat(ss), Len(ss))
<1> DEFINE S == {n \in Nat : \E f : Flattens(ss, f, n)}
<1>1. 0 \in S
  <2>1. Flattens(ss, [i \in 1 .. 0 |-> 0], 0)
    BY DEF Flattens
  <2> QED
    BY <2>1
<1>2. ASSUME NEW n \in Nat, n \in S PROVE n + 1 \in S
  <2>1. PICK f : Flattens(ss, f, n)
    BY <1>2
  <2> DEFINE g == [i \in 1 .. n + 1 |-> Joined(ss, f, i)]
  <2>2. \A i \in 1 .. n : f[i] = Joined(ss, f, i)
    BY <2>1 DEF Flattens
  <2>3. \A i \in 1 .. n : g[i] = f[i]
    BY <2>2
  <2>4. ASSUME NEW i \in 1 .. n + 1 PROVE g[i] = Joined(ss, g, i)
    <3>1. i = 1 \/ i - 1 \in 1 .. n
      OBVIOUS
    <3>2. i = 1 \/ f[i - 1] = g[i - 1]
      BY <3>1, <2>3
    <3>3. g[i] = Joined(ss, f, i)
      OBVIOUS
    <3> HIDE DEF g
    <3> QED
      BY <3>2, <3>3, JoinedSame
  <2>5. g = [i \in 1 .. n + 1 |-> Joined(ss, g, i)]
    <3>1. g = [i \in 1 .. n + 1 |-> g[i]]
      OBVIOUS
    <3> HIDE DEF g
    <3> QED
      BY <3>1, <2>4
  <2>6. Flattens(ss, g, n + 1)
    BY <2>5 DEF Flattens
  <2> HIDE DEF g
  <2> QED
    BY <2>6
<1>3. Nat \subseteq S
  BY <1>1, <1>2, SetInduction
<1>4. \E f : Flattens(ss, f, Len(ss))
  BY <1>3
<1> QED
  BY <1>4 DEF Flat

LEMMA FlatStep ==
    ASSUME NEW ss, Len(ss) \in Nat
    PROVE  /\ Len(ss) > 0 => Flat(ss)[1] = ss[1]
           /\ \A i \in 1 .. Len(ss) : i > 1 => Flat(ss)[i] = Flat(ss)[i - 1] \o ss[i]
<1>1. \A i \in 1 .. Len(ss) : Flat(ss)[i] = Joined(ss, Flat(ss), i)
  BY FlatExists DEF Flattens
<1>2. Len(ss) > 0 => Flat(ss)[1] = Joined(ss, Flat(ss), 1)
  BY <1>1
<1>3. Joined(ss, Flat(ss), 1) = ss[1]
  BY DEF Joined
<1>4. ASSUME NEW i \in 1 .. Len(ss), i > 1
      PROVE  Joined(ss, Flat(ss), i) = Flat(ss)[i - 1] \o ss[i]
  <2>1. i # 1
    BY <1>4
  <2> QED
    BY <2>1, Zenon DEF Joined
<1> QED
  BY <1>1, <1>2, <1>3, <1>4

LEMMA ConcatAt ==
    ASSUME NEW T, NEW s \in Seq(T), NEW t \in Seq(T)
    PROVE  /\ s \o t \in Seq(T)
           /\ Len(s) \in Nat /\ Len(t) \in Nat /\ Len(s \o t) = Len(s) + Len(t)
           /\ DOMAIN s = 1 .. Len(s) /\ DOMAIN t = 1 .. Len(t)
           /\ DOMAIN (s \o t) = 1 .. Len(s) + Len(t)
           /\ \A i \in 1 .. Len(s) : i \in DOMAIN (s \o t) /\ (s \o t)[i] = s[i]
           /\ \A i \in 1 .. Len(t) : /\ Len(s) + i \in DOMAIN (s \o t)
                                   /\ (s \o t)[Len(s) + i] = t[i]
  OBVIOUS

LEMMA FlattenIsFlat ==
    ASSUME NEW ss, Len(ss) \in Nat
    PROVE  /\ Len(ss) = 0 => FlattenSeq(ss) = ss
           /\ Len(ss) # 0 => FlattenSeq(ss) = Flat(ss)[Len(ss)]
  BY DEF FlattenSeq, Flat, Flattens, Joined

-----------------------------------------------------------------------------
(* The loops of merge_configs                                                *)

(* An iteration: over the lines of a file, the sections read, or the sources. *)
Iterate(loop, over, c, i) ==
    IF loop = "lines" THEN Line(c, over[i])
    ELSE IF loop = "sections" THEN Override(c, over, over.order[i])
    ELSE ReadConfig(c, over[i])
Iterated(loop, over, c, f, i) == IF i = 0 THEN c ELSE Iterate(loop, over, f[i - 1], i)
Loops(f, loop, over, c, n) == f = [i \in 0 .. n |-> Iterated(loop, over, c, f, i)]

LEMMA LoopExists ==
    ASSUME NEW loop, NEW over, NEW c, NEW n \in Nat
    PROVE  \E f : Loops(f, loop, over, c, n)
<1> DEFINE S == {m \in Nat : \E f : Loops(f, loop, over, c, m)}
<1>1. 0 \in S
  <2>1. Loops([i \in 0 .. 0 |-> c], loop, over, c, 0)
    BY DEF Loops, Iterated
  <2> QED
    BY <2>1
<1>2. ASSUME NEW m \in Nat, m \in S PROVE m + 1 \in S
  <2>1. PICK f : Loops(f, loop, over, c, m)
    BY <1>2
  <2> DEFINE g == [i \in 0 .. m + 1 |-> IF i <= m THEN f[i] ELSE Iterated(loop, over, c, f, i)]
  <2>2. ASSUME NEW i \in 0 .. m + 1 PROVE g[i] = Iterated(loop, over, c, g, i)
    <3>1. i # 0 => g[i - 1] = f[i - 1]
      OBVIOUS
    <3>2. Iterated(loop, over, c, g, i) = Iterated(loop, over, c, f, i)
      BY <3>1 DEF Iterated
    <3>3. CASE i <= m
      <4>1. i \in 0 .. m
        BY <3>3
      <4>2. f[i] = Iterated(loop, over, c, f, i)
        BY <4>1, <2>1 DEF Loops
      <4> QED
        BY <3>2, <3>3, <4>2
    <3>4. CASE ~(i <= m)
      BY <3>2, <3>4
    <3> QED
      BY <3>3, <3>4
  <2>3. g = [i \in 0 .. m + 1 |-> Iterated(loop, over, c, g, i)]
    BY <2>2
  <2> HIDE DEF g
  <2>4. Loops(g, loop, over, c, m + 1)
    BY <2>3 DEF Loops
  <2> QED
    BY <2>4
<1> HIDE DEF S
<1>3. n \in S
  BY <1>1, <1>2, SetInduction
<1> QED
  BY <1>3 DEF S

(* The states of the three loops. *)
Lines(c, file) ==
    CHOOSE after : after = [i \in 0 .. Len(file) |->
                               IF i = 0 THEN c ELSE Line(after[i - 1], file[i])]
Sections(c, new) ==
    CHOOSE after : after = [i \in 0 .. Len(new.order) |->
                               IF i = 0 THEN c ELSE Override(after[i - 1], new, new.order[i])]
Files(sources) ==
    CHOOSE after : after = [i \in 0 .. Len(sources) |->
                               IF i = 0 THEN Nothing ELSE ReadConfig(after[i - 1], sources[i])]

LEMMA LinesAre ==
    ASSUME NEW c, NEW file, Len(file) \in Nat
    PROVE  /\ Reads(c, file) = Lines(c, file)[Len(file)]
           /\ Lines(c, file)[0] = c
           /\ \A i \in 1 .. Len(file) : Lines(c, file)[i] = Line(Lines(c, file)[i - 1], file[i])
<1> DEFINE Is(f) == f = [i \in 0 .. Len(file) |-> IF i = 0 THEN c ELSE Line(f[i - 1], file[i])]
<1>1. \E f : Is(f)
  <2>1. PICK f : Loops(f, "lines", file, c, Len(file))
    BY LoopExists
  <2>2. f = [i \in 0 .. Len(file) |-> Iterated("lines", file, c, f, i)]
    BY <2>1 DEF Loops
  <2>3. \A i : Iterated("lines", file, c, f, i) = IF i = 0 THEN c ELSE Line(f[i - 1], file[i])
    BY DEF Iterated, Iterate
  <2> QED
    BY <2>2, <2>3
<1>2. Lines(c, file) = [i \in 0 .. Len(file) |->
                           IF i = 0 THEN c ELSE Line(Lines(c, file)[i - 1], file[i])]
  BY <1>1 DEF Lines
<1>3. Reads(c, file) = Lines(c, file)[Len(file)]
  BY DEF Reads, Lines
<1> HIDE DEF Is
<1> QED
  BY <1>2, <1>3

LEMMA SectionsAre ==
    ASSUME NEW c, NEW file, NEW new, new = Parse(file), Len(new.order) \in Nat
    PROVE  /\ Parsed(c, file) = Sections(c, new)[Len(new.order)]
           /\ Sections(c, new)[0] = c
           /\ \A i \in 1 .. Len(new.order) :
                 Sections(c, new)[i] = Override(Sections(c, new)[i - 1], new, new.order[i])
<1> DEFINE Is(f) == f = [i \in 0 .. Len(new.order) |->
                            IF i = 0 THEN c ELSE Override(f[i - 1], new, new.order[i])]
<1>1. \E f : Is(f)
  <2>1. PICK f : Loops(f, "sections", new, c, Len(new.order))
    BY LoopExists
  <2>2. f = [i \in 0 .. Len(new.order) |-> Iterated("sections", new, c, f, i)]
    BY <2>1 DEF Loops
  <2>3. \A i : Iterated("sections", new, c, f, i)
                 = IF i = 0 THEN c ELSE Override(f[i - 1], new, new.order[i])
    BY DEF Iterated, Iterate
  <2> QED
    BY <2>2, <2>3
<1>2. Sections(c, new) = [i \in 0 .. Len(new.order) |->
                             IF i = 0 THEN c
                             ELSE Override(Sections(c, new)[i - 1], new, new.order[i])]
  BY <1>1 DEF Sections
<1>3. Parsed(c, file) = Sections(c, Parse(file))[Len(Parse(file).order)]
  BY DEF Parsed, Sections
<1> HIDE DEF Is
<1> QED
  BY <1>2, <1>3

LEMMA FilesAre ==
    ASSUME NEW sources, Len(sources) \in Nat
    PROVE  /\ Merge(sources) = Write(Files(sources)[Len(sources)])
           /\ Files(sources)[0] = Nothing
           /\ \A i \in 1 .. Len(sources) :
                 Files(sources)[i] = ReadConfig(Files(sources)[i - 1], sources[i])
<1> DEFINE Is(f) == f = [i \in 0 .. Len(sources) |->
                            IF i = 0 THEN Nothing ELSE ReadConfig(f[i - 1], sources[i])]
<1>1. \E f : Is(f)
  <2>1. PICK f : Loops(f, "sources", sources, Nothing, Len(sources))
    BY LoopExists
  <2>2. f = [i \in 0 .. Len(sources) |-> Iterated("sources", sources, Nothing, f, i)]
    BY <2>1 DEF Loops
  <2>3. \A i : Iterated("sources", sources, Nothing, f, i)
                 = IF i = 0 THEN Nothing ELSE ReadConfig(f[i - 1], sources[i])
    BY DEF Iterated, Iterate
  <2> QED
    BY <2>2, <2>3
<1>2. Files(sources) = [i \in 0 .. Len(sources) |->
                           IF i = 0 THEN Nothing
                           ELSE ReadConfig(Files(sources)[i - 1], sources[i])]
  BY <1>1 DEF Files
<1>3. Merge(sources) = Write(Files(sources)[Len(sources)])
  BY DEF Merge, Files
<1> HIDE DEF Is
<1> QED
  BY <1>2, <1>3

(* Reading two files one after the other is reading both as one. *)
LEMMA ReadsOn ==
    ASSUME NEW T, NEW s \in Seq(T), NEW t \in Seq(T), NEW c
    PROVE  Reads(c, s \o t) = Reads(Reads(c, s), t)
<1> DEFINE f == Lines(c, s \o t)
           g == Lines(c, s)
           h == Lines(Reads(c, s), t)
           S == {i \in Nat : i <= Len(s) => f[i] = g[i]}
           U == {i \in Nat : i <= Len(t) => f[Len(s) + i] = h[i]}
<1>1. /\ s \o t \in Seq(T)
      /\ Len(s) \in Nat /\ Len(t) \in Nat /\ Len(s \o t) = Len(s) + Len(t)
      /\ \A i \in 1 .. Len(s) : (s \o t)[i] = s[i]
      /\ \A i \in 1 .. Len(t) : (s \o t)[Len(s) + i] = t[i]
  BY ConcatAt
<1>2. /\ Reads(c, s \o t) = f[Len(s \o t)] /\ f[0] = c
      /\ \A i \in 1 .. Len(s \o t) : f[i] = Line(f[i - 1], (s \o t)[i])
  <2> DEFINE u == s \o t
  <2>1. Len(u) \in Nat
    BY <1>1
  <2> HIDE DEF u
  <2>2. /\ Reads(c, u) = Lines(c, u)[Len(u)] /\ Lines(c, u)[0] = c
        /\ \A i \in 1 .. Len(u) : Lines(c, u)[i] = Line(Lines(c, u)[i - 1], u[i])
    BY <2>1, LinesAre
  <2> QED
    BY <2>2 DEF u
<1>3. /\ Reads(c, s) = g[Len(s)] /\ g[0] = c
      /\ \A i \in 1 .. Len(s) : g[i] = Line(g[i - 1], s[i])
  BY <1>1, LinesAre
<1>4. /\ Reads(Reads(c, s), t) = h[Len(t)] /\ h[0] = Reads(c, s)
      /\ \A i \in 1 .. Len(t) : h[i] = Line(h[i - 1], t[i])
  BY <1>1, LinesAre
<1> HIDE DEF f, g, h
<1>5. Nat \subseteq S
  <2>1. 0 \in S
    BY <1>2, <1>3
  <2>2. ASSUME NEW i \in Nat, i \in S PROVE i + 1 \in S
    <3> SUFFICES ASSUME i + 1 <= Len(s) PROVE f[i + 1] = g[i + 1]
      OBVIOUS
    <3>1. i + 1 \in 1 .. Len(s) /\ i + 1 \in 1 .. Len(s \o t) /\ (i + 1) - 1 = i
      BY <1>1
    <3>2. f[i] = g[i]
      BY <2>2, <1>1
    <3> QED
      BY <3>1, <3>2, <1>1, <1>2, <1>3
  <2> HIDE DEF S
  <2> QED
    BY <2>1, <2>2, SetInduction
<1>6. f[Len(s)] = h[0]
  BY <1>5, <1>1, <1>3, <1>4
<1>7. Nat \subseteq U
  <2>1. 0 \in U
    BY <1>1, <1>6
  <2>2. ASSUME NEW i \in Nat, i \in U PROVE i + 1 \in U
    <3> SUFFICES ASSUME i + 1 <= Len(t) PROVE f[Len(s) + (i + 1)] = h[i + 1]
      OBVIOUS
    <3>1. /\ i + 1 \in 1 .. Len(t) /\ Len(s) + (i + 1) \in 1 .. Len(s \o t)
          /\ (i + 1) - 1 = i /\ (Len(s) + (i + 1)) - 1 = Len(s) + i
      BY <1>1
    <3>2. f[Len(s) + i] = h[i]
      BY <2>2, <1>1
    <3> QED
      BY <3>1, <3>2, <1>1, <1>2, <1>4
  <2> HIDE DEF U
  <2> QED
    BY <2>1, <2>2, SetInduction
<1> QED
  BY <1>1, <1>2, <1>4, <1>7

-----------------------------------------------------------------------------
(* What has been read                                                        *)

GoodSection(f) ==
    /\ IsFiniteSet(DOMAIN f) /\ DOMAIN f \subseteq STRING
    /\ \A k \in DOMAIN f : f[k] \in Seq(STRING) /\ f[k] # <<>>

(* Every section is once in the order, has a name, and gives every key a value. *)
Good(c) ==
    /\ c.order \in Seq(STRING)
    /\ \A i, j \in DOMAIN c.order : c.order[i] = c.order[j] => i = j
    /\ DOMAIN c.of = {c.order[i] : i \in DOMAIN c.order}
    /\ Orphan \notin DOMAIN c.of
    /\ \A s \in DOMAIN c.of : GoodSection(c.of[s])

(* c says something of key k in section s. *)
HasKey(c, s, k) == s \in DOMAIN c.of /\ k \in DOMAIN c.of[s]

LEMMA OverIs ==
    ASSUME NEW f, NEW g
    PROVE  /\ DOMAIN Over(f, g) = DOMAIN f \cup DOMAIN g
           /\ \A x \in DOMAIN f : Over(f, g)[x] = f[x]
           /\ \A x \in DOMAIN g : x \notin DOMAIN f => Over(f, g)[x] = g[x]
  BY DEF Over

LEMMA PutIs ==
    ASSUME NEW x, NEW v, NEW g
    PROVE  /\ DOMAIN Put(x, v, g) = DOMAIN g \cup {x}
           /\ Put(x, v, g)[x] = v
           /\ \A y \in DOMAIN g : y # x => Put(x, v, g)[y] = g[y]
<1> DEFINE f == [y \in {x} |-> v]
<1>1. DOMAIN f = {x} /\ f[x] = v
  OBVIOUS
<1>2. Put(x, v, g) = Over(f, g)
  BY DEF Put
<1> HIDE DEF f
<1>3. /\ DOMAIN Over(f, g) = DOMAIN f \cup DOMAIN g
      /\ \A y \in DOMAIN f : Over(f, g)[y] = f[y]
      /\ \A y \in DOMAIN g : y \notin DOMAIN f => Over(f, g)[y] = g[y]
  BY OverIs
<1> QED
  BY <1>1, <1>2, <1>3

LEMMA WithIs ==
    ASSUME NEW c, NEW s, NEW section
    PROVE  LET d == With(c, s, section)
           IN /\ d.cur = s
              /\ d.order = IF s \in DOMAIN c.of THEN c.order ELSE Append(c.order, s)
              /\ DOMAIN d.of = DOMAIN c.of \cup {s}
              /\ d.of[s] = section
              /\ \A x \in DOMAIN c.of : x # s => d.of[x] = c.of[x]
              /\ \A x, k : HasKey(d, x, k) <=> IF x = s THEN k \in DOMAIN section ELSE HasKey(c, x, k)
<1> DEFINE d == With(c, s, section)
<1>1. d.cur = s /\ d.of = Put(s, section, c.of)
      /\ d.order = IF s \in DOMAIN c.of THEN c.order ELSE Append(c.order, s)
  BY DEF With
<1> HIDE DEF d
<1>2. /\ DOMAIN d.of = DOMAIN c.of \cup {s}
      /\ d.of[s] = section
      /\ \A x \in DOMAIN c.of : x # s => d.of[x] = c.of[x]
  <2> DEFINE g == c.of
  <2>1. d.of = Put(s, section, g)
    BY <1>1
  <2>2. /\ DOMAIN Put(s, section, g) = DOMAIN g \cup {s}
        /\ Put(s, section, g)[s] = section
        /\ \A y \in DOMAIN g : y # s => Put(s, section, g)[y] = g[y]
    <3> HIDE DEF g
    <3>1. DOMAIN Put(s, section, g) = DOMAIN g \cup {s}
      BY PutIs
    <3>2. Put(s, section, g)[s] = section
      BY PutIs
    <3>3. ASSUME NEW y, y \in DOMAIN g, y # s PROVE Put(s, section, g)[y] = g[y]
      BY <3>3 DEF Put, Over
    <3> QED
      BY <3>1, <3>2, <3>3
  <2> QED
    BY <2>1, <2>2
<1>3. ASSUME NEW x, NEW k
      PROVE  HasKey(d, x, k) <=> IF x = s THEN k \in DOMAIN section ELSE HasKey(c, x, k)
  BY <1>2 DEF HasKey
<1> QED
  BY <1>1, <1>2, <1>3 DEF d

LEMMA SaidIs ==
    ASSUME NEW c, NEW s
    PROVE  /\ Good(c) => GoodSection(Said(c, s))
           /\ \A k : k \in DOMAIN Said(c, s) <=> HasKey(c, s, k)
           /\ s \in DOMAIN c.of => Said(c, s) = c.of[s]
<1>1. DOMAIN <<>> = {} /\ GoodSection(<<>>)
  BY FS_EmptySet DEF GoodSection
<1>2. CASE s \in DOMAIN c.of
  BY <1>2 DEF Said, Good, HasKey
<1>3. CASE s \notin DOMAIN c.of
  <2>1. Said(c, s) = <<>>
    BY <1>3 DEF Said
  <2> QED
    BY <1>1, <1>3, <2>1 DEF HasKey
<1> QED
  BY <1>2, <1>3

LEMMA WithGood ==
    ASSUME NEW c, Good(c), NEW s \in STRING, s # Orphan, NEW section, GoodSection(section)
    PROVE  Good(With(c, s, section))
<1> DEFINE d == With(c, s, section)
<1>1. /\ d.order = IF s \in DOMAIN c.of THEN c.order ELSE Append(c.order, s)
      /\ DOMAIN d.of = DOMAIN c.of \cup {s}
      /\ d.of[s] = section
      /\ \A x \in DOMAIN c.of : x # s => d.of[x] = c.of[x]
  BY WithIs
<1> HIDE DEF d
<1>2. /\ c.order \in Seq(STRING)
      /\ \A i, j \in DOMAIN c.order : c.order[i] = c.order[j] => i = j
      /\ DOMAIN c.of = {c.order[i] : i \in DOMAIN c.order}
  BY DEF Good
<1>3. /\ d.order \in Seq(STRING)
      /\ \A i, j \in DOMAIN d.order : d.order[i] = d.order[j] => i = j
      /\ DOMAIN d.of = {d.order[i] : i \in DOMAIN d.order}
  <2>1. CASE s \in DOMAIN c.of
    BY <1>1, <1>2, <2>1
  <2>2. CASE s \notin DOMAIN c.of
    <3> DEFINE o == c.order
               p == Append(o, s)
    <3>1. d.order = p
      BY <1>1, <2>2
    <3>2. o \in Seq(STRING) /\ (\A i \in DOMAIN o : o[i] # s)
          /\ (\A i, j \in DOMAIN o : o[i] = o[j] => i = j)
          /\ DOMAIN c.of = {o[i] : i \in DOMAIN o}
      BY <1>2, <2>2
    <3> HIDE DEF o
    <3>3. /\ p \in Seq(STRING) /\ DOMAIN o = 1 .. Len(o) /\ Len(o) \in Nat
          /\ DOMAIN p = 1 .. Len(o) + 1 /\ p[Len(o) + 1] = s
          /\ \A i \in 1 .. Len(o) : p[i] = o[i]
      BY <3>2
    <3> HIDE DEF p
    <3>4. \A i, j \in DOMAIN p : p[i] = p[j] => i = j
      <4> TAKE i, j \in DOMAIN p
      <4> HAVE p[i] = p[j]
      <4>1. \A l \in DOMAIN p : l \in DOMAIN o \/ l = Len(o) + 1
        BY <3>3
      <4> QED
        BY <4>1, <3>2, <3>3
    <3>5. {p[i] : i \in DOMAIN p} = {o[i] : i \in DOMAIN o} \cup {s}
      <4>1. \A l \in DOMAIN p : l \in DOMAIN o \/ l = Len(o) + 1
        BY <3>3
      <4>2. \A l \in DOMAIN o : l \in DOMAIN p
        BY <3>3
      <4>3. Len(o) + 1 \in DOMAIN p
        BY <3>3
      <4> QED
        BY <4>1, <4>2, <4>3, <3>3
    <3>6. DOMAIN d.of = {p[i] : i \in DOMAIN p}
      BY <1>1, <3>2, <3>5
    <3> QED
      BY <3>1, <3>3, <3>4, <3>6
  <2> QED
    BY <2>1, <2>2
<1>4. Orphan \notin DOMAIN d.of
  BY <1>1 DEF Good
<1>5. \A x \in DOMAIN d.of : GoodSection(d.of[x])
  BY <1>1 DEF Good
<1>6. Good(d)
  BY <1>3, <1>4, <1>5 DEF Good
<1> QED
  BY <1>6 DEF d

(* A line or a section replaced changes one key, or none.                      *)
LEMMA HeaderIs ==
    ASSUME NEW c, NEW s
    PROVE  LET d == NewSection(c, s)
           IN /\ d.cur = s /\ DOMAIN d.of = DOMAIN c.of \cup {s}
              /\ \A x, k : HasKey(d, x, k) <=> HasKey(c, x, k)
              /\ \A x, k : HasKey(c, x, k) => d.of[x][k] = c.of[x][k]
              /\ \A x \in DOMAIN c.of : d.of[x] = c.of[x]
              /\ s \notin DOMAIN c.of => d.of[s] = <<>>
<1> DEFINE t == Said(c, s)
           d == With(c, s, t)
<1>1. NewSection(c, s) = d
  BY DEF NewSection
<1>2. /\ d.cur = s
      /\ DOMAIN d.of = DOMAIN c.of \cup {s}
      /\ d.of[s] = t
      /\ \A x \in DOMAIN c.of : x # s => d.of[x] = c.of[x]
      /\ \A x, k : HasKey(d, x, k) <=> IF x = s THEN k \in DOMAIN t ELSE HasKey(c, x, k)
  <2> HIDE DEF t
  <2> QED
    BY WithIs
<1>3. /\ \A k : k \in DOMAIN t <=> HasKey(c, s, k)
      /\ s \in DOMAIN c.of => t = c.of[s]
      /\ s \notin DOMAIN c.of => t = <<>>
  BY SaidIs DEF Said
<1> HIDE DEF t, d
<1>4. \A x, k : HasKey(d, x, k) <=> HasKey(c, x, k)
  BY <1>2, <1>3
<1>5. \A x \in DOMAIN c.of : d.of[x] = c.of[x]
  BY <1>2, <1>3
<1>6. \A x, k : HasKey(c, x, k) => d.of[x][k] = c.of[x][k]
  BY <1>5 DEF HasKey
<1> QED
  BY <1>1, <1>2, <1>3, <1>4, <1>5, <1>6

LEMMA HeaderGood ==
    ASSUME NEW c, Good(c), NEW s \in STRING, s # Orphan
    PROVE  Good(NewSection(c, s))
  BY SaidIs, WithGood DEF NewSection

(* The values of k after an assignment of v, when they were section[k].        *)
LEMMA AssignmentIs ==
    ASSUME NEW c, NEW k, NEW v, c.cur \in DOMAIN c.of
    PROVE  LET d == Assignment(c, k, v)
               f == c.of[c.cur]
               g == d.of[c.cur]
           IN /\ d.cur = c.cur /\ DOMAIN d.of = DOMAIN c.of
              /\ \A x \in DOMAIN c.of : x # c.cur => d.of[x] = c.of[x]
              /\ DOMAIN g = DOMAIN f \cup {k}
              /\ g[k] = IF k \in DOMAIN f THEN Append(f[k], v) ELSE <<v>>
              /\ \A l \in DOMAIN f : l # k => g[l] = f[l]
              /\ Good(c) /\ k \in STRING /\ v \in STRING => Good(d)
<1> DEFINE s == c.cur
           f == c.of[s]
           w == IF k \in DOMAIN f THEN Append(f[k], v) ELSE <<v>>
           g == Put(k, w, f)
           d == With(c, s, g)
<1>1. Said(c, s) = f
  BY SaidIs
<1>2. Assignment(c, k, v) = d
  BY <1>1 DEF Assignment
<1>3. DOMAIN g = DOMAIN f \cup {k} /\ g[k] = w
      /\ \A l \in DOMAIN f : l # k => g[l] = f[l]
  <2> HIDE DEF w, f
  <2> QED
    BY DEF Put, Over
<1>4. /\ d.cur = s /\ DOMAIN d.of = DOMAIN c.of \cup {s} /\ d.of[s] = g
      /\ \A x \in DOMAIN c.of : x # s => d.of[x] = c.of[x]
  <2> HIDE DEF g, s
  <2> QED
    BY WithIs
<1>5. ASSUME Good(c), k \in STRING, v \in STRING PROVE Good(d)
  <2>1. s \in STRING /\ s # Orphan /\ GoodSection(f)
    BY <1>5 DEF Good
  <2>2. w \in Seq(STRING) /\ w # <<>>
    <3>1. CASE k \in DOMAIN f
      <4>1. f[k] \in Seq(STRING)
        BY <3>1, <2>1 DEF GoodSection
      <4>2. w = Append(f[k], v)
        BY <3>1
      <4>3. ASSUME NEW u \in Seq(STRING)
            PROVE  Append(u, v) \in Seq(STRING) /\ Append(u, v) # <<>>
        <5>1. Append(u, v) \in Seq(STRING) /\ Len(Append(u, v)) = Len(u) + 1 /\ Len(u) \in Nat
          BY <1>5
        <5>2. Len(Append(u, v)) # 0
          BY <5>1
        <5> QED
          BY <5>1, <5>2
      <4> QED
        BY <4>1, <4>2, <4>3
    <3>2. CASE k \notin DOMAIN f
      BY <3>2, <1>5
    <3> QED
      BY <3>1, <3>2
  <2> HIDE DEF f, w, g
  <2>3. IsFiniteSet(DOMAIN g)
    <3>1. IsFiniteSet(DOMAIN f)
      BY <2>1 DEF GoodSection
    <3>2. IsFiniteSet(DOMAIN f \cup {k})
      BY <3>1, FS_AddElement
    <3> QED
      BY <3>2, <1>3
  <2>4. \A l \in DOMAIN g : l \in STRING /\ g[l] \in Seq(STRING) /\ g[l] # <<>>
    <3> TAKE l \in DOMAIN g
    <3>1. l = k \/ (l # k /\ l \in DOMAIN f)
      BY <1>3
    <3> QED
      BY <3>1, <1>3, <1>5, <2>1, <2>2 DEF GoodSection
  <2>5. GoodSection(g)
    BY <2>3, <2>4 DEF GoodSection
  <2> HIDE DEF s
  <2> QED
    BY <2>1, <2>5, <1>5, WithGood
<1>6. DOMAIN d.of = DOMAIN c.of
  BY <1>4
<1> HIDE DEF d, g
<1> QED
  BY <1>2, <1>3, <1>4, <1>5, <1>6

LEMMA AssignmentPlace ==
    ASSUME NEW c, NEW k, NEW v, c.cur \in DOMAIN c.of
    PROVE  LET d == Assignment(c, k, v)
           IN d.cur = c.cur /\ DOMAIN d.of = DOMAIN c.of
<1> DEFINE s == c.cur
           f == Said(c, s)
           g == Put(k, IF k \in DOMAIN f THEN Append(f[k], v) ELSE <<v>>, f)
           d == With(c, s, g)
<1>1. Assignment(c, k, v) = d
  BY DEF Assignment
<1> HIDE DEF g
<1>2. d.cur = s /\ DOMAIN d.of = DOMAIN c.of \cup {s}
  BY WithIs
<1> QED
  BY <1>1, <1>2

(* A line of a file *)
IsLine(line) == line \in Seq(STRING) /\ Len(line) \in {1, 2} /\ line # <<Orphan>>

LEMMA LineGood ==
    ASSUME NEW c, Good(c), NEW line, IsLine(line), Len(line) = 1 \/ c.cur \in DOMAIN c.of
    PROVE  LET d == Line(c, line) IN Good(d) /\ d.cur \in DOMAIN d.of
<1>1. CASE Len(line) = 1
  <2> DEFINE s == line[1]
             d == NewSection(c, s)
  <2>1. Line(c, line) = d
    BY <1>1 DEF Line
  <2>2. s \in STRING /\ line = <<s>>
    BY <1>1 DEF IsLine
  <2>3. s # Orphan
    BY <2>2 DEF IsLine
  <2> HIDE DEF s
  <2>4. Good(d)
    BY <2>2, <2>3, HeaderGood
  <2>5. d.cur = s /\ DOMAIN d.of = DOMAIN c.of \cup {s}
    BY HeaderIs
  <2> HIDE DEF d
  <2> QED
    BY <2>1, <2>4, <2>5
<1>2. CASE Len(line) # 1
  <2> DEFINE k == line[1]
             v == line[2]
             d == Assignment(c, k, v)
  <2>1. Line(c, line) = d
    BY <1>2 DEF Line
  <2>2. k \in STRING /\ v \in STRING
    BY <1>2 DEF IsLine
  <2> HIDE DEF k, v
  <2>3. d.cur = c.cur /\ DOMAIN d.of = DOMAIN c.of
        /\ (Good(c) /\ k \in STRING /\ v \in STRING => Good(d))
    <3>1. c.cur \in DOMAIN c.of
      BY <1>2
    <3>2. d.cur = c.cur /\ DOMAIN d.of = DOMAIN c.of
      BY <3>1, AssignmentPlace
    <3>3. Good(c) /\ k \in STRING /\ v \in STRING => Good(d)
      BY <3>1, AssignmentIs, Zenon
    <3> QED
      BY <3>2, <3>3
  <2> HIDE DEF d
  <2> QED
    BY <1>2, <2>1, <2>2, <2>3
<1> QED
  BY <1>1, <1>2

LEMMA NothingGood == Good(Nothing)
<1> DEFINE c == Nothing
<1>1. c.order = <<>> /\ c.of = <<>>
  BY DEF Nothing
<1> HIDE DEF c
<1>2. c.order \in Seq(STRING) /\ DOMAIN c.order = {} /\ DOMAIN c.of = {}
  BY <1>1
<1>3. Good(c)
  BY <1>2 DEF Good
<1> QED
  BY <1>3 DEF c

LEMMA ParseGood ==
    ASSUME NEW file, IsFile(file), BeginsWithHeader(file), file # Null
    PROVE  Good(Parse(file))
<1> DEFINE f == Lines(Nothing, file)
           S == {i \in Nat : i <= Len(file) =>
                                Good(f[i]) /\ (i # 0 => f[i].cur \in DOMAIN f[i].of)}
<1>1. /\ Len(file) \in Nat /\ (Len(file) # 0 => Len(file[1]) = 1)
      /\ \A i \in 1 .. Len(file) : IsLine(file[i])
  <2>1. file \in Seq(Seq(STRING)) /\ DOMAIN file = 1 .. Len(file) /\ Len(file) \in Nat
    BY DEF IsFile
  <2>2. Len(file) # 0 => file # <<>>
    OBVIOUS
  <2> QED
    BY <2>1, <2>2 DEF IsFile, IsLine, BeginsWithHeader
<1>2. /\ Reads(Nothing, file) = f[Len(file)] /\ f[0] = Nothing
      /\ \A i \in 1 .. Len(file) : f[i] = Line(f[i - 1], file[i])
  BY <1>1, LinesAre
<1> HIDE DEF f
<1>3. 0 \in S
  BY <1>2, NothingGood
<1>4. ASSUME NEW i \in Nat, i \in S PROVE i + 1 \in S
  <2> SUFFICES ASSUME i + 1 <= Len(file)
               PROVE  Good(f[i + 1]) /\ f[i + 1].cur \in DOMAIN f[i + 1].of
    OBVIOUS
  <2>1. i + 1 \in 1 .. Len(file) /\ (i + 1) - 1 = i /\ i <= Len(file)
    BY <1>1
  <2>2. f[i + 1] = Line(f[i], file[i + 1]) /\ IsLine(file[i + 1])
    BY <2>1, <1>1, <1>2
  <2>3. Good(f[i]) /\ (i # 0 => f[i].cur \in DOMAIN f[i].of)
    BY <1>4, <2>1
  <2>4. Len(file[i + 1]) = 1 \/ f[i].cur \in DOMAIN f[i].of
    <3>1. CASE i = 0
      <4>1. i + 1 = 1 /\ Len(file) # 0
        BY <3>1, <2>1
      <4> QED
        BY <4>1, <1>1
    <3> QED
      BY <3>1, <2>3
  <2> QED
    BY <2>2, <2>3, <2>4, LineGood
<1> HIDE DEF S
<1>5. Len(file) \in S
  BY <1>3, <1>4, <1>1, SetInduction
<1>6. Good(f[Len(file)])
  BY <1>5, <1>1 DEF S
<1> QED
  BY <1>2, <1>6 DEF Parse

(* One section that has been read, on top of c.                               *)
LEMMA OverrideIs ==
    ASSUME NEW c, NEW new, NEW s, s \in DOMAIN new.of, NEW d, d = Override(c, new, s)
    PROVE  /\ \A x, k : HasKey(d, x, k) <=> HasKey(c, x, k) \/ (x = s /\ HasKey(new, x, k))
           /\ \A k : HasKey(new, s, k) => d.of[s][k] = new.of[s][k]
           /\ \A x, k : HasKey(c, x, k) /\ ~(x = s /\ HasKey(new, x, k)) => d.of[x][k] = c.of[x][k]
           /\ Good(c) /\ Good(new) => Good(d)
<1> DEFINE f == new.of[s]
           g == Said(c, s)
           h == Over(f, g)
<1>1. d = With(c, s, h)
  BY DEF Override
<1>2. /\ DOMAIN h = DOMAIN f \cup DOMAIN g
      /\ \A k \in DOMAIN f : h[k] = f[k]
      /\ \A k \in DOMAIN g : k \notin DOMAIN f => h[k] = g[k]
  <2> HIDE DEF f, g
  <2> QED
    BY DEF Over
<1>3. /\ \A k : k \in DOMAIN g <=> HasKey(c, s, k)
      /\ s \in DOMAIN c.of => g = c.of[s]
      /\ Good(c) => GoodSection(g)
  BY SaidIs
<1>4. /\ DOMAIN d.of = DOMAIN c.of \cup {s} /\ d.of[s] = h
      /\ \A x \in DOMAIN c.of : x # s => d.of[x] = c.of[x]
      /\ \A x, k : HasKey(d, x, k) <=> IF x = s THEN k \in DOMAIN h ELSE HasKey(c, x, k)
  <2> HIDE DEF h
  <2> QED
    BY <1>1, WithIs
<1>5. \A k : k \in DOMAIN f <=> HasKey(new, s, k)
  BY DEF HasKey
<1>6. ASSUME Good(c), Good(new) PROVE Good(d)
  <2>1. s \in STRING /\ s # Orphan /\ GoodSection(f) /\ GoodSection(g)
    BY <1>6, <1>3 DEF Good
  <2> HIDE DEF f, g, h
  <2>2. IsFiniteSet(DOMAIN h)
    <3>1. IsFiniteSet(DOMAIN f) /\ IsFiniteSet(DOMAIN g)
      BY <2>1 DEF GoodSection
    <3>2. IsFiniteSet(DOMAIN f \cup DOMAIN g)
      BY <3>1, FS_Union
    <3> QED
      BY <3>2, <1>2
  <2>3. \A l \in DOMAIN h : l \in STRING /\ h[l] \in Seq(STRING) /\ h[l] # <<>>
    <3> TAKE l \in DOMAIN h
    <3>1. l \in DOMAIN f \/ (l \notin DOMAIN f /\ l \in DOMAIN g)
      BY <1>2
    <3> QED
      BY <3>1, <1>2, <2>1 DEF GoodSection
  <2>4. GoodSection(h)
    BY <2>2, <2>3 DEF GoodSection
  <2> QED
    BY <1>1, <1>6, <2>1, <2>4, WithGood
<1> HIDE DEF f, g, h
<1>7. ASSUME NEW x, NEW k PROVE HasKey(d, x, k) <=> HasKey(c, x, k) \/ (x = s /\ HasKey(new, x, k))
  BY <1>2, <1>3, <1>4, <1>5
<1>8. ASSUME NEW k, HasKey(new, s, k) PROVE d.of[s][k] = new.of[s][k]
  BY <1>2, <1>4, <1>5, <1>8 DEF f
<1>9. ASSUME NEW x, NEW k, HasKey(c, x, k), ~(x = s /\ HasKey(new, x, k))
      PROVE  d.of[x][k] = c.of[x][k]
  <2>1. CASE x = s
    <3>1. k \in DOMAIN g /\ k \notin DOMAIN f /\ s \in DOMAIN c.of
      BY <1>3, <1>5, <1>9, <2>1 DEF HasKey
    <3> QED
      BY <3>1, <2>1, <1>2, <1>3, <1>4
  <2>2. CASE x # s
    BY <1>4, <1>9, <2>2 DEF HasKey
  <2> QED
    BY <2>1, <2>2
<1> QED
  BY <1>6, <1>7, <1>8, <1>9

(* The end of parse: the file on top of c. *)
LEMMA ParsedIs ==
    ASSUME NEW c, Good(c), NEW file, NEW new, new = Parse(file), Good(new),
           NEW d, d = Parsed(c, file)
    PROVE  /\ Good(d)
           /\ \A x, k : HasKey(d, x, k) <=> HasKey(c, x, k) \/ HasKey(new, x, k)
           /\ \A x, k : HasKey(new, x, k) => d.of[x][k] = new.of[x][k]
           /\ \A x, k : HasKey(c, x, k) /\ ~HasKey(new, x, k) => d.of[x][k] = c.of[x][k]
<1> DEFINE N == Len(new.order)
           f == Sections(c, new)
           Upto(j, x) == \E i \in 1 .. j : new.order[i] = x
           Done(e, j) ==
             /\ Good(e)
             /\ \A x, k : HasKey(e, x, k) <=> HasKey(c, x, k) \/ (Upto(j, x) /\ HasKey(new, x, k))
             /\ \A x, k : Upto(j, x) /\ HasKey(new, x, k) => e.of[x][k] = new.of[x][k]
             /\ \A x, k : HasKey(c, x, k) /\ ~(Upto(j, x) /\ HasKey(new, x, k)) => e.of[x][k] = c.of[x][k]
           S == {j \in Nat : j <= N => Done(f[j], j)}
<1>1. N \in Nat /\ DOMAIN new.order = 1 .. N
      /\ DOMAIN new.of = {new.order[i] : i \in 1 .. N}
  BY DEF Good
<1>2. /\ d = f[N] /\ f[0] = c
      /\ \A i \in 1 .. N : f[i] = Override(f[i - 1], new, new.order[i])
  BY <1>1, SectionsAre
<1> HIDE DEF f, N
<1>3. 0 \in S
  <2>1. \A x : ~Upto(0, x)
    OBVIOUS
  <2> HIDE DEF Upto
  <2> QED
    BY <1>2, <2>1
<1>4. ASSUME NEW j \in Nat, j \in S PROVE j + 1 \in S
  <2> SUFFICES ASSUME j + 1 <= N PROVE Done(f[j + 1], j + 1)
    OBVIOUS
  <2> DEFINE s == new.order[j + 1]
             e == f[j]
             g == f[j + 1]
  <2>1. j + 1 \in 1 .. N /\ (j + 1) - 1 = j /\ j <= N
    BY <1>1
  <2>2. g = Override(e, new, s) /\ s \in DOMAIN new.of
    BY <2>1, <1>1, <1>2
  <2>3. Done(e, j)
    BY <1>4, <2>1
  <2>4. \A x : Upto(j + 1, x) <=> Upto(j, x) \/ x = s
    <3>1. 1 .. j + 1 = (1 .. j) \cup {j + 1}
      OBVIOUS
    <3> QED
      BY <3>1
  <2> HIDE DEF s, e, g, Upto
  <2>5. /\ \A x, k : HasKey(g, x, k) <=> HasKey(e, x, k) \/ (x = s /\ HasKey(new, x, k))
        /\ \A k : HasKey(new, s, k) => g.of[s][k] = new.of[s][k]
        /\ \A x, k : HasKey(e, x, k) /\ ~(x = s /\ HasKey(new, x, k)) => g.of[x][k] = e.of[x][k]
        /\ Good(e) /\ Good(new) => Good(g)
    BY <2>2, OverrideIs
  <2>6. Good(g)
    BY <2>3, <2>5
  <2>7. ASSUME NEW x, NEW k
        PROVE  HasKey(g, x, k) <=> HasKey(c, x, k) \/ (Upto(j + 1, x) /\ HasKey(new, x, k))
    BY <2>3, <2>4, <2>5
  <2>8. ASSUME NEW x, NEW k, Upto(j + 1, x), HasKey(new, x, k) PROVE g.of[x][k] = new.of[x][k]
    <3>1. CASE x = s
      BY <3>1, <2>5, <2>8
    <3>2. CASE x # s
      <4>1. Upto(j, x)
        BY <3>2, <2>4, <2>8
      <4>2. HasKey(e, x, k) /\ e.of[x][k] = new.of[x][k]
        BY <4>1, <2>3, <2>8
      <4> QED
        BY <4>2, <3>2, <2>5
    <3> QED
      BY <3>1, <3>2
  <2>9. ASSUME NEW x, NEW k, HasKey(c, x, k), ~(Upto(j + 1, x) /\ HasKey(new, x, k))
        PROVE  g.of[x][k] = c.of[x][k]
    <3>1. ~(x = s /\ HasKey(new, x, k)) /\ ~(Upto(j, x) /\ HasKey(new, x, k))
      BY <2>4, <2>9
    <3>2. HasKey(e, x, k) /\ e.of[x][k] = c.of[x][k]
      BY <3>1, <2>3, <2>9
    <3> QED
      BY <3>1, <3>2, <2>5
  <2>10. Done(g, j + 1)
    BY <2>6, <2>7, <2>8, <2>9
  <2> QED
    BY <2>10 DEF g
<1> HIDE DEF S
<1>5. N \in S
  BY <1>1, <1>3, <1>4, SetInduction
<1>6. Done(d, N)
  BY <1>1, <1>2, <1>5 DEF S
<1>7. \A x, k : HasKey(new, x, k) => Upto(N, x)
  BY <1>1 DEF HasKey
<1> HIDE DEF Upto
<1> QED
  BY <1>6, <1>7

-----------------------------------------------------------------------------
(* All sources                                                               *)

Speaks(source, s, k) == source # Null /\ HasKey(Parse(source), s, k)
LastToSpeak(sources, n, i, s, k) ==
    Speaks(sources[i], s, k) /\ \A j \in 1 .. n : j > i => ~Speaks(sources[j], s, k)

LEMMA KeysAre ==
    ASSUME NEW source
    PROVE  /\ \A s, k : <<s, k>> \in Keys(source) <=> Speaks(source, s, k)
           /\ \A key \in Keys(source) : key = <<key[1], key[2]>>
<1>1. \A s, k : <<s, k>> \in KeysIn(source) <=> HasKey(Parse(source), s, k)
  BY DEF KeysIn, HasKey
<1>2. \A key \in KeysIn(source) : key = <<key[1], key[2]>>
  BY DEF KeysIn
<1> QED
  BY <1>1, <1>2 DEF Keys, Speaks

(* d is what all sources together say. *)
Together(d, sources) ==
    /\ Good(d)
    /\ \A s, k : HasKey(d, s, k) <=> \E i \in 1 .. Len(sources) : Speaks(sources[i], s, k)
    /\ \A s, k : HasKey(d, s, k) =>
          \E i \in 1 .. Len(sources) :
             /\ LastToSpeak(sources, Len(sources), i, s, k)
             /\ d.of[s][k] = Parse(sources[i]).of[s][k]

LEMMA FilesWin ==
    ASSUME NEW sources, Len(sources) \in Nat,
           \A i \in 1 .. Len(sources) :
              sources[i] # Null => IsFile(sources[i]) /\ BeginsWithHeader(sources[i])
    PROVE  Together(Files(sources)[Len(sources)], sources)
<1> DEFINE N == Len(sources)
           f == Files(sources)
           Speaker(j, s, k) == \E i \in 1 .. j : Speaks(sources[i], s, k)
           From(v, j, s, k) == \E i \in 1 .. j : /\ LastToSpeak(sources, j, i, s, k)
                                                /\ v = Parse(sources[i]).of[s][k]
           Done(e, j) == /\ Good(e)
                         /\ \A s, k : HasKey(e, s, k) <=> Speaker(j, s, k)
                         /\ \A s, k : HasKey(e, s, k) => From(e.of[s][k], j, s, k)
           S == {j \in Nat : j <= N => Done(f[j], j)}
<1>1. /\ f[0] = Nothing
      /\ \A i \in 1 .. N : f[i] = ReadConfig(f[i - 1], sources[i])
  BY FilesAre
<1> HIDE DEF f
<1>2. 0 \in S
  <2>1. Good(f[0])
    BY <1>1, NothingGood
  <2>2. \A s, k : ~HasKey(f[0], s, k)
    BY <1>1 DEF HasKey, Nothing
  <2>3. \A s, k : ~Speaker(0, s, k)
    OBVIOUS
  <2> HIDE DEF Speaker, From
  <2> QED
    BY <2>1, <2>2, <2>3
<1>3. ASSUME NEW j \in Nat, j \in S PROVE j + 1 \in S
  <2> SUFFICES ASSUME j + 1 <= N PROVE Done(f[j + 1], j + 1)
    OBVIOUS
  <2> DEFINE e == f[j]
             g == f[j + 1]
             m == j + 1
             source == sources[j + 1]
  <2>1. j + 1 \in 1 .. N /\ (j + 1) - 1 = j /\ j <= N
    OBVIOUS
  <2>2. g = ReadConfig(e, source)
        /\ (source # Null => IsFile(source) /\ BeginsWithHeader(source))
    BY <2>1, <1>1
  <2>3. Done(e, j)
    BY <1>3, <2>1
  <2>4. m \in 1 .. m /\ m = j + 1 /\ sources[m] = source
        /\ (\A i : i \in 1 .. m <=> i \in 1 .. j \/ i = m)
        /\ (\A i \in 1 .. j : i < m /\ ~(m < i))
    OBVIOUS
  <2> HIDE DEF e, g, m, source
  <2>5. \A s, k : Speaker(m, s, k) <=> Speaker(j, s, k) \/ Speaks(source, s, k)
    BY <2>4
  <2>6. ASSUME NEW s, NEW k, NEW v, From(v, j, s, k), ~Speaks(source, s, k)
        PROVE  From(v, m, s, k)
    <3>1. PICK i \in 1 .. j : LastToSpeak(sources, j, i, s, k) /\ v = Parse(sources[i]).of[s][k]
      BY <2>6
    <3>2. \A l \in 1 .. m : l > i => ~Speaks(sources[l], s, k)
      BY <3>1, <2>4, <2>6 DEF LastToSpeak
    <3>3. LastToSpeak(sources, m, i, s, k)
      BY <3>1, <3>2 DEF LastToSpeak
    <3> QED
      BY <3>1, <3>3, <2>4
  <2>7. CASE source = Null
    <3>1. g = e
      BY <2>2, <2>7 DEF ReadConfig
    <3>2. \A s, k : ~Speaks(source, s, k)
      BY <2>7 DEF Speaks
    <3> HIDE DEF Speaker, From
    <3>3. Done(g, m)
      BY <3>1, <3>2, <2>3, <2>5, <2>6
    <3> QED
      BY <3>3 DEF g, m
  <2>8. CASE source # Null
    <3> DEFINE new == Parse(source)
    <3>1. g = Parsed(e, source) /\ Good(new) /\ Good(e)
      BY <2>2, <2>3, <2>8, ParseGood DEF ReadConfig
    <3>2. \A s, k : Speaks(source, s, k) <=> HasKey(new, s, k)
      BY <2>8 DEF Speaks
    <3>3. \A s, k : HasKey(new, s, k) => From(new.of[s][k], m, s, k)
      <4> SUFFICES ASSUME NEW s, NEW k, HasKey(new, s, k)
                   PROVE  From(new.of[s][k], m, s, k)
        OBVIOUS
      <4>1. \A l \in 1 .. m : ~(l > m)
        BY <2>4
      <4>2. LastToSpeak(sources, m, m, s, k)
        BY <4>1, <3>2, <2>4 DEF LastToSpeak
      <4> QED
        BY <4>2, <2>4
    <3> HIDE DEF new
    <3>4. /\ Good(g)
          /\ \A x, k : HasKey(g, x, k) <=> HasKey(e, x, k) \/ HasKey(new, x, k)
          /\ \A x, k : HasKey(new, x, k) => g.of[x][k] = new.of[x][k]
          /\ \A x, k : HasKey(e, x, k) /\ ~HasKey(new, x, k) => g.of[x][k] = e.of[x][k]
      BY <3>1, ParsedIs DEF new
    <3> HIDE DEF Speaker, From
    <3>5. \A s, k : HasKey(g, s, k) <=> Speaker(m, s, k)
      BY <3>2, <3>4, <2>3, <2>5
    <3>6. ASSUME NEW s, NEW k, HasKey(g, s, k) PROVE From(g.of[s][k], m, s, k)
      <4>1. CASE HasKey(new, s, k)
        BY <4>1, <3>3, <3>4
      <4>2. CASE ~HasKey(new, s, k)
        BY <4>2, <3>2, <3>4, <3>6, <2>3, <2>6
      <4> QED
        BY <4>1, <4>2
    <3>7. Done(g, m)
      BY <3>4, <3>5, <3>6
    <3> QED
      BY <3>7 DEF g, m
  <2> QED
    BY <2>7, <2>8
<1> HIDE DEF S
<1>4. N \in S
  BY <1>2, <1>3, SetInduction
<1>5. Done(f[N], N)
  BY <1>4 DEF S
<1> QED
  BY <1>5 DEF f, Together

-----------------------------------------------------------------------------
(* Reading what has been written                                             *)

LEMMA ReadNone == \A c : Reads(c, <<>>) = c
<1> TAKE c
<1> DEFINE u == <<>>
<1>1. Len(u) = 0
  OBVIOUS
<1> HIDE DEF u
<1>2. Reads(c, u) = Lines(c, u)[Len(u)] /\ Lines(c, u)[0] = c
  BY <1>1, LinesAre
<1>3. Reads(c, u) = c
  BY <1>1, <1>2
<1> QED
  BY <1>3 DEF u

LEMMA ReadOne == \A c, line : Reads(c, <<line>>) = Line(c, line)
<1> TAKE c, line
<1> DEFINE u == <<line>>
<1>1. Len(u) = 1 /\ u[1] = line /\ 1 \in 1 .. Len(u) /\ 1 - 1 = 0
  OBVIOUS
<1> HIDE DEF u
<1>2. /\ Reads(c, u) = Lines(c, u)[Len(u)] /\ Lines(c, u)[0] = c
      /\ \A i \in 1 .. Len(u) : Lines(c, u)[i] = Line(Lines(c, u)[i - 1], u[i])
  BY <1>1, LinesAre
<1>3. Lines(c, u)[1] = Line(Lines(c, u)[1 - 1], u[1])
  BY <1>1, <1>2
<1>4. Reads(c, u) = Line(c, line)
  BY <1>1, <1>2, <1>3
<1> QED
  BY <1>4 DEF u

(* The parts of a file are read one after the other. *)
PartsRead(c, ss) == [i \in 0 .. Len(ss) |-> IF i = 0 THEN c ELSE Reads(c, Flat(ss)[i])]

InParts(T, ss, c) ==
    /\ Reads(c, FlattenSeq(ss)) = PartsRead(c, ss)[Len(ss)]
    /\ FlattenSeq(ss) \in Seq(T)
    /\ PartsRead(c, ss)[0] = c
    /\ \A i \in 1 .. Len(ss) : PartsRead(c, ss)[i] = Reads(PartsRead(c, ss)[i - 1], ss[i])

LEMMA PartsAre ==
    ASSUME NEW T, NEW ss \in Seq(Seq(T)), NEW c
    PROVE  InParts(T, ss, c)
<1> DEFINE f == Flat(ss)
           N == Len(ss)
           S == {i \in Nat : 1 <= i /\ i <= N => f[i] \in Seq(T)}
<1>1. N \in Nat /\ \A i \in 1 .. N : ss[i] \in Seq(T)
  OBVIOUS
<1>2. /\ N > 0 => f[1] = ss[1]
      /\ \A i \in 1 .. N : i > 1 => f[i] = f[i - 1] \o ss[i]
  BY <1>1, FlatStep
<1> HIDE DEF f
<1>3. \A i \in 1 .. N : f[i] \in Seq(T)
  <2>1. 0 \in S
    OBVIOUS
  <2>2. ASSUME NEW i \in Nat, i \in S PROVE i + 1 \in S
    <3> SUFFICES ASSUME i + 1 <= N PROVE f[i + 1] \in Seq(T)
      OBVIOUS
    <3>1. i + 1 \in 1 .. N /\ (i + 1) - 1 = i
      BY <1>1
    <3>2. CASE i = 0
      <4>1. f[i + 1] = ss[1] /\ 1 \in 1 .. N
        BY <3>1, <3>2, <1>2
      <4> QED
        BY <4>1, <1>1
    <3>3. CASE i # 0
      <4>1. f[i] \in Seq(T)
        BY <3>1, <3>3, <2>2
      <4>2. f[i + 1] = f[i] \o ss[i + 1] /\ ss[i + 1] \in Seq(T)
        <5> DEFINE j == i + 1
        <5>1. j \in 1 .. N /\ j > 1 /\ j - 1 = i
          BY <3>1, <3>3
        <5> HIDE DEF j
        <5>2. f[j] = f[j - 1] \o ss[j]
          BY <5>1, <1>2
        <5>3. ss[j] \in Seq(T)
          BY <5>1, <1>1
        <5>4. f[j] = f[i] \o ss[j]
          BY <5>1, <5>2
        <5> QED
          BY <5>3, <5>4 DEF j
      <4> DEFINE u == f[i]
                 v == ss[i + 1]
      <4> HIDE DEF u, v
      <4>3. u \in Seq(T) /\ v \in Seq(T) => u \o v \in Seq(T)
        BY ConcatAt
      <4> QED
        BY <4>1, <4>2, <4>3 DEF u, v
    <3> QED
      BY <3>2, <3>3
  <2> HIDE DEF S
  <2>3. Nat \subseteq S
    BY <2>1, <2>2, SetInduction
  <2> QED
    BY <2>3, <1>1 DEF S
<1> DEFINE p == PartsRead(c, ss)
<1>4. p[0] = c /\ \A i \in 1 .. N : p[i] = Reads(c, f[i])
  BY <1>1 DEF PartsRead, f
<1> HIDE DEF p
<1>5. ASSUME NEW i \in 1 .. N PROVE p[i] = Reads(p[i - 1], ss[i])
  <2>1. CASE i = 1
    BY <2>1, <1>1, <1>2, <1>4
  <2>2. CASE i # 1
    <3> DEFINE u == f[i - 1]
               v == ss[i]
    <3>1. i - 1 \in 1 .. N /\ i > 1
      BY <1>1, <2>2
    <3>2. p[i - 1] = Reads(c, u) /\ f[i] = u \o v
      BY <3>1, <1>2, <1>4
    <3>3. u \in Seq(T) /\ v \in Seq(T)
      BY <3>1, <1>1, <1>3
    <3> HIDE DEF u, v
    <3>4. Reads(c, u \o v) = Reads(Reads(c, u), v)
      BY <3>3, ReadsOn
    <3>5. p[i] = Reads(p[i - 1], v)
      BY <3>2, <3>4, <1>4
    <3> QED
      BY <3>5 DEF v
  <2> QED
    BY <2>1, <2>2
<1>6. Reads(c, FlattenSeq(ss)) = p[N] /\ FlattenSeq(ss) \in Seq(T)
  <2>1. CASE N = 0
    <3>1. ss = <<>> /\ FlattenSeq(ss) = ss
      BY <2>1, <1>1, FlattenIsFlat
    <3>2. Reads(c, <<>>) = c
      BY ReadNone
    <3>3. Reads(c, FlattenSeq(ss)) = c /\ FlattenSeq(ss) = <<>>
      BY <3>1, <3>2
    <3>4. <<>> \in Seq(T)
      OBVIOUS
    <3> QED
      BY <3>3, <3>4, <2>1, <1>4
  <2>2. CASE N # 0
    <3>1. FlattenSeq(ss) = f[N]
      BY <2>2, <1>1, FlattenIsFlat DEF f
    <3>2. N \in 1 .. N
      BY <2>2, <1>1
    <3> QED
      BY <3>1, <3>2, <1>3, <1>4
  <2> QED
    BY <2>1, <2>2
<1> QED
  BY <1>4, <1>5, <1>6 DEF p, InParts

(* Of all sections only s may have changed from d to e, and it is the current one. *)
OnlyIn(d, e, s) == /\ e.cur = s /\ DOMAIN e.of = DOMAIN d.of
                   /\ \A x \in DOMAIN d.of : x # s => e.of[x] = d.of[x]

(* The lines that give k its values *)
Gives(k, values) == [i \in DOMAIN values |-> <<k, values[i]>>]

(* Between d and e, section s got the key k. *)
Gained(d, e, s, k, values) ==
    /\ OnlyIn(d, e, s)
    /\ DOMAIN e.of[s] = DOMAIN d.of[s] \cup {k}
    /\ e.of[s][k] = values
    /\ \A l \in DOMAIN d.of[s] : e.of[s][l] = d.of[s][l]

LEMMA ReadValues ==
    ASSUME NEW d, NEW s, d.cur = s, s \in DOMAIN d.of,
           NEW k, k \notin DOMAIN d.of[s], NEW values \in Seq(STRING), values # <<>>,
           NEW e, e = Reads(d, Gives(k, values))
    PROVE  Gained(d, e, s, k, values)
<1> DEFINE u == Gives(k, values)
           N == Len(values)
           f == Lines(d, u)
           Begun(w, j) == w \in Seq(STRING) /\ Len(w) = j /\ \A i \in 1 .. j : w[i] = values[i]
           Done(g, j) == /\ OnlyIn(d, g, s)
                         /\ DOMAIN g.of[s] = DOMAIN d.of[s] \cup {k}
                         /\ Begun(g.of[s][k], j)
                         /\ \A l \in DOMAIN d.of[s] : g.of[s][l] = d.of[s][l]
           S == {j \in Nat : j + 1 <= N => Done(f[j + 1], j + 1)}
           Adds(c, g, v) ==
             /\ g.cur = s /\ DOMAIN g.of = DOMAIN c.of /\ v \in STRING
             /\ \A x \in DOMAIN c.of : x # s => g.of[x] = c.of[x]
             /\ DOMAIN g.of[s] = DOMAIN c.of[s] \cup {k}
             /\ g.of[s][k] = IF k \in DOMAIN c.of[s] THEN Append(c.of[s][k], v) ELSE <<v>>
             /\ \A l \in DOMAIN c.of[s] : l # k => g.of[s][l] = c.of[s][l]
<1>1. /\ N \in Nat /\ N > 0 /\ DOMAIN values = 1 .. N
      /\ \A i \in 1 .. N : values[i] \in STRING
  <2>1. N # 0
    OBVIOUS
  <2> QED
    BY <2>1
<1>2. Len(u) = N /\ \A i \in 1 .. N : u[i] = <<k, values[i]>>
  BY <1>1 DEF Gives
<1>3. /\ e = f[N] /\ f[0] = d
      /\ \A i \in 1 .. N : f[i] = Line(f[i - 1], u[i])
  <2> HIDE DEF u
  <2> QED
    BY <1>1, <1>2, LinesAre DEF u
<1> HIDE DEF u, f, N
<1>4. ASSUME NEW i \in 1 .. N PROVE f[i] = Assignment(f[i - 1], k, values[i])
  <2> DEFINE v == values[i]
             line == <<k, v>>
  <2>1. f[i] = Line(f[i - 1], line)
    BY <1>2, <1>3
  <2>2. Len(line) # 1 /\ line[1] = k /\ line[2] = v
    OBVIOUS
  <2> HIDE DEF line
  <2>3. f[i] = Assignment(f[i - 1], k, v)
    BY <2>1, <2>2 DEF Line
  <2> QED
    BY <2>3
<1>5. ASSUME NEW j \in Nat, j + 1 <= N, f[j].cur = s, s \in DOMAIN f[j].of
      PROVE  Adds(f[j], f[j + 1], values[j + 1])
  <2> DEFINE c == f[j]
             g == f[j + 1]
             v == values[j + 1]
  <2>1. j + 1 \in 1 .. N /\ (j + 1) - 1 = j
    BY <1>1, <1>5
  <2>2. g = Assignment(c, k, v) /\ v \in STRING /\ c.cur = s /\ s \in DOMAIN c.of
    BY <2>1, <1>1, <1>4, <1>5
  <2> HIDE DEF c, g, v
  <2>3. g.cur = c.cur /\ DOMAIN g.of = DOMAIN c.of
    BY <2>2, AssignmentPlace
  <2>4. /\ \A x \in DOMAIN c.of : x # c.cur => g.of[x] = c.of[x]
        /\ DOMAIN g.of[c.cur] = DOMAIN c.of[c.cur] \cup {k}
        /\ g.of[c.cur][k] = IF k \in DOMAIN c.of[c.cur] THEN Append(c.of[c.cur][k], v) ELSE <<v>>
        /\ \A l \in DOMAIN c.of[c.cur] : l # k => g.of[c.cur][l] = c.of[c.cur][l]
    BY <2>2, AssignmentIs
  <2>5. Adds(c, g, v)
    BY <2>2, <2>3, <2>4
  <2> QED
    BY <2>5 DEF c, g, v
<1>6. 0 \in S
  <2> SUFFICES Done(f[1], 1)
    OBVIOUS
  <2> DEFINE g == f[1]
             v == values[1]
  <2>1. 0 + 1 = 1 /\ 0 + 1 <= N /\ d = f[0]
    BY <1>1, <1>3
  <2>2. /\ g.cur = s /\ DOMAIN g.of = DOMAIN d.of /\ v \in STRING
        /\ \A x \in DOMAIN d.of : x # s => g.of[x] = d.of[x]
        /\ DOMAIN g.of[s] = DOMAIN d.of[s] \cup {k}
        /\ g.of[s][k] = IF k \in DOMAIN d.of[s] THEN Append(d.of[s][k], v) ELSE <<v>>
        /\ \A l \in DOMAIN d.of[s] : l # k => g.of[s][l] = d.of[s][l]
    <3>1. Adds(f[0], f[0 + 1], values[0 + 1])
      <4> HIDE DEF Adds
      <4> QED
        BY <2>1, <1>5
    <3>2. Adds(d, g, v)
      BY <3>1, <2>1
    <3> HIDE DEF g, v
    <3> QED
      BY <3>2
  <2> HIDE DEF g
  <2>3. g.of[s][k] = <<v>>
    BY <2>2
  <2>4. Begun(<<v>>, 1)
    BY <2>2
  <2>5. \A l \in DOMAIN d.of[s] : l # k
    OBVIOUS
  <2>6. Done(g, 1)
    <3>1. Begun(g.of[s][k], 1)
      BY <2>3, <2>4
    <3> HIDE DEF Begun
    <3> QED
      BY <3>1, <2>2, <2>5 DEF OnlyIn
  <2> QED
    BY <2>6 DEF g
<1>7. ASSUME NEW j \in Nat, j \in S PROVE j + 1 \in S
  <2> DEFINE m == j + 1
  <2> SUFFICES ASSUME m + 1 <= N PROVE Done(f[m + 1], m + 1)
    OBVIOUS
  <2>1. m \in Nat /\ m = j + 1 /\ m <= N /\ m + 1 \in 1 .. N
    BY <1>1
  <2> DEFINE c == f[m]
             g == f[m + 1]
             v == values[m + 1]
  <2>2. Done(c, m)
    BY <1>7, <2>1
  <2> HIDE DEF m, S
  <2>3. c.cur = s /\ s \in DOMAIN c.of /\ k \in DOMAIN c.of[s]
    <3> HIDE DEF c, Begun
    <3> QED
      BY <2>2 DEF OnlyIn
  <2>4. /\ g.cur = s /\ DOMAIN g.of = DOMAIN c.of /\ v \in STRING
        /\ \A x \in DOMAIN c.of : x # s => g.of[x] = c.of[x]
        /\ DOMAIN g.of[s] = DOMAIN c.of[s] \cup {k}
        /\ g.of[s][k] = IF k \in DOMAIN c.of[s] THEN Append(c.of[s][k], v) ELSE <<v>>
        /\ \A l \in DOMAIN c.of[s] : l # k => g.of[s][l] = c.of[s][l]
    <3>1. Adds(c, g, v)
      <4> HIDE DEF Adds
      <4> QED
        BY <2>1, <2>3, <1>5
    <3> HIDE DEF c, g, v
    <3> QED
      BY <3>1
  <2> HIDE DEF c, g
  <2>5. Begun(g.of[s][k], m + 1)
    <3> DEFINE w == c.of[s][k]
    <3>1. g.of[s][k] = Append(w, v) /\ Begun(w, m)
      <4> HIDE DEF Begun
      <4> QED
        BY <2>2, <2>3, <2>4
    <3> HIDE DEF w
    <3>2. Append(w, v) \in Seq(STRING) /\ Len(Append(w, v)) = m + 1
          /\ Append(w, v)[m + 1] = v /\ \A i \in 1 .. m : Append(w, v)[i] = w[i]
      BY <3>1, <2>1, <2>4
    <3>3. \A i \in 1 .. m + 1 : i \in 1 .. m \/ i = m + 1
      BY <2>1
    <3>4. Begun(Append(w, v), m + 1)
      BY <3>1, <3>2, <3>3
    <3> QED
      BY <3>1, <3>4
  <2>6. \A l \in DOMAIN d.of[s] : l # k
    OBVIOUS
  <2>7. Done(g, m + 1)
    <3> HIDE DEF Begun
    <3> QED
      BY <2>2, <2>3, <2>4, <2>5, <2>6 DEF OnlyIn
  <2> QED
    BY <2>7 DEF g
<1>8. Done(e, N)
  <2> HIDE DEF S
  <2>1. Nat \subseteq S
    BY <1>6, <1>7, SetInduction
  <2>2. N - 1 \in Nat /\ (N - 1) + 1 = N
    BY <1>1
  <2> HIDE DEF Done
  <2> QED
    BY <2>1, <2>2, <1>3 DEF S
<1>9. ASSUME NEW w, Begun(w, N) PROVE w = values
  <2>1. w \in Seq(STRING) /\ Len(w) = Len(values) /\ \A i \in 1 .. Len(values) : w[i] = values[i]
    BY <1>9 DEF N
  <2> QED
    BY <2>1
<1> HIDE DEF Begun
<1> QED
  BY <1>8, <1>9 DEF Gained

LEMMA SetToSeqIs ==
    ASSUME NEW X, IsFiniteSet(X), NEW q, q = SetToSeq(X)
    PROVE  /\ q \in Seq(X) /\ X = {q[i] : i \in DOMAIN q}
           /\ \A i, j \in DOMAIN q : q[i] = q[j] => i = j
<1> DEFINE N == Cardinality(X)
           Is(f) == f \in [1 .. N -> X] /\ IsInjective(f)
<1>1. N \in Nat /\ ExistsBijection(1 .. N, X)
  BY FS_CardinalityType
<1>2. \E f : Is(f)
  BY <1>1 DEF ExistsBijection, Bijection, Injection, IsInjective
<1>3. q = CHOOSE f \in [1 .. N -> X] : IsInjective(f)
  BY DEF SetToSeq
<1>4. Is(q)
  BY <1>2, <1>3
<1> HIDE DEF N
<1>5. q \in Injection(1 .. N, X)
  BY <1>4 DEF Injection
<1>6. IsFiniteSet(1 .. N) /\ Cardinality(1 .. N) = N
  BY <1>1, FS_Interval
<1>7. q \in Surjection(1 .. N, X)
  BY <1>5, <1>6, FS_Injection DEF N
<1>8. \A x \in X : \E i \in 1 .. N : q[i] = x
  BY <1>7 DEF Surjection
<1>9. q \in Seq(X) /\ DOMAIN q = 1 .. N /\ \A i \in 1 .. N : q[i] \in X
  BY <1>1, <1>4
<1>10. X = {q[i] : i \in DOMAIN q}
  BY <1>8, <1>9
<1> QED
  BY <1>4, <1>9, <1>10 DEF IsInjective

(* Between d and e, section s got all that h says. *)
Filled(d, e, s, h) ==
    /\ OnlyIn(d, e, s) /\ DOMAIN e.of[s] = DOMAIN h
    /\ \A k \in DOMAIN h : e.of[s][k] = h[k]

LEMMA ReadKeys ==
    ASSUME NEW d, NEW s, d.cur = s, s \in DOMAIN d.of, DOMAIN d.of[s] = {},
           NEW h, GoodSection(h), NEW q, q = SetToSeq(DOMAIN h),
           NEW ss, ss = [i \in DOMAIN q |-> Gives(q[i], h[q[i]])],
           NEW e, e = Reads(d, FlattenSeq(ss))
    PROVE  Filled(d, e, s, h) /\ FlattenSeq(ss) \in Seq(Seq(STRING))
<1> DEFINE N == Len(q)
           r == PartsRead(d, ss)
           Done(g, j) == /\ OnlyIn(d, g, s)
                         /\ DOMAIN g.of[s] = {q[i] : i \in 1 .. j}
                         /\ \A i \in 1 .. j : g.of[s][q[i]] = h[q[i]]
           S == {j \in Nat : j <= N => Done(r[j], j)}
<1>1. /\ q \in Seq(DOMAIN h) /\ DOMAIN h = {q[i] : i \in DOMAIN q}
      /\ \A i, j \in DOMAIN q : q[i] = q[j] => i = j
      /\ N \in Nat /\ DOMAIN q = 1 .. N
  <2> DEFINE X == DOMAIN h
  <2>1. IsFiniteSet(X) /\ q = SetToSeq(X)
    BY DEF GoodSection
  <2> HIDE DEF X
  <2>2. /\ q \in Seq(X) /\ X = {q[i] : i \in DOMAIN q}
        /\ \A i, j \in DOMAIN q : q[i] = q[j] => i = j
    BY <2>1, SetToSeqIs
  <2>3. N \in Nat /\ DOMAIN q = 1 .. N
    BY <2>2
  <2> QED
    BY <2>2, <2>3 DEF X
<1>2. \A i \in 1 .. N : q[i] \in DOMAIN h
  <2> HIDE DEF N
  <2> QED
    BY <1>1
<1>3. \A k \in DOMAIN h : k \in STRING /\ h[k] \in Seq(STRING) /\ h[k] # <<>>
  BY DEF GoodSection
<1>4. ASSUME NEW k \in STRING, NEW values \in Seq(STRING)
      PROVE  Gives(k, values) \in Seq(Seq(STRING))
  <2>1. \A v \in STRING : <<k, v>> \in Seq(STRING)
    OBVIOUS
  <2>2. DOMAIN values = 1 .. Len(values) /\ Len(values) \in Nat
        /\ \A i \in 1 .. Len(values) : values[i] \in STRING
    OBVIOUS
  <2> DEFINE u == [i \in 1 .. Len(values) |-> <<k, values[i]>>]
  <2>3. \A i \in 1 .. Len(values) : u[i] \in Seq(STRING)
    BY <2>1, <2>2
  <2>4. Gives(k, values) = u
    BY <2>2 DEF Gives
  <2> QED
    BY <2>2, <2>3, <2>4
<1>5. Len(ss) = N /\ ss \in Seq(Seq(Seq(STRING)))
      /\ \A i \in 1 .. N : ss[i] = Gives(q[i], h[q[i]])
  <2>1. \A i \in 1 .. N : Gives(q[i], h[q[i]]) \in Seq(Seq(STRING))
    BY <1>2, <1>3, <1>4
  <2>2. ss = [i \in 1 .. N |-> Gives(q[i], h[q[i]])]
    BY <1>2
  <2> QED
    BY <2>1, <2>2, <1>2
<1>6. /\ e = r[N] /\ r[0] = d /\ FlattenSeq(ss) \in Seq(Seq(STRING))
      /\ \A i \in 1 .. N : r[i] = Reads(r[i - 1], ss[i])
  <2> DEFINE T == Seq(STRING)
  <2>1. ss \in Seq(Seq(T)) /\ Len(ss) = N
    BY <1>5
  <2> HIDE DEF T
  <2>2. InParts(T, ss, d)
    BY <2>1, PartsAre
  <2> QED
    BY <2>1, <2>2 DEF InParts, T
<1> HIDE DEF r, N
<1>7. 0 \in S
  BY <1>6 DEF OnlyIn
<1>8. ASSUME NEW j \in Nat, j \in S PROVE j + 1 \in S
  <2> SUFFICES ASSUME j + 1 <= N PROVE Done(r[j + 1], j + 1)
    OBVIOUS
  <2> DEFINE c == r[j]
             g == r[j + 1]
             m == j + 1
             k == q[m]
             values == h[k]
  <2>1. m \in 1 .. N /\ m - 1 = j /\ j <= N
        /\ (\A i : i \in 1 .. m <=> i \in 1 .. j \/ i = m)
        /\ (\A i \in 1 .. j : i \in 1 .. N /\ i # m)
    BY <1>1
  <2>2. Done(c, j)
    BY <1>8, <2>1
  <2> HIDE DEF m
  <2>3. g = Reads(c, Gives(k, values))
    <3>1. r[m] = Reads(r[m - 1], ss[m]) /\ ss[m] = Gives(k, values)
      BY <2>1, <1>5, <1>6
    <3> QED
      BY <3>1, <2>1 DEF m
  <2>4. k \in DOMAIN h /\ values \in Seq(STRING) /\ values # <<>>
        /\ \A i \in 1 .. j : q[i] # k
    BY <2>1, <1>1, <1>2, <1>3
  <2> HIDE DEF c, g, k, values, S
  <2>5. c.cur = s /\ s \in DOMAIN c.of /\ k \notin DOMAIN c.of[s]
    BY <2>2, <2>4 DEF OnlyIn
  <2>6. Gained(c, g, s, k, values)
    BY <2>3, <2>4, <2>5, ReadValues
  <2>7. OnlyIn(c, g, s) /\ DOMAIN g.of[s] = DOMAIN c.of[s] \cup {k} /\ g.of[s][k] = values
    BY <2>6 DEF Gained
  <2>8. \A l \in DOMAIN c.of[s] : g.of[s][l] = c.of[s][l]
    BY <2>6 DEF Gained
  <2>9. OnlyIn(d, g, s)
    BY <2>2, <2>7 DEF OnlyIn
  <2>10. DOMAIN g.of[s] = {q[i] : i \in 1 .. m}
    BY <2>1, <2>2, <2>7 DEF k
  <2>11. \A i \in 1 .. m : g.of[s][q[i]] = h[q[i]]
    <3> TAKE i \in 1 .. m
    <3>1. CASE i = m
      BY <3>1, <2>7 DEF k, values
    <3>2. CASE i \in 1 .. j
      <4>1. q[i] \in DOMAIN c.of[s]
        BY <3>2, <2>2
      <4> QED
        BY <4>1, <3>2, <2>2, <2>8
    <3> QED
      BY <3>1, <3>2, <2>1
  <2>12. Done(g, m)
    BY <2>9, <2>10, <2>11
  <2> QED
    BY <2>12 DEF g, m
<1>9. Done(e, N)
  <2> HIDE DEF S, Done
  <2>1. Nat \subseteq S
    BY <1>7, <1>8, SetInduction
  <2> QED
    BY <2>1, <1>1, <1>6 DEF S
<1>10. DOMAIN h = {q[i] : i \in 1 .. N}
  BY <1>1
<1>11. OnlyIn(d, e, s) /\ DOMAIN e.of[s] = DOMAIN h
  BY <1>9, <1>10
<1>12. ASSUME NEW k, k \in DOMAIN h PROVE e.of[s][k] = h[k]
  <2>1. PICK i \in 1 .. N : q[i] = k
    BY <1>10, <1>12
  <2> QED
    BY <2>1, <1>9
<1> QED
  BY <1>6, <1>11, <1>12 DEF Filled

LEMMA ReadSection ==
    ASSUME NEW c, NEW s \in STRING, s # Orphan, GoodSection(c.of[s]),
           NEW d, s \notin DOMAIN d.of, NEW e, e = Reads(d, WriteSection(c, s))
    PROVE  /\ DOMAIN e.of = DOMAIN d.of \cup {s}
           /\ \A x \in DOMAIN d.of : e.of[x] = d.of[x]
           /\ DOMAIN e.of[s] = DOMAIN c.of[s]
           /\ \A k \in DOMAIN c.of[s] : e.of[s][k] = c.of[s][k]
           /\ WriteSection(c, s) \in Seq(Seq(STRING))
<1> DEFINE h == c.of[s]
           q == SetToSeq(DOMAIN h)
           ss == [i \in DOMAIN q |-> Gives(q[i], h[q[i]])]
           line == <<s>>
           top == <<line>>
           rest == FlattenSeq(ss)
           b == NewSection(d, s)
<1>1. WriteSection(c, s) = top \o rest
  BY DEF WriteSection, Assignments, Gives
<1>2. top \in Seq(Seq(STRING)) /\ Len(line) = 1 /\ line[1] = s
  OBVIOUS
<1>3. /\ b.cur = s /\ DOMAIN b.of = DOMAIN d.of \cup {s}
      /\ \A x \in DOMAIN d.of : b.of[x] = d.of[x]
  BY HeaderIs
<1>4. b.of[s] = <<>>
  BY HeaderIs
<1>5. Reads(d, top) = b
  <2>1. Reads(d, top) = Line(d, line)
    BY ReadOne
  <2> HIDE DEF line
  <2>2. Line(d, line) = NewSection(d, s)
    BY <1>2 DEF Line
  <2> QED
    BY <2>1, <2>2
<1>6. s \in DOMAIN b.of /\ DOMAIN b.of[s] = {}
  BY <1>3, <1>4
<1> HIDE DEF h, q, top, b
<1> DEFINE f == Reads(b, rest)
<1>7. Filled(b, f, s, h) /\ rest \in Seq(Seq(STRING))
  <2>1. GoodSection(h) /\ q = SetToSeq(DOMAIN h)
    BY DEF q, h
  <2>2. ss = [i \in DOMAIN q |-> Gives(q[i], h[q[i]])]
    OBVIOUS
  <2> HIDE DEF ss
  <2> QED
    BY <2>1, <2>2, <1>3, <1>6, ReadKeys
<1>8. OnlyIn(b, f, s) /\ DOMAIN f.of[s] = DOMAIN h /\ \A k \in DOMAIN h : f.of[s][k] = h[k]
  BY <1>7 DEF Filled
<1>9. rest \in Seq(Seq(STRING))
  BY <1>7
<1> HIDE DEF rest
<1>10. Reads(d, top \o rest) = f /\ top \o rest \in Seq(Seq(STRING))
  <2>1. Reads(d, top \o rest) = Reads(Reads(d, top), rest)
    BY <1>2, <1>9, ReadsOn DEF top
  <2>2. top \o rest \in Seq(Seq(STRING))
    BY <1>2, <1>9, ConcatAt
  <2> QED
    BY <2>1, <2>2, <1>5
<1>11. e = f
  BY <1>1, <1>10
<1> HIDE DEF f
<1>12. DOMAIN e.of = DOMAIN d.of \cup {s} /\ \A x \in DOMAIN d.of : e.of[x] = d.of[x]
  BY <1>3, <1>8, <1>11 DEF OnlyIn
<1> QED
  BY <1>1, <1>8, <1>10, <1>11, <1>12 DEF h

(* e says of section s what c says of it. *)
SameSection(e, c, s) ==
    /\ s \in DOMAIN e.of /\ DOMAIN e.of[s] = DOMAIN c.of[s]
    /\ \A k \in DOMAIN c.of[s] : e.of[s][k] = c.of[s][k]

LEMMA ReadWritten ==
    ASSUME NEW c, Good(c), NEW e, e = Parse(Write(c))
    PROVE  /\ \A s, k : HasKey(e, s, k) <=> HasKey(c, s, k)
           /\ \A s, k : HasKey(c, s, k) => e.of[s][k] = c.of[s][k]
<1> DEFINE q == c.order
           N == Len(q)
           ss == [i \in DOMAIN q |-> WriteSection(c, q[i])]
           T == Seq(STRING)
           r == PartsRead(Nothing, ss)
           Done(g, j) == /\ DOMAIN g.of = {q[i] : i \in 1 .. j}
                         /\ \A i \in 1 .. j : SameSection(g, c, q[i])
           S == {j \in Nat : j <= N => Done(r[j], j)}
<1>1. /\ N \in Nat /\ DOMAIN q = 1 .. N /\ DOMAIN c.of = {q[i] : i \in 1 .. N}
      /\ \A i, j \in 1 .. N : q[i] = q[j] => i = j
  BY DEF Good
<1>2. \A i \in 1 .. N : q[i] \in STRING /\ q[i] # Orphan /\ GoodSection(c.of[q[i]])
  <2>1. \A s \in DOMAIN c.of : s # Orphan /\ GoodSection(c.of[s])
    BY DEF Good
  <2>2. \A i \in 1 .. N : q[i] \in STRING
    BY <1>1 DEF Good
  <2> QED
    BY <2>1, <2>2, <1>1
<1>3. Len(ss) = N /\ ss \in Seq(Seq(T)) /\ \A i \in 1 .. N : ss[i] = WriteSection(c, q[i])
  <2>1. ASSUME NEW i \in 1 .. N PROVE WriteSection(c, q[i]) \in Seq(T)
    <3> DEFINE s == q[i]
               d == Nothing
               g == Reads(d, WriteSection(c, s))
    <3>1. s \notin DOMAIN d.of
      BY DEF Nothing
    <3>2. s \in STRING /\ s # Orphan /\ GoodSection(c.of[s])
      BY <1>2
    <3> HIDE DEF s, d
    <3> QED
      BY <3>1, <3>2, ReadSection DEF s
  <2>2. ss = [i \in 1 .. N |-> WriteSection(c, q[i])]
    BY <1>1
  <2> HIDE DEF T
  <2> QED
    BY <2>1, <2>2, <1>1
<1>4. InParts(T, ss, Nothing)
  <2> HIDE DEF T, ss
  <2> QED
    BY <1>3, PartsAre
<1>5. /\ r[0] = Nothing /\ e = r[N]
      /\ \A i \in 1 .. N : r[i] = Reads(r[i - 1], ss[i])
  <2>1. Write(c) = FlattenSeq(ss)
    BY DEF Write
  <2> HIDE DEF ss
  <2> QED
    BY <2>1, <1>3, <1>4 DEF InParts, Parse
<1> HIDE DEF r, ss, N, q
<1>6. 0 \in S
  <2>1. DOMAIN Nothing.of = {}
    BY DEF Nothing
  <2> QED
    BY <2>1, <1>5
<1>7. ASSUME NEW j \in Nat, j \in S PROVE j + 1 \in S
  <2> SUFFICES ASSUME j + 1 <= N PROVE Done(r[j + 1], j + 1)
    OBVIOUS
  <2> DEFINE d == r[j]
             g == r[j + 1]
             m == j + 1
             s == q[m]
  <2>1. m \in 1 .. N /\ m - 1 = j /\ j <= N
        /\ (\A i : i \in 1 .. m <=> i \in 1 .. j \/ i = m)
        /\ (\A i \in 1 .. j : i \in 1 .. N /\ i # m)
    BY <1>1
  <2>2. Done(d, j)
    BY <1>7, <2>1
  <2> HIDE DEF m
  <2>3. g = Reads(d, WriteSection(c, s))
    <3>1. r[m] = Reads(r[m - 1], ss[m]) /\ ss[m] = WriteSection(c, s)
      BY <2>1, <1>3, <1>5
    <3> QED
      BY <3>1, <2>1 DEF m
  <2>4. s \in STRING /\ s # Orphan /\ GoodSection(c.of[s]) /\ \A i \in 1 .. j : q[i] # s
    BY <2>1, <1>1, <1>2
  <2> HIDE DEF d, g, s, S
  <2>5. s \notin DOMAIN d.of
    BY <2>2, <2>4
  <2>6. /\ DOMAIN g.of = DOMAIN d.of \cup {s}
        /\ \A x \in DOMAIN d.of : g.of[x] = d.of[x]
        /\ SameSection(g, c, s)
    BY <2>3, <2>4, <2>5, ReadSection DEF SameSection
  <2>7. DOMAIN g.of = {q[i] : i \in 1 .. m}
    BY <2>1, <2>2, <2>6 DEF s
  <2>8. \A i \in 1 .. m : SameSection(g, c, q[i])
    <3> TAKE i \in 1 .. m
    <3>1. CASE i = m
      BY <3>1, <2>6 DEF s
    <3>2. CASE i \in 1 .. j
      <4>1. SameSection(d, c, q[i])
        BY <3>2, <2>2
      <4> QED
        BY <4>1, <2>6 DEF SameSection
    <3> QED
      BY <3>1, <3>2, <2>1
  <2>9. Done(g, m)
    BY <2>7, <2>8
  <2> QED
    BY <2>9 DEF g, m
<1>8. Done(e, N)
  <2> HIDE DEF S, Done
  <2>1. Nat \subseteq S
    BY <1>6, <1>7, SetInduction
  <2> QED
    BY <2>1, <1>1, <1>5 DEF S
<1>9. DOMAIN e.of = DOMAIN c.of /\ \A s \in DOMAIN c.of : SameSection(e, c, s)
  BY <1>1, <1>8
<1> QED
  BY <1>9 DEF HasKey, SameSection

(* Of files that begin with a section, however many, the merged one has the     *)
(* keys of all, each with the values of the last file that gives it any         *)
(* (merge_configs).                                                         *)
THEOREM MergesAll ==
    ASSUME NEW sources, Len(sources) \in Nat, DOMAIN sources = 1 .. Len(sources),
           \A i \in 1 .. Len(sources) :
              sources[i] # Null => IsFile(sources[i]) /\ BeginsWithHeader(sources[i])
    PROVE  LastWins(sources, Merge(sources))
<1> DEFINE N == Len(sources)
           d == Files(sources)[N]
           merged == Merge(sources)
           e == Parse(merged)
<1>1. /\ Good(d)
      /\ \A s, k : HasKey(d, s, k) <=> \E i \in 1 .. N : Speaks(sources[i], s, k)
      /\ \A s, k : HasKey(d, s, k) => \E i \in 1 .. N : /\ LastToSpeak(sources, N, i, s, k)
                                                   /\ d.of[s][k] = Parse(sources[i]).of[s][k]
  <2>1. Together(d, sources)
    BY FilesWin
  <2> QED
    BY <2>1 DEF Together
<1>2. merged = Write(d)
  BY FilesAre
<1> HIDE DEF d, merged
<1>3. /\ \A s, k : HasKey(e, s, k) <=> HasKey(d, s, k)
      /\ \A s, k : HasKey(d, s, k) => e.of[s][k] = d.of[s][k]
  BY <1>1, <1>2, ReadWritten
<1>4. /\ \A s, k : <<s, k>> \in KeysIn(merged) <=> HasKey(e, s, k)
      /\ \A key \in KeysIn(merged) : key = <<key[1], key[2]>>
  BY DEF KeysIn, HasKey
<1>5. \A i : /\ \A s, k : <<s, k>> \in Keys(sources[i]) <=> Speaks(sources[i], s, k)
             /\ \A key \in Keys(sources[i]) : key = <<key[1], key[2]>>
  BY KeysAre
<1> HIDE DEF e
<1>6. KeysIn(merged) = UNION {Keys(sources[i]) : i \in DOMAIN sources}
  <2>1. ASSUME NEW key, key \in KeysIn(merged)
        PROVE  key \in UNION {Keys(sources[i]) : i \in DOMAIN sources}
    <3> DEFINE s == key[1]
               k == key[2]
    <3>1. key = <<s, k>> /\ HasKey(d, s, k)
      BY <2>1, <1>3, <1>4
    <3>2. PICK i \in 1 .. N : Speaks(sources[i], s, k)
      BY <3>1, <1>1
    <3>3. key \in Keys(sources[i])
      BY <3>1, <3>2, <1>5
    <3> QED
      BY <3>3
  <2>2. ASSUME NEW i \in DOMAIN sources, NEW key, key \in Keys(sources[i])
        PROVE  key \in KeysIn(merged)
    <3> DEFINE s == key[1]
               k == key[2]
    <3>1. key = <<s, k>> /\ Speaks(sources[i], s, k)
      BY <2>2, <1>5
    <3>2. HasKey(e, s, k)
      BY <3>1, <1>1, <1>3
    <3> QED
      BY <3>1, <3>2, <1>4
  <2> QED
    BY <2>1, <2>2
<1>7. ASSUME NEW key, key \in KeysIn(merged)
      PROVE  \E i \in DOMAIN sources :
                /\ key \in Keys(sources[i])
                /\ \A j \in DOMAIN sources : j > i => key \notin Keys(sources[j])
                /\ ValuesIn(merged, key) = ValuesIn(sources[i], key)
  <2> DEFINE s == key[1]
             k == key[2]
  <2>1. key = <<s, k>> /\ HasKey(d, s, k) /\ e.of[s][k] = d.of[s][k]
    BY <1>7, <1>3, <1>4
  <2>2. PICK i \in 1 .. N : /\ LastToSpeak(sources, N, i, s, k)
                            /\ d.of[s][k] = Parse(sources[i]).of[s][k]
    BY <2>1, <1>1
  <2>3. ValuesIn(merged, key) = e.of[s][k] /\ ValuesIn(sources[i], key) = Parse(sources[i]).of[s][k]
    BY DEF ValuesIn, e
  <2> HIDE DEF s, k
  <2>4. key \in Keys(sources[i]) /\ \A j \in 1 .. N : j > i => key \notin Keys(sources[j])
    BY <2>1, <2>2, <1>5 DEF LastToSpeak
  <2> QED
    BY <2>1, <2>2, <2>3, <2>4
<1> QED
  BY <1>6, <1>7 DEF LastWins, merged
=============================================================================
