------------------------ MODULE OsdBootstrap_proofs ------------------------
(***************************************************************************)
(* What is proved of OsdBootstrap for every host, every labelling and any     *)
(* number of deployments, failures and aborted plays.                        *)
(***************************************************************************)
EXTENDS OsdBootstrap, FiniteSetTheorems, SequenceTheorems, WellFoundedInduction, TLAPS

-----------------------------------------------------------------------------
(* Numbers                                                                   *)

(* Induction, for a set instead of a predicate. *)
LEMMA SetInduction ==
    ASSUME NEW S, 0 \in S, \A m \in Nat : m \in S => m + 1 \in S
    PROVE  Nat \subseteq S
<1> DEFINE T == Nat \ S
           R == OpToRel(<, Nat)
<1> SUFFICES ASSUME T # {} PROVE FALSE
  OBVIOUS
<1>1. IsWellFoundedOn(R, Nat)
  BY NatLessThanWellFounded
<1>2. T \subseteq Nat
  OBVIOUS
<1>3. PICK x \in T : \A y \in T : ~ (<<y, x>> \in R)
  BY <1>1, <1>2, WFMin
<1>4. x \in Nat /\ x # 0
  BY <1>2
<1>5. x - 1 \in Nat /\ x - 1 < x /\ (x - 1) + 1 = x
  BY <1>4
<1>6. x - 1 \in T
  BY <1>3, <1>5
<1>7. <<x - 1, x>> \in R
  BY <1>4, <1>5 DEF OpToRel
<1> QED
  BY <1>3, <1>6, <1>7

(* A set of indices that is not empty has a last one. *)
LEMMA LastIndex ==
    ASSUME NEW m \in Nat, NEW S \in SUBSET (1 .. m), S # {}
    PROVE  \E k \in S : \A l \in S : l <= k
<1> DEFINE T == {j \in Nat : j <= m /\ m - j \in S}
           R == OpToRel(<, Nat)
<1>1. IsWellFoundedOn(R, Nat)
  BY NatLessThanWellFounded
<1>2. PICK s \in S : TRUE
  OBVIOUS
<1>3. m - s \in T
  BY <1>2
<1>4. PICK j \in T : \A y \in T : ~ (<<y, j>> \in R)
  BY <1>1, <1>3, WFMin
<1>5. m - j \in S
  BY <1>4
<1>6. ASSUME NEW l \in S PROVE l <= m - j
  <2>1. m - l \in T
    BY <1>6
  <2>2. ~(m - l < j)
    BY <1>4, <2>1 DEF OpToRel
  <2>3. j \in Nat
    BY <1>4
  <2>4. l \in 1 .. m
    BY <1>6
  <2> QED
    BY <2>2, <2>3, <2>4
<1> QED
  BY <1>5, <1>6

-----------------------------------------------------------------------------
(* The script                                                                *)

OpNames == {"zap", "divide", "clear", "new", "format", "rename", "mkfs", "crush"}
Commands == [op : OpNames, part : Parts, use : Uses]

(* What the commands come after; those of one rank may be in any order. *)
Rank(o) == CASE o.op = "zap" -> 1
             [] o.op = "divide" -> 2
             [] o.op = "clear" -> 3
             [] o.op = "new" -> 4
             [] o.op \in {"format", "rename"} -> 5
             [] o.op = "mkfs" -> 6
             [] o.op = "crush" -> 7

(* An item whose block or journal partition, if it is not one that was         *)
(* labelled for it, is on the disk of the OSD partition.                      *)
Sound(item) ==
    /\ item \in Item
    /\ item.external \/ DiskOf[item.aux] = DiskOf[item.osd]

(* The partitions a command may be about. *)
Allowed(item, o) ==
    /\ o.op \in {"zap", "divide"} => ~item.external /\ ~WholeDevice(item) /\ o.part = item.osd
    /\ o.op \in {"clear", "rename"} => o.part \in PartsOf(item)

InOrder(s) == \A i, j \in DOMAIN s : i < j => Rank(s[i]) <= Rank(s[j])
Within(s, item, lo, hi) ==
    /\ s \in Seq(Commands)
    /\ InOrder(s)
    /\ \A i \in DOMAIN s : lo <= Rank(s[i]) /\ Rank(s[i]) <= hi /\ Allowed(item, s[i])

Renames(s, p) == \E i \in DOMAIN s : s[i].op = "rename" /\ s[i].part = p

LEMMA RankType == \A o \in Commands : Rank(o) \in 1 .. 7
  BY DEF Rank, Commands, OpNames

LEMMA PartsOfType == \A item : item \in Item => PartsOf(item) \subseteq Parts
  BY DEF Item, PartsOf, Separate

LEMMA ConcatAt ==
    ASSUME NEW T, NEW s \in Seq(T), NEW t \in Seq(T)
    PROVE  /\ s \o t \in Seq(T)
           /\ Len(s) \in Nat /\ Len(t) \in Nat /\ Len(s \o t) = Len(s) + Len(t)
           /\ DOMAIN s = 1 .. Len(s) /\ DOMAIN t = 1 .. Len(t)
           /\ DOMAIN (s \o t) = 1 .. Len(s) + Len(t)
           /\ \A i \in 1 .. Len(s) : i \in DOMAIN (s \o t) /\ (s \o t)[i] = s[i]
           /\ \A i \in 1 .. Len(t) : /\ Len(s) + i \in DOMAIN (s \o t)
                                   /\ (s \o t)[Len(s) + i] = t[i]
  OBVIOUS

LEMMA JoinAt ==
    ASSUME NEW T, NEW s \in Seq(T), NEW t \in Seq(T), NEW i \in DOMAIN (s \o t)
    PROVE  \/ i \in DOMAIN s /\ (s \o t)[i] = s[i]
           \/ /\ i > Len(s) /\ i - Len(s) \in DOMAIN t
              /\ (s \o t)[i] = t[i - Len(s)]
  OBVIOUS

LEMMA LastAt ==
    ASSUME NEW T, NEW s \in Seq(T), NEW t \in Seq(T), Len(t) = 1
    PROVE  /\ Len(s) \in Nat /\ Len(s \o t) = Len(s) + 1
           /\ DOMAIN s = 1 .. Len(s) /\ DOMAIN t = 1 .. 1
           /\ DOMAIN (s \o t) = 1 .. Len(s) + 1
           /\ (s \o t)[Len(s) + 1] = t[1]
<1> DEFINE a == Len(s)
           c == Len(s \o t)
<1>02. a \in Nat
  BY ConcatAt
<1>03. c = a + Len(t)
  BY ConcatAt
<1>04. s \o t \in Seq(T)
  BY ConcatAt
<1>05. DOMAIN (s \o t) = 1 .. c
  BY <1>04
<1> HIDE DEF a, c
<1>01. c = a + 1 /\ DOMAIN (s \o t) = 1 .. a + 1
  BY <1>03, <1>05
<1>1. Len(s) \in Nat /\ Len(s \o t) = Len(s) + 1 /\ 1 \in 1 .. Len(t)
  BY <1>02, <1>01 DEF a, c
<1>2. DOMAIN s = 1 .. Len(s) /\ DOMAIN t = 1 .. 1
  BY ConcatAt
<1>3. DOMAIN (s \o t) = 1 .. Len(s) + 1
  BY <1>01 DEF a
<1>4. (s \o t)[Len(s) + 1] = t[1]
  BY <1>1, ConcatAt
<1> QED
  BY <1>1, <1>2, <1>3, <1>4

(* Pieces of a script in the order of their ranks. *)
LEMMA WithinConcat ==
    ASSUME NEW item, NEW lo \in Int, NEW mid \in Int, NEW from \in Int, NEW hi \in Int,
           lo <= from, mid <= from, mid <= hi,
           NEW s, NEW t, Within(s, item, lo, mid), Within(t, item, from, hi)
    PROVE  Within(s \o t, item, lo, hi)
<1> DEFINE r == s \o t
<1>1. s \in Seq(Commands) /\ t \in Seq(Commands) /\ r \in Seq(Commands)
  BY DEF Within
<1>2. \A i \in DOMAIN r : \/ i \in DOMAIN s /\ r[i] = s[i]
                          \/ /\ i > Len(s) /\ i - Len(s) \in DOMAIN t
                             /\ r[i] = t[i - Len(s)]
  BY <1>1, JoinAt
<1>3. /\ Len(s) \in Nat /\ DOMAIN s = 1 .. Len(s) /\ DOMAIN t = 1 .. Len(t)
      /\ \A i \in DOMAIN r : i \in Nat
      /\ \A i \in DOMAIN r : r[i] \in Commands
  BY <1>1, ConcatAt
<1> HIDE DEF r
<1>4. \A i \in DOMAIN r : Rank(r[i]) \in Int
  BY <1>3, RankType
<1>5. ASSUME NEW i \in DOMAIN r
      PROVE  lo <= Rank(r[i]) /\ Rank(r[i]) <= hi /\ Allowed(item, r[i])
  <2>1. CASE i \in DOMAIN s /\ r[i] = s[i]
    BY <2>1, <1>4 DEF Within
  <2>2. CASE i - Len(s) \in DOMAIN t /\ r[i] = t[i - Len(s)]
    BY <2>2, <1>4 DEF Within
  <2> QED
    BY <2>1, <2>2, <1>2
<1>6. ASSUME NEW i \in DOMAIN r, NEW j \in DOMAIN r, i < j
      PROVE  Rank(r[i]) <= Rank(r[j])
  <2>1. CASE j \in DOMAIN s /\ r[j] = s[j]
    <3>1. i \in DOMAIN s /\ r[i] = s[i]
      BY <2>1, <1>2, <1>3, <1>6
    <3> QED
      BY <2>1, <3>1, <1>6 DEF Within, InOrder
  <2>2. CASE j > Len(s) /\ j - Len(s) \in DOMAIN t /\ r[j] = t[j - Len(s)]
    <3>1. CASE i \in DOMAIN s /\ r[i] = s[i]
      <4>1. Rank(r[i]) <= mid
        BY <3>1 DEF Within
      <4>2. from <= Rank(r[j])
        BY <2>2 DEF Within
      <4> QED
        BY <4>1, <4>2, <1>4
    <3>2. CASE i > Len(s) /\ i - Len(s) \in DOMAIN t /\ r[i] = t[i - Len(s)]
      <4>1. i - Len(s) < j - Len(s)
        BY <1>3, <1>6
      <4> QED
        BY <2>2, <3>2, <4>1 DEF Within, InOrder
    <3> QED
      BY <3>1, <3>2, <1>2
  <2> QED
    BY <2>1, <2>2, <1>2
<1>7. InOrder(r)
  BY <1>6 DEF InOrder
<1> QED
  BY <1>1, <1>5, <1>7 DEF Within, r

LEMMA RenamesConcat ==
    ASSUME NEW s \in Seq(Commands), NEW t \in Seq(Commands), NEW p,
           Renames(s, p) \/ Renames(t, p)
    PROVE  Renames(s \o t, p)
<1>1. ASSUME NEW i \in DOMAIN s, s[i].op = "rename" /\ s[i].part = p
      PROVE  Renames(s \o t, p)
  <2>1. i \in DOMAIN (s \o t) /\ (s \o t)[i] = s[i]
    BY ConcatAt
  <2> QED
    BY <1>1, <2>1 DEF Renames
<1>2. ASSUME NEW i \in DOMAIN t, t[i].op = "rename" /\ t[i].part = p
      PROVE  Renames(s \o t, p)
  <2>1. Len(s) + i \in DOMAIN (s \o t) /\ (s \o t)[Len(s) + i] = t[i]
    BY ConcatAt
  <2> QED
    BY <1>2, <2>1 DEF Renames
<1> QED
  BY <1>1, <1>2 DEF Renames

LEMMA OneCommand ==
    ASSUME NEW item, NEW o \in Commands, Allowed(item, o), NEW r \in Int, Rank(o) = r
    PROVE  Within(<<o>>, item, r, r)
  BY DEF Within, InOrder

LEMMA WhenWithin ==
    ASSUME NEW item, NEW cond, NEW o, NEW r \in Int,
           cond => o \in Commands /\ Allowed(item, o) /\ Rank(o) = r
    PROVE  /\ Within(When(cond, o), item, r, r)
           /\ cond => When(cond, o) = <<o>>
<1>1. CASE cond
  <2>1. When(cond, o) = <<o>>
    BY <1>1 DEF When
  <2> QED
    BY <1>1, <2>1, OneCommand
<1>2. CASE ~cond
  <2>1. When(cond, o) = <<>>
    BY <1>2 DEF When
  <2> QED
    BY <1>2, <2>1 DEF Within, InOrder
<1> QED
  BY <1>1, <1>2

LEMMA RenamesOne == \A o : o.op = "rename" => Renames(<<o>>, o.part)
<1> TAKE o
<1> HAVE o.op = "rename"
<1>1. 1 \in DOMAIN <<o>> /\ <<o>>[1] = o
  OBVIOUS
<1> QED
  BY <1>1 DEF Renames

(* The commands a script may have, by their rank. *)
LEMMA CommandIs ==
    ASSUME NEW op \in OpNames, NEW p \in Parts, NEW use \in Uses
    PROVE  /\ Op(op, p, use) \in Commands
           /\ Op(op, p, use).op = op /\ Op(op, p, use).part = p
  BY DEF Op, Commands

LEMMA EraseWithin ==
    ASSUME NEW item, Sound(item)
    PROVE  /\ Within(EraseAndRegister(item), item, 1, 4)
           /\ \E j \in DOMAIN EraseAndRegister(item) : EraseAndRegister(item)[j].op = "new"
<1> DEFINE whole == ~item.external /\ ~WholeDevice(item)
           w1 == When(whole, Op("zap", item.osd, "osd"))
           w2 == When(whole, Op("divide", item.osd, "osd"))
           w3 == <<Op("clear", item.osd, "osd")>>
           w4 == When(~WholeDevice(item), Op("clear", item.aux, AuxUse(item)))
           w5 == When(Separate(item, item.wal), Op("clear", item.wal, "block.wal"))
           w6 == When(Separate(item, item.db), Op("clear", item.db, "block.db"))
           w7 == <<Op("new", item.osd, "osd")>>
<1>0. /\ item.osd \in Parts /\ item.aux \in Parts /\ item.external \in BOOLEAN
      /\ item.wal \in Parts \cup {NoPart} /\ item.db \in Parts \cup {NoPart}
      /\ AuxUse(item) \in Uses /\ "osd" \in Uses /\ "block.wal" \in Uses /\ "block.db" \in Uses
  BY DEF Sound, Item, AuxUse, Uses
<1>00. {"zap", "divide", "clear", "new"} \subseteq OpNames
  BY DEF OpNames
<1>1. Within(w1, item, 1, 1)
  <2>1. whole => /\ Op("zap", item.osd, "osd") \in Commands
                 /\ Allowed(item, Op("zap", item.osd, "osd"))
                 /\ Rank(Op("zap", item.osd, "osd")) = 1
    BY <1>0, <1>00, CommandIs DEF Allowed, Rank
  <2> HIDE DEF whole
  <2> QED
    BY <2>1, WhenWithin
<1>2. Within(w2, item, 2, 2)
  <2>1. whole => /\ Op("divide", item.osd, "osd") \in Commands
                 /\ Allowed(item, Op("divide", item.osd, "osd"))
                 /\ Rank(Op("divide", item.osd, "osd")) = 2
    BY <1>0, <1>00, CommandIs DEF Allowed, Rank
  <2> HIDE DEF whole
  <2> QED
    BY <2>1, WhenWithin
<1>3. Within(w3, item, 3, 3)
  <2>1. /\ Op("clear", item.osd, "osd") \in Commands
        /\ Allowed(item, Op("clear", item.osd, "osd"))
        /\ Rank(Op("clear", item.osd, "osd")) = 3
    BY <1>0, <1>00, CommandIs DEF Allowed, Rank, PartsOf
  <2> QED
    BY <2>1, OneCommand
<1>4. Within(w4, item, 3, 3)
  <2>1. /\ Op("clear", item.aux, AuxUse(item)) \in Commands
        /\ Allowed(item, Op("clear", item.aux, AuxUse(item)))
        /\ Rank(Op("clear", item.aux, AuxUse(item))) = 3
    BY <1>0, <1>00, CommandIs DEF Allowed, Rank, PartsOf
  <2> QED
    BY <2>1, WhenWithin
<1>5. Within(w5, item, 3, 3)
  <2>1. Separate(item, item.wal) => /\ Op("clear", item.wal, "block.wal") \in Commands
                 /\ Allowed(item, Op("clear", item.wal, "block.wal"))
                 /\ Rank(Op("clear", item.wal, "block.wal")) = 3
    <3>1. Separate(item, item.wal) => item.wal \in Parts /\ item.wal \in PartsOf(item)
      BY <1>0 DEF Separate, PartsOf
    <3> QED
      BY <1>0, <1>00, <3>1, CommandIs DEF Allowed, Rank
  <2> QED
    BY <2>1, WhenWithin
<1>6. Within(w6, item, 3, 3)
  <2>1. Separate(item, item.db) => /\ Op("clear", item.db, "block.db") \in Commands
                 /\ Allowed(item, Op("clear", item.db, "block.db"))
                 /\ Rank(Op("clear", item.db, "block.db")) = 3
    <3>1. Separate(item, item.db) => item.db \in Parts /\ item.db \in PartsOf(item)
      BY <1>0 DEF Separate, PartsOf
    <3> QED
      BY <1>0, <1>00, <3>1, CommandIs DEF Allowed, Rank
  <2> QED
    BY <2>1, WhenWithin
<1>7. Within(w7, item, 4, 4)
  <2>1. /\ Op("new", item.osd, "osd") \in Commands
        /\ Allowed(item, Op("new", item.osd, "osd"))
        /\ Rank(Op("new", item.osd, "osd")) = 4
    BY <1>0, <1>00, CommandIs DEF Allowed, Rank
  <2> QED
    BY <2>1, OneCommand
<1>8. EraseAndRegister(item) = (((((w1 \o w2) \o w3) \o w4) \o w5) \o w6) \o w7
  BY DEF EraseAndRegister
<1> HIDE DEF w1, w2, w3, w4, w5, w6, w7
<1>9. Within(w1 \o w2, item, 1, 2)
  BY <1>1, <1>2, WithinConcat
<1>10. Within((w1 \o w2) \o w3, item, 1, 3)
  BY <1>9, <1>3, WithinConcat
<1>11. Within(((w1 \o w2) \o w3) \o w4, item, 1, 3)
  BY <1>10, <1>4, WithinConcat
<1>12. Within((((w1 \o w2) \o w3) \o w4) \o w5, item, 1, 3)
  BY <1>11, <1>5, WithinConcat
<1>13. Within(((((w1 \o w2) \o w3) \o w4) \o w5) \o w6, item, 1, 3)
  BY <1>12, <1>6, WithinConcat
<1>14. Within((((((w1 \o w2) \o w3) \o w4) \o w5) \o w6) \o w7, item, 1, 4)
  BY <1>13, <1>7, WithinConcat
<1> DEFINE x == ((((w1 \o w2) \o w3) \o w4) \o w5) \o w6
<1>15. x \in Seq(Commands) /\ w7 \in Seq(Commands)
  BY <1>13, <1>7 DEF Within
<1>16. 1 \in 1 .. Len(w7) /\ w7[1].op = "new"
  BY <1>0, <1>00, CommandIs DEF w7
<1> HIDE DEF x
<1>17. Len(x) + 1 \in DOMAIN (x \o w7) /\ (x \o w7)[Len(x) + 1] = w7[1]
  BY <1>15, <1>16, ConcatAt
<1> QED
  BY <1>8, <1>14, <1>16, <1>17 DEF x

LEMMA RenameWithin ==
    ASSUME NEW item, Sound(item)
    PROVE  /\ Within(Rename(item), item, 5, 5)
           /\ \A p \in PartsOf(item) : p # item.osd => Renames(Rename(item), p)
<1> DEFINE a == When(~WholeDevice(item), Op("rename", item.aux, AuxUse(item)))
           b == When(Separate(item, item.wal), Op("rename", item.wal, "block.wal"))
           c == When(Separate(item, item.db), Op("rename", item.db, "block.db"))
<1>0. /\ item.aux \in Parts
      /\ item.wal \in Parts \cup {NoPart} /\ item.db \in Parts \cup {NoPart}
      /\ AuxUse(item) \in Uses /\ "block.wal" \in Uses /\ "block.db" \in Uses
      /\ "rename" \in OpNames
  BY DEF Sound, Item, AuxUse, Uses, OpNames
<1>1. /\ Within(a, item, 5, 5)
      /\ ~WholeDevice(item) => Renames(a, item.aux)
  <2>1. /\ Op("rename", item.aux, AuxUse(item)) \in Commands
        /\ Allowed(item, Op("rename", item.aux, AuxUse(item)))
        /\ Rank(Op("rename", item.aux, AuxUse(item))) = 5
        /\ Renames(<<Op("rename", item.aux, AuxUse(item))>>, item.aux)
    BY <1>0, CommandIs, RenamesOne DEF Allowed, Rank, PartsOf
  <2>2. Within(a, item, 5, 5)
    BY <2>1, WhenWithin
  <2>3. ~WholeDevice(item) => a = <<Op("rename", item.aux, AuxUse(item))>>
    BY DEF When
  <2> QED
    BY <2>1, <2>2, <2>3
<1>2. /\ Within(b, item, 5, 5)
      /\ Separate(item, item.wal) => Renames(b, item.wal)
  <2>1. Separate(item, item.wal) => item.wal \in Parts /\ item.wal \in PartsOf(item)
    BY <1>0 DEF Separate, PartsOf
  <2>2. Separate(item, item.wal) =>
            /\ Op("rename", item.wal, "block.wal") \in Commands
            /\ Allowed(item, Op("rename", item.wal, "block.wal"))
            /\ Rank(Op("rename", item.wal, "block.wal")) = 5
            /\ Renames(<<Op("rename", item.wal, "block.wal")>>, item.wal)
    BY <1>0, <2>1, CommandIs, RenamesOne DEF Allowed, Rank
  <2> QED
    BY <2>2, WhenWithin
<1>3. /\ Within(c, item, 5, 5)
      /\ Separate(item, item.db) => Renames(c, item.db)
  <2>1. Separate(item, item.db) => item.db \in Parts /\ item.db \in PartsOf(item)
    BY <1>0 DEF Separate, PartsOf
  <2>2. Separate(item, item.db) =>
            /\ Op("rename", item.db, "block.db") \in Commands
            /\ Allowed(item, Op("rename", item.db, "block.db"))
            /\ Rank(Op("rename", item.db, "block.db")) = 5
            /\ Renames(<<Op("rename", item.db, "block.db")>>, item.db)
    BY <1>0, <2>1, CommandIs, RenamesOne DEF Allowed, Rank
  <2> QED
    BY <2>2, WhenWithin
<1>4. Rename(item) = (a \o b) \o c
  BY DEF Rename
<1> HIDE DEF a, b, c
<1>5. a \in Seq(Commands) /\ b \in Seq(Commands) /\ c \in Seq(Commands)
  BY <1>1, <1>2, <1>3 DEF Within
<1>6. Within(a \o b, item, 5, 5)
  BY <1>1, <1>2, WithinConcat
<1>7. Within((a \o b) \o c, item, 5, 5)
  BY <1>6, <1>3, WithinConcat
<1>8. ASSUME NEW p, Renames(a, p) \/ Renames(b, p) \/ Renames(c, p)
      PROVE  Renames((a \o b) \o c, p)
  <2>1. a \o b \in Seq(Commands)
    BY <1>6 DEF Within
  <2>2. Renames(a, p) \/ Renames(b, p) => Renames(a \o b, p)
    BY <1>5, RenamesConcat
  <2> QED
    BY <1>5, <1>8, <2>1, <2>2, RenamesConcat
<1>9. ASSUME NEW p \in PartsOf(item), p # item.osd
      PROVE  \/ ~WholeDevice(item) /\ p = item.aux
             \/ Separate(item, item.wal) /\ p = item.wal
             \/ Separate(item, item.db) /\ p = item.db
  BY <1>9 DEF PartsOf, WholeDevice
<1> QED
  BY <1>1, <1>2, <1>3, <1>4, <1>7, <1>8, <1>9

LEMMA ScriptShape ==
    ASSUME NEW item, Sound(item)
    PROVE  /\ Within(Script(item), item, 1, 7)
           /\ 1 \in DOMAIN Script(item)
           /\ \A p \in PartsOf(item) : Renames(Script(item), p)
           /\ \A j \in DOMAIN Script(item) :
                 Script(item)[j].op # "crush" => j + 1 \in DOMAIN Script(item)
           /\ \A j \in DOMAIN Script(item) :
                 Script(item)[j].op = "mkfs" => Script(item)[j + 1].op = "crush"
           /\ \E j \in DOMAIN Script(item) : Script(item)[j].op = "new"
<1> DEFINE S == Script(item)
           e == EraseAndRegister(item)
           ro == RenameOsd(item)
           f == Format(item)
           rn == Rename(item)
           mid == IF item.mode = "LVM" THEN (ro \o f) \o rn ELSE (f \o rn) \o ro
           mk == Mkfs(item)
           cr == AddToCrush(item)
           y == (e \o mid) \o mk
<1>0. item.osd \in Parts /\ "osd" \in Uses /\ {"rename", "format", "mkfs", "crush"} \subseteq OpNames
  BY DEF Sound, Item, Uses, OpNames
<1>1. Within(e, item, 1, 4) /\ Within(rn, item, 5, 5)
  BY EraseWithin, RenameWithin
<1>2. Within(ro, item, 5, 5) /\ Renames(ro, item.osd)
  <2>1. /\ Op("rename", item.osd, "osd") \in Commands
        /\ Allowed(item, Op("rename", item.osd, "osd"))
        /\ Rank(Op("rename", item.osd, "osd")) = 5
        /\ Renames(<<Op("rename", item.osd, "osd")>>, item.osd)
    BY <1>0, CommandIs, RenamesOne DEF Allowed, Rank, PartsOf
  <2> QED
    BY <2>1, OneCommand DEF RenameOsd
<1>3. Within(f, item, 5, 5)
  <2>1. /\ Op("format", item.osd, "osd") \in Commands
        /\ Allowed(item, Op("format", item.osd, "osd"))
        /\ Rank(Op("format", item.osd, "osd")) = 5
    BY <1>0, CommandIs DEF Allowed, Rank
  <2> QED
    BY <2>1, OneCommand DEF Format
<1>4. Within(mk, item, 6, 6) /\ mk = <<Op("mkfs", item.osd, "osd")>>
  <2>1. /\ Op("mkfs", item.osd, "osd") \in Commands
        /\ Allowed(item, Op("mkfs", item.osd, "osd"))
        /\ Rank(Op("mkfs", item.osd, "osd")) = 6
    BY <1>0, CommandIs DEF Allowed, Rank
  <2> QED
    BY <2>1, OneCommand DEF Mkfs
<1>5. /\ Within(cr, item, 7, 7) /\ Len(cr) = 1 /\ cr[1].op = "crush"
  <2>1. /\ Op("crush", item.osd, "osd") \in Commands
        /\ Allowed(item, Op("crush", item.osd, "osd"))
        /\ Rank(Op("crush", item.osd, "osd")) = 7
        /\ Op("crush", item.osd, "osd").op = "crush"
    BY <1>0, CommandIs DEF Allowed, Rank
  <2>2. cr = <<Op("crush", item.osd, "osd")>>
    BY DEF AddToCrush
  <2>3. Within(<<Op("crush", item.osd, "osd")>>, item, 7, 7)
    BY <2>1, OneCommand
  <2> QED
    BY <2>1, <2>2, <2>3
<1>6. S = y \o cr
  BY DEF Script
<1>7. \E j \in DOMAIN e : e[j].op = "new"
  BY EraseWithin
<1>8. \A p \in PartsOf(item) : p # item.osd => Renames(rn, p)
  BY RenameWithin
<1> HIDE DEF e, ro, f, rn, mk, cr
<1>9. Within(mid, item, 5, 5)
  <2>1. Within((ro \o f) \o rn, item, 5, 5)
    <3>1. Within(ro \o f, item, 5, 5)
      BY <1>2, <1>3, WithinConcat
    <3> QED
      BY <3>1, <1>1, WithinConcat
  <2>2. Within((f \o rn) \o ro, item, 5, 5)
    <3>1. Within(f \o rn, item, 5, 5)
      BY <1>1, <1>3, WithinConcat
    <3> QED
      BY <3>1, <1>2, WithinConcat
  <2> QED
    BY <2>1, <2>2, Zenon
<1>10. ASSUME NEW p, Renames(ro, p) \/ Renames(rn, p)
       PROVE  Renames(mid, p)
  <2>1. ro \in Seq(Commands) /\ f \in Seq(Commands) /\ rn \in Seq(Commands)
    BY <1>1, <1>2, <1>3 DEF Within
  <2>2. ro \o f \in Seq(Commands) /\ f \o rn \in Seq(Commands)
    BY <2>1, ConcatAt
  <2>3. Renames((ro \o f) \o rn, p)
    BY <1>10, <2>1, <2>2, RenamesConcat
  <2>4. Renames((f \o rn) \o ro, p)
    BY <1>10, <2>1, <2>2, RenamesConcat
  <2> QED
    BY <2>3, <2>4, Zenon
<1>11. \A p \in PartsOf(item) : Renames(mid, p)
  BY <1>2, <1>8, <1>10
<1> HIDE DEF mid
<1>12. Within(e \o mid, item, 1, 5)
  BY <1>1, <1>9, WithinConcat
<1>13. Within(y, item, 1, 6)
  BY <1>12, <1>4, WithinConcat
<1>14. /\ e \in Seq(Commands) /\ mid \in Seq(Commands) /\ e \o mid \in Seq(Commands)
       /\ mk \in Seq(Commands) /\ y \in Seq(Commands) /\ cr \in Seq(Commands)
  BY <1>1, <1>9, <1>12, <1>13, <1>4, <1>5 DEF Within
<1>15. Len(mk) = 1 /\ \A i \in DOMAIN (e \o mid) : (e \o mid)[i].op # "mkfs"
  <2>1. \A i \in DOMAIN (e \o mid) : Rank((e \o mid)[i]) <= 5
    BY <1>12 DEF Within
  <2> QED
    BY <1>4, <2>1 DEF Rank
<1>16. ASSUME NEW p \in PartsOf(item) PROVE Renames(y \o cr, p)
  BY <1>11, <1>14, RenamesConcat
<1>17. \E j \in DOMAIN (y \o cr) : (y \o cr)[j].op = "new"
  <2>1. PICK j \in DOMAIN e : e[j].op = "new"
    BY <1>7
  <2>2. j \in DOMAIN (e \o mid) /\ (e \o mid)[j] = e[j]
    BY <1>14, ConcatAt
  <2>3. j \in DOMAIN y /\ y[j] = e[j]
    BY <1>14, <2>2, ConcatAt
  <2>4. j \in DOMAIN (y \o cr) /\ (y \o cr)[j] = e[j]
    BY <1>14, <2>3, ConcatAt
  <2> QED
    BY <2>1, <2>4
<1>18. \A i \in DOMAIN y : y[i].op = "mkfs" => i = Len(y)
  <2> TAKE i \in DOMAIN y
  <2>1. Len(y) = Len(e \o mid) + 1 /\ DOMAIN mk = 1 .. 1 /\ Len(e \o mid) \in Nat
    BY <1>14, <1>15, LastAt
  <2>2. CASE i \in DOMAIN (e \o mid) /\ y[i] = (e \o mid)[i]
    BY <2>2, <1>15
  <2>3. CASE i > Len(e \o mid) /\ i - Len(e \o mid) \in DOMAIN mk
    <3>1. i \in Nat
      BY <1>14
    <3> QED
      BY <2>1, <2>3, <3>1
  <2> QED
    BY <2>2, <2>3, <1>14, JoinAt
<1>19. \A i \in DOMAIN y : y[i].op # "crush"
  <2>1. \A i \in DOMAIN y : Rank(y[i]) <= 6
    BY <1>13 DEF Within
  <2> QED
    BY <2>1 DEF Rank
<1> HIDE DEF y
<1>20. Within(y \o cr, item, 1, 7)
  BY <1>13, <1>5, WithinConcat
<1>21. /\ Len(y) \in Nat /\ Len(y \o cr) = Len(y) + 1 /\ DOMAIN (y \o cr) = 1 .. Len(y) + 1
       /\ DOMAIN y = 1 .. Len(y) /\ DOMAIN cr = 1 .. 1
       /\ (y \o cr)[Len(y) + 1] = cr[1]
  BY <1>14, <1>5, LastAt
<1>22. ASSUME NEW j \in DOMAIN (y \o cr)
       PROVE  \/ j \in 1 .. Len(y) /\ (y \o cr)[j] = y[j]
              \/ j = Len(y) + 1 /\ (y \o cr)[j].op = "crush"
  BY <1>14, <1>21, <1>5, ConcatAt
<1>23. ASSUME NEW j \in DOMAIN (y \o cr), (y \o cr)[j].op # "crush"
       PROVE  j + 1 \in DOMAIN (y \o cr)
  BY <1>21, <1>22, <1>23
<1>24. ASSUME NEW j \in DOMAIN (y \o cr), (y \o cr)[j].op = "mkfs"
       PROVE  (y \o cr)[j + 1].op = "crush"
  <2>1. j \in 1 .. Len(y) /\ (y \o cr)[j] = y[j]
    BY <1>22, <1>24
  <2>2. j = Len(y)
    BY <2>1, <1>18, <1>21, <1>24
  <2> QED
    BY <2>2, <1>21, <1>5
<1>25. 1 \in DOMAIN (y \o cr)
  BY <1>21
<1> QED
  BY <1>6, <1>16, <1>17, <1>20, <1>23, <1>24, <1>25

-----------------------------------------------------------------------------
(* The lookup                                                                *)

Labelled == label \in [Parts -> Label] /\ uuid \in [Parts -> Nat]

(* The partitions that become used up by an item. *)
Taken(item) == UsedUp(item) \ {NoPart}

LEMMA ListingIs ==
    /\ Len(Listing) \in Nat /\ DOMAIN Listing = 1 .. Len(Listing)
    /\ \A k \in DOMAIN Listing : Listing[k] \in Parts
    /\ NoPart \notin Parts
  BY BootstrapAssumption DEF BootstrapAssumption

LEMMA LastWithIs ==
    ASSUME NEW lb, NEW used
    PROVE  /\ LastWith(lb, used) = NoPart \/
                /\ LastWith(lb, used) \in Parts
                /\ label[LastWith(lb, used)] = lb
                /\ LastWith(lb, used) \notin used
           /\ (\E q \in Parts : label[q] = lb /\ q \notin used) => LastWith(lb, used) # NoPart
<1> DEFINE ks == {k \in DOMAIN Listing : label[Listing[k]] = lb /\ Listing[k] \notin used}
           c == CHOOSE k \in ks : \A l \in ks : l <= k
<1>1. LastWith(lb, used) = IF ks = {} THEN NoPart ELSE Listing[c]
  BY DEF LastWith
<1>2. ASSUME ks # {}
      PROVE  /\ Listing[c] \in Parts /\ label[Listing[c]] = lb /\ Listing[c] \notin used
  <2>1. ks \subseteq 1 .. Len(Listing)
    BY ListingIs
  <2>2. \E k \in ks : \A l \in ks : l <= k
    BY <1>2, <2>1, ListingIs, LastIndex
  <2>3. c \in ks
    BY <2>2
  <2> QED
    BY <2>3, ListingIs
<1>3. ASSUME NEW q \in Parts, label[q] = lb, q \notin used
      PROVE  ks # {}
  <2>1. PICK k \in DOMAIN Listing : Listing[k] = q
    BY BootstrapAssumption DEF BootstrapAssumption
  <2> QED
    BY <2>1, <1>3
<1> HIDE DEF ks, c
<1> QED
  BY <1>1, <1>2, <1>3, ListingIs

LEMMA PartAtIs ==
    ASSUME NEW p \in Parts, Num[p] = 1
    PROVE  PartAt(DiskOf[p], 2) \in Parts /\ DiskOf[PartAt(DiskOf[p], 2)] = DiskOf[p]
<1>1. \E q \in Parts : DiskOf[q] = DiskOf[p] /\ Num[q] = 2
  BY BootstrapAssumption DEF BootstrapAssumption
<1> QED
  BY <1>1 DEF PartAt

(* What final_bluestore and final_filestore make of an OSD partition. *)
LEMMA FinalIs ==
    ASSUME Labelled, NEW osd \in Parts, NEW lb \in Label, lb.use = "osd", label[osd] = lb,
           NEW used, osd \notin used, Final(osd, lb, used).aux # NoPart
    PROVE  LET item == Final(osd, lb, used)
           IN /\ Sound(item)
              /\ item.osd = osd
              /\ \A p \in Taken(item) :
                    /\ p \in Parts /\ p \notin used
                    /\ label[p].stage = lb.stage
                    /\ p # osd => label[p].use # "osd"
<1> DEFINE item == Final(osd, lb, used)
           Companion(use) == LastWith([lb EXCEPT !.use = use], used)
           own == Companion(IF lb.store = "bluestore" THEN "block" ELSE "journal")
           whole == lb.store = "bluestore" /\ lb.mode = "LVM"
           Fits(p) == p = NoPart \/
                        /\ p \in Parts /\ p \notin used
                        /\ label[p].stage = lb.stage /\ label[p].use # "osd"
<1>1. ASSUME NEW use \in Uses \ {"osd"} PROVE Fits(Companion(use))
  <2> DEFINE l == [lb EXCEPT !.use = use]
  <2>1. l.stage = lb.stage /\ l.use = use
    BY DEF Label
  <2>2. LastWith(l, used) = NoPart \/
            /\ LastWith(l, used) \in Parts /\ label[LastWith(l, used)] = l
            /\ LastWith(l, used) \notin used
    BY LastWithIs
  <2> HIDE DEF l
  <2>3. Fits(LastWith(l, used))
    BY <1>1, <2>1, <2>2
  <2> QED
    BY <2>3 DEF l
<1>2. Fits(own) /\ Fits(Companion("block.wal")) /\ Fits(Companion("block.db"))
  BY <1>1 DEF Uses
<1>3. /\ item.osd = osd /\ item.store = lb.store /\ item.mode = lb.mode
      /\ item.uuid = uuid[osd]
      /\ item.external = (~whole /\ own # NoPart)
      /\ item.aux = IF whole THEN osd
                    ELSE IF own # NoPart THEN own
                    ELSE IF Num[osd] = 1 THEN PartAt(DiskOf[osd], 2)
                    ELSE NoPart
      /\ item.wal = IF lb.store = "bluestore" THEN Companion("block.wal") ELSE NoPart
      /\ item.db = IF lb.store = "bluestore" THEN Companion("block.db") ELSE NoPart
  BY DEF Final
<1>4. item = [osd |-> item.osd, store |-> item.store, mode |-> item.mode, uuid |-> item.uuid,
              external |-> item.external, aux |-> item.aux, wal |-> item.wal, db |-> item.db]
  BY DEF Final
<1>5. item.aux # NoPart
  OBVIOUS
<1> HIDE DEF item, Companion, own
<1>6. Fits(item.wal) /\ Fits(item.db)
  BY <1>2, <1>3
<1>7. item.external => item.aux = own
  BY <1>3
<1>8. /\ item.aux \in Parts
      /\ item.external \/ DiskOf[item.aux] = DiskOf[item.osd]
  BY <1>2, <1>3, <1>5, PartAtIs
<1>9. item.store \in {"bluestore", "filestore"} /\ item.mode \in {"DISK", "LVM"} /\ item.uuid \in Nat
      /\ item.external \in BOOLEAN
  BY <1>3 DEF Label, Labelled
<1>10. item \in Item
  BY <1>3, <1>4, <1>6, <1>8, <1>9 DEF Item
<1>11. ASSUME NEW p \in Taken(item), p # osd
       PROVE  p \in Parts /\ p \notin used /\ label[p].stage = lb.stage /\ label[p].use # "osd"
  <2>1. p # NoPart /\ (p = item.wal \/ p = item.db \/ (item.external /\ p = item.aux))
    BY <1>11, <1>3 DEF Taken, UsedUp
  <2>2. Fits(p)
    BY <2>1, <1>2, <1>6, <1>7
  <2> QED
    BY <2>1, <2>2
<1> QED
  BY <1>3, <1>8, <1>10, <1>11 DEF Sound, item

(* What can be said of the items found so far: each takes partitions of the    *)
(* stage looked for, and no partition is taken twice.                         *)
Found(s, stage) ==
    /\ s \in Seq(Item)
    /\ \A j \in DOMAIN s :
          /\ Sound(s[j])
          /\ \A p \in Taken(s[j]) : /\ p \in Parts
                                    /\ label[p].stage = stage
                                    /\ p # s[j].osd => label[p].use # "osd"
    /\ \A i, j \in DOMAIN s : i # j => Taken(s[i]) \cap Taken(s[j]) = {}

(* There is always a partition left for the next OSD partition of a label:      *)
(* those listed so far are at least as many as those taken.                   *)
WithLabel(lb) == {p \in Parts : label[p] = lb}
Seen(k, lb) == {p \in WithLabel(lb) : \E l \in 1 .. k : Listing[l] = p}
Enough(s, k) ==
    /\ Len(s) <= k
    /\ \A lb \in Label : lb.use = "osd" =>
          Cardinality(AllUsedUp(s) \cap WithLabel(lb)) <= Cardinality(Seen(k, lb))

LEMMA FiniteParts ==
    ASSUME NEW S, S \subseteq Parts
    PROVE  IsFiniteSet(S) /\ Cardinality(S) \in Nat
  BY FS_Subset, FS_CardinalityType, BootstrapAssumption DEF BootstrapAssumption

LEMMA SeenNext ==
    ASSUME NEW k \in DOMAIN Listing, NEW lb
    PROVE  /\ Seen(k - 1, lb) \subseteq Seen(k, lb)
           /\ label[Listing[k]] = lb =>
                /\ Listing[k] \notin Seen(k - 1, lb)
                /\ Seen(k, lb) = Seen(k - 1, lb) \cup {Listing[k]}
<1>1. k \in Nat /\ k > 0 /\ 1 .. k = (1 .. k - 1) \cup {k} /\ Listing[k] \in Parts
  BY ListingIs
<1>2. \A l \in 1 .. k - 1 : Listing[l] # Listing[k]
  <2> SUFFICES ASSUME NEW l \in 1 .. k - 1 PROVE Listing[l] # Listing[k]
    OBVIOUS
  <2>1. l \in DOMAIN Listing /\ l # k
    BY ListingIs
  <2> QED
    BY <2>1, BootstrapAssumption DEF BootstrapAssumption
<1> QED
  BY <1>1, <1>2 DEF Seen, WithLabel

LEMMA CountSeen ==
    ASSUME NEW k \in DOMAIN Listing, NEW lb
    PROVE  /\ Cardinality(Seen(k - 1, lb)) \in Nat /\ Cardinality(Seen(k, lb)) \in Nat
           /\ Cardinality(Seen(k - 1, lb)) <= Cardinality(Seen(k, lb))
           /\ label[Listing[k]] = lb => Cardinality(Seen(k, lb)) = Cardinality(Seen(k - 1, lb)) + 1
<1>1. Seen(k, lb) \subseteq Parts /\ Seen(k - 1, lb) \subseteq Parts
  BY DEF Seen, WithLabel
<1>2. /\ IsFiniteSet(Seen(k, lb)) /\ IsFiniteSet(Seen(k - 1, lb))
      /\ Cardinality(Seen(k - 1, lb)) \in Nat /\ Cardinality(Seen(k, lb)) \in Nat
  BY <1>1, FiniteParts
<1>3. Cardinality(Seen(k - 1, lb)) <= Cardinality(Seen(k, lb))
  BY <1>2, SeenNext, FS_Subset
<1>4. ASSUME label[Listing[k]] = lb
      PROVE  Cardinality(Seen(k, lb)) = Cardinality(Seen(k - 1, lb)) + 1
  <2>1. /\ Listing[k] \notin Seen(k - 1, lb)
        /\ Seen(k, lb) = Seen(k - 1, lb) \cup {Listing[k]}
    BY <1>4, SeenNext
  <2>2. Cardinality(Seen(k - 1, lb) \cup {Listing[k]}) = Cardinality(Seen(k - 1, lb)) + 1
    BY <1>2, <2>1, FS_AddElement
  <2> QED
    BY <2>1, <2>2
<1> QED
  BY <1>2, <1>3, <1>4

LEMMA AppendAt ==
    ASSUME NEW T, NEW s \in Seq(T), NEW e \in T
    PROVE  /\ Append(s, e) \in Seq(T) /\ Len(s) \in Nat /\ Len(Append(s, e)) = Len(s) + 1
           /\ DOMAIN s = 1 .. Len(s)
           /\ \A j \in DOMAIN Append(s, e) :
                 \/ j \in DOMAIN s /\ Append(s, e)[j] = s[j]
                 \/ j = Len(s) + 1 /\ Append(s, e)[j] = e
           /\ \A j \in DOMAIN s : j \in DOMAIN Append(s, e) /\ Append(s, e)[j] = s[j]
           /\ Len(s) + 1 \in DOMAIN Append(s, e) /\ Append(s, e)[Len(s) + 1] = e
  OBVIOUS

LEMMA UsedUpAppend ==
    ASSUME NEW s \in Seq(Item), NEW item \in Item
    PROVE  AllUsedUp(Append(s, item)) = AllUsedUp(s) \cup UsedUp(item)
<1> DEFINE t == Append(s, item)
<1>1. /\ \A j \in DOMAIN t : \/ j \in DOMAIN s /\ t[j] = s[j]
                             \/ j = Len(s) + 1 /\ t[j] = item
      /\ \A j \in DOMAIN s : j \in DOMAIN t /\ t[j] = s[j]
      /\ Len(s) + 1 \in DOMAIN t /\ t[Len(s) + 1] = item
  BY AppendAt
<1> HIDE DEF t
<1>2. \A p : p \in AllUsedUp(t) <=> p \in AllUsedUp(s) \/ p \in UsedUp(item)
  BY <1>1 DEF AllUsedUp
<1> QED
  BY <1>2 DEF t

(* An OSD partition that comes up in the listing finds a partition that has its *)
(* label and is not used up.                                                *)
LEMMA OneLeft ==
    ASSUME NEW k \in DOMAIN Listing, NEW s, Enough(s, k - 1), label[Listing[k]] \in Label,
           label[Listing[k]].use = "osd"
    PROVE  \E q \in Parts : label[q] = label[Listing[k]] /\ q \notin AllUsedUp(s)
<1> DEFINE lb == label[Listing[k]]
<1> SUFFICES ASSUME WithLabel(lb) \subseteq AllUsedUp(s) PROVE FALSE
  BY DEF WithLabel
<1>1. AllUsedUp(s) \cap WithLabel(lb) = WithLabel(lb)
  OBVIOUS
<1>2. Cardinality(WithLabel(lb)) <= Cardinality(Seen(k - 1, lb))
  BY <1>1 DEF Enough
<1>3. Seen(k, lb) \subseteq WithLabel(lb) /\ WithLabel(lb) \subseteq Parts
  BY DEF Seen, WithLabel
<1>4. Cardinality(Seen(k, lb)) <= Cardinality(WithLabel(lb)) /\ Cardinality(WithLabel(lb)) \in Nat
  BY <1>3, FiniteParts, FS_Subset
<1>5. /\ Cardinality(Seen(k, lb)) = Cardinality(Seen(k - 1, lb)) + 1
      /\ Cardinality(Seen(k - 1, lb)) \in Nat
  BY CountSeen
<1> QED
  BY <1>2, <1>4, <1>5

LEMMA AppendFound ==
    ASSUME NEW s, NEW stage, Found(s, stage), NEW item, Sound(item),
           \A p \in Taken(item) : /\ p \in Parts /\ p \notin AllUsedUp(s)
                                  /\ label[p].stage = stage
                                  /\ p # item.osd => label[p].use # "osd"
    PROVE  Found(Append(s, item), stage)
<1> DEFINE t == Append(s, item)
<1>1. s \in Seq(Item) /\ item \in Item
  BY DEF Found, Sound
<1>2. /\ t \in Seq(Item)
      /\ \A j \in DOMAIN t : \/ j \in DOMAIN s /\ t[j] = s[j]
                             \/ j = Len(s) + 1 /\ t[j] = item
  BY <1>1, AppendAt
<1> HIDE DEF t
<1>3. \A j \in DOMAIN s : Taken(s[j]) \cap Taken(item) = {}
  <2>1. \A j \in DOMAIN s : Taken(s[j]) \subseteq AllUsedUp(s)
    BY DEF Taken, AllUsedUp
  <2> QED
    BY <2>1
<1>4. ASSUME NEW j \in DOMAIN t
      PROVE  /\ Sound(t[j])
             /\ \A p \in Taken(t[j]) : /\ p \in Parts /\ label[p].stage = stage
                                       /\ p # t[j].osd => label[p].use # "osd"
  <2>1. CASE j \in DOMAIN s /\ t[j] = s[j]
    BY <2>1 DEF Found
  <2>2. CASE t[j] = item
    BY <2>2
  <2> QED
    BY <2>1, <2>2, <1>2
<1>5. ASSUME NEW i \in DOMAIN t, NEW j \in DOMAIN t, i # j
      PROVE  Taken(t[i]) \cap Taken(t[j]) = {}
  <2>1. CASE i \in DOMAIN s /\ t[i] = s[i] /\ j \in DOMAIN s /\ t[j] = s[j]
    BY <2>1, <1>5 DEF Found
  <2>2. CASE i \in DOMAIN s /\ t[i] = s[i] /\ t[j] = item
    BY <2>2, <1>3
  <2>3. CASE j \in DOMAIN s /\ t[j] = s[j] /\ t[i] = item
    BY <2>3, <1>3
  <2> QED
    BY <2>1, <2>2, <2>3, <1>2, <1>5
<1> QED
  BY <1>2, <1>4, <1>5 DEF Found, t

LEMMA AppendEnough ==
    ASSUME NEW stage, NEW k \in DOMAIN Listing, NEW s \in Seq(Item), Enough(s, k - 1),
           NEW item \in Item, item.osd \in Taken(item), label[item.osd] = label[Listing[k]],
           \A p \in Taken(item) : p \in Parts /\ (p # item.osd => label[p].use # "osd")
    PROVE  Enough(Append(s, item), k)
<1> DEFINE t == Append(s, item)
<1>0. k \in Nat
  BY ListingIs
<1>1. Len(s) \in Nat /\ Len(t) = Len(s) + 1
  BY AppendAt
<1>2. Len(t) <= k
  BY <1>0, <1>1 DEF Enough
<1>3. AllUsedUp(t) = AllUsedUp(s) \cup UsedUp(item)
  BY UsedUpAppend
<1> HIDE DEF t
<1>4. ASSUME NEW lb \in Label, lb.use = "osd"
      PROVE  Cardinality(AllUsedUp(t) \cap WithLabel(lb)) <= Cardinality(Seen(k, lb))
  <2> DEFINE A == AllUsedUp(s) \cap WithLabel(lb)
             B == AllUsedUp(t) \cap WithLabel(lb)
  <2>1. A \subseteq Parts /\ IsFiniteSet(A) /\ Cardinality(A) \in Nat
    BY FiniteParts DEF WithLabel
  <2>2. Cardinality(A) <= Cardinality(Seen(k - 1, lb))
    BY <1>4 DEF Enough
  <2>3. UsedUp(item) \cap WithLabel(lb) = Taken(item) \cap WithLabel(lb)
    BY ListingIs DEF Taken, WithLabel
  <2>4. CASE label[Listing[k]] = lb
    <3>1. B \subseteq A \cup {item.osd}
      BY <1>3, <1>4, <2>3 DEF WithLabel
    <3>2. /\ IsFiniteSet(A \cup {item.osd})
          /\ Cardinality(A \cup {item.osd}) <= Cardinality(A) + 1
          /\ Cardinality(A \cup {item.osd}) \in Nat
      <4>1. /\ IsFiniteSet(A \cup {item.osd})
            /\ Cardinality(A \cup {item.osd}) =
                  IF item.osd \in A THEN Cardinality(A) ELSE Cardinality(A) + 1
        BY <2>1, FS_AddElement
      <4> QED
        BY <2>1, <4>1
    <3>3. Cardinality(B) <= Cardinality(A \cup {item.osd}) /\ Cardinality(B) \in Nat
      BY <3>1, <3>2, FS_Subset, FS_CardinalityType
    <3>4. /\ Cardinality(Seen(k, lb)) = Cardinality(Seen(k - 1, lb)) + 1
          /\ Cardinality(Seen(k - 1, lb)) \in Nat
      BY <2>4, CountSeen
    <3> QED
      BY <2>1, <2>2, <3>2, <3>3, <3>4
  <2>5. CASE label[Listing[k]] # lb
    <3>1. B = A
      BY <1>3, <1>4, <2>3, <2>5 DEF WithLabel
    <3>2. /\ Cardinality(Seen(k - 1, lb)) <= Cardinality(Seen(k, lb))
          /\ Cardinality(Seen(k - 1, lb)) \in Nat /\ Cardinality(Seen(k, lb)) \in Nat
      BY CountSeen
    <3>3. Cardinality(B) = Cardinality(A)
      BY <3>1
    <3> HIDE DEF A
    <3>4. Cardinality(B) <= Cardinality(Seen(k, lb))
      BY <2>1, <2>2, <3>3, <3>2
    <3> QED
      BY <3>4
  <2> QED
    BY <2>4, <2>5
<1> QED
  BY <1>2, <1>4 DEF Enough, t

LEMMA ExtendedKeeps ==
    ASSUME Labelled, NEW stage, NEW k \in DOMAIN Listing, NEW s,
           Found(s, stage), Enough(s, k - 1)
    PROVE  LET t == Extended(s, stage, Listing[k], AllUsedUp(s))
           IN Found(t, stage) /\ Enough(t, k)
<1> DEFINE p == Listing[k]
           used == AllUsedUp(s)
           item == Final(LastWith(label[p], used), label[p], used)
           adds == label[p].stage = stage /\ label[p].use = "osd" /\ item.aux # NoPart
           t == Extended(s, stage, p, used)
<1>0. k \in Nat /\ p \in Parts /\ label[p] \in Label /\ s \in Seq(Item) /\ Len(s) \in Nat
  BY ListingIs DEF Labelled, Found
<1>1. t = IF adds THEN Append(s, item) ELSE s
  BY DEF Extended
<1>2. CASE adds
  <2> DEFINE osd == LastWith(label[p], used)
  <2>1. \E q \in Parts : label[q] = label[p] /\ q \notin used
    BY <1>0, <1>2, OneLeft
  <2>2. osd \in Parts /\ label[osd] = label[p] /\ osd \notin used
    BY <2>1, LastWithIs
  <2>3. /\ Sound(item) /\ item.osd = osd
        /\ \A q \in Taken(item) : /\ q \in Parts /\ q \notin used
                                  /\ label[q].stage = label[p].stage
                                  /\ q # osd => label[q].use # "osd"
    BY <1>0, <1>2, <2>2, FinalIs
  <2>4. item \in Item /\ item.osd \in Taken(item)
    BY <2>2, <2>3, ListingIs DEF Sound, Taken, UsedUp
  <2> HIDE DEF item, osd, used
  <2>5. Found(Append(s, item), stage)
    BY <1>2, <2>3, AppendFound DEF used
  <2>6. Enough(Append(s, item), k)
    BY <1>0, <2>2, <2>3, <2>4, AppendEnough
  <2> QED
    BY <1>1, <1>2, <2>5, <2>6 DEF item, osd, used
<1>3. CASE ~adds
  <2>1. \A lb \in Label : lb.use = "osd" =>
            Cardinality(AllUsedUp(s) \cap WithLabel(lb)) <= Cardinality(Seen(k, lb))
    <3> SUFFICES ASSUME NEW lb \in Label, lb.use = "osd"
                 PROVE  Cardinality(AllUsedUp(s) \cap WithLabel(lb)) <= Cardinality(Seen(k, lb))
      OBVIOUS
    <3>1. /\ Cardinality(AllUsedUp(s) \cap WithLabel(lb)) <= Cardinality(Seen(k - 1, lb))
          /\ Cardinality(AllUsedUp(s) \cap WithLabel(lb)) \in Nat
      BY FiniteParts DEF Enough, WithLabel
    <3>2. /\ Cardinality(Seen(k - 1, lb)) <= Cardinality(Seen(k, lb))
          /\ Cardinality(Seen(k - 1, lb)) \in Nat /\ Cardinality(Seen(k, lb)) \in Nat
      BY CountSeen
    <3> QED
      BY <3>1, <3>2
  <2>2. Len(s) <= k
    BY <1>0 DEF Enough
  <2> QED
    BY <1>1, <1>3, <2>1, <2>2 DEF Enough
<1> QED
  BY <1>2, <1>3

-----------------------------------------------------------------------------
(* Combine is the end of the function that its recursion describes.            *)

Step(acc, stage, k) ==
    IF k = 0 THEN <<>>
    ELSE Extended(acc[k - 1], stage, Listing[k], AllUsedUp(acc[k - 1]))
Gathers(acc, stage, m) == acc = [k \in 0 .. m |-> Step(acc, stage, k)]
Gathered(stage) == CHOOSE acc : Gathers(acc, stage, Len(Listing))

LEMMA CombineIs == \A stage : Combine(stage) = Gathered(stage)[Len(Listing)]
  BY DEF Combine, Gathered, Gathers, Step

LEMMA GatheredExists == \A stage : Gathers(Gathered(stage), stage, Len(Listing))
<1> TAKE stage
<1> DEFINE S == {m \in Nat : \E acc : Gathers(acc, stage, m)}
<1>1. 0 \in S
  <2>1. Gathers([k \in 0 .. 0 |-> <<>>], stage, 0)
    BY DEF Gathers, Step
  <2> QED
    BY <2>1
<1>2. ASSUME NEW m \in Nat, m \in S PROVE m + 1 \in S
  <2>1. PICK acc : Gathers(acc, stage, m)
    BY <1>2
  <2> DEFINE next == [k \in 0 .. m + 1 |->
                         IF k <= m THEN acc[k] ELSE Step(acc, stage, k)]
  <2>2. ASSUME NEW k \in 0 .. m + 1 PROVE next[k] = Step(next, stage, k)
    <3>1. CASE k = 0
      <4>1. acc[0] = Step(acc, stage, 0)
        BY <2>1 DEF Gathers
      <4> QED
        BY <3>1, <4>1 DEF Step
    <3>2. CASE k # 0
      <4>1. k - 1 \in 0 .. m + 1 /\ k - 1 <= m
        BY <3>2
      <4>2. next[k - 1] = acc[k - 1]
        BY <4>1
      <4>3. Step(next, stage, k) = Step(acc, stage, k)
        BY <4>2 DEF Step
      <4>4. next[k] = Step(acc, stage, k)
        <5>1. CASE k <= m
          <6>1. k \in 0 .. m
            BY <5>1
          <6>2. acc[k] = Step(acc, stage, k)
            BY <6>1, <2>1 DEF Gathers
          <6> QED
            BY <5>1, <6>2
        <5>2. CASE ~(k <= m)
          BY <5>2
        <5> QED
          BY <5>1, <5>2
      <4> QED
        BY <4>3, <4>4
    <3> QED
      BY <3>1, <3>2
  <2>3. next = [k \in 0 .. m + 1 |-> Step(next, stage, k)]
    BY <2>2
  <2> HIDE DEF next
  <2>4. Gathers(next, stage, m + 1)
    BY <2>3 DEF Gathers
  <2> QED
    BY <2>4
<1> HIDE DEF S
<1>3. Len(Listing) \in S
  BY <1>1, <1>2, SetInduction, ListingIs
<1> QED
  BY <1>3 DEF S, Gathered

(* What combine_info finds. *)
LEMMA CombineFound ==
    ASSUME Labelled, NEW stage
    PROVE  Found(Combine(stage), stage) /\ Len(Combine(stage)) <= Len(Listing)
<1> DEFINE acc == Gathered(stage)
           S == {m \in Nat : m \in 0 .. Len(Listing) => Found(acc[m], stage) /\ Enough(acc[m], m)}
<1>1. \A k \in 0 .. Len(Listing) : acc[k] = Step(acc, stage, k)
  BY GatheredExists DEF Gathers
<1>2. 0 \in S
  <2>1. acc[0] = <<>>
    BY <1>1, ListingIs DEF Step
  <2>2. Found(<<>>, stage)
    BY DEF Found
  <2>3. AllUsedUp(<<>>) = {}
    BY DEF AllUsedUp
  <2>4. \A lb \in Label : Cardinality({}) <= Cardinality(Seen(0, lb))
    <3> TAKE lb \in Label
    <3>1. Cardinality(Seen(0, lb)) \in Nat
      BY FiniteParts DEF Seen, WithLabel
    <3> QED
      BY <3>1, FS_EmptySet
  <2>5. Len(<<>>) = 0 /\ \A lb : AllUsedUp(<<>>) \cap WithLabel(lb) = {}
    BY <2>3
  <2>6. Enough(<<>>, 0)
    BY <2>4, <2>5 DEF Enough
  <2> QED
    BY <2>1, <2>2, <2>6
<1>3. ASSUME NEW m \in Nat, m \in S PROVE m + 1 \in S
  <2> SUFFICES ASSUME m + 1 \in 0 .. Len(Listing)
               PROVE  Found(acc[m + 1], stage) /\ Enough(acc[m + 1], m + 1)
    OBVIOUS
  <2>1. Found(acc[m], stage) /\ Enough(acc[m], m)
    BY <1>3, ListingIs
  <2>2. m + 1 \in DOMAIN Listing /\ (m + 1) - 1 = m
    BY ListingIs
  <2>3. acc[m + 1] = Extended(acc[m], stage, Listing[m + 1], AllUsedUp(acc[m]))
    BY <1>1, <2>2 DEF Step
  <2> HIDE DEF acc
  <2> QED
    BY <2>1, <2>2, <2>3, ExtendedKeeps
<1> HIDE DEF S
<1>4. Len(Listing) \in S
  BY <1>2, <1>3, SetInduction, ListingIs
<1> QED
  BY <1>4, ListingIs, CombineIs DEF S, Enough

(* The partitions that setup counts. *)
Counted == {p \in Parts : DiskOf[p] \in InFacts}

(* Without a question setup saw nothing else on a disk that an item takes whole. *)
LEMMA NobodyElse ==
    ASSUME NEW item \in Item, facts \subseteq Parts, ~Asks(item), ~item.external,
           item.osd \in Counted, item.osd \in facts,
           NEW p \in OnDisk(DiskOf[item.osd]), p # item.osd
    PROVE  p \notin facts
<1> DEFINE S == facts \cap OnDisk(DiskOf[item.osd])
<1> SUFFICES ASSUME p \in facts PROVE FALSE
  OBVIOUS
<1>1. S \subseteq Parts /\ IsFiniteSet(S) /\ Cardinality(S) \in Nat
  <2>1. S \subseteq Parts
    OBVIOUS
  <2>2. IsFiniteSet(S)
    BY <2>1, FiniteParts
  <2> QED
    BY <2>1, <2>2, FS_CardinalityType
<1>2. Cardinality(S) <= 1
  BY <1>1 DEF Asks, Counted
<1>3. item.osd \in S /\ p \in S
  BY DEF OnDisk, Item
<1>4. IsFiniteSet({p}) /\ Cardinality({p}) = 1
  BY FS_Singleton
<1>5. Cardinality({p} \cup {item.osd}) = 2
  <2>1. item.osd \notin {p}
    OBVIOUS
  <2>2. Cardinality({p} \cup {item.osd}) = Cardinality({p}) + 1
    BY <1>4, <2>1, FS_AddElement, Zenon
  <2> QED
    BY <1>4, <2>2
<1>6. Cardinality({p} \cup {item.osd}) <= Cardinality(S)
  BY <1>1, <1>3, FS_Subset
<1> HIDE DEF S
<1> QED
  BY <1>1, <1>2, <1>5, <1>6

-----------------------------------------------------------------------------
(* The invariant                                                             *)

InPlay == play \in {"loop", "wait"}

(* All that the script of an item may touch. *)
Reach(item) == Taken(item) \cup IF item.external THEN {} ELSE OnDisk(DiskOf[item.osd])

(* The partitions that the run k has renamed. *)
Renamed(k) ==
    {p \in Parts : \E j \in DOMAIN Script(container[k].item) :
        /\ j < container[k].step
        /\ Script(container[k].item)[j].op = "rename"
        /\ Script(container[k].item)[j].part = p}

Runnings == {k \in DOMAIN Listing : container[k] # NoRun}

(* A container is at a command of the script of an item that can be had. *)
Running ==
    /\ \A k \in Runnings : /\ Sound(container[k].item)
                           /\ container[k].step \in DOMAIN Script(container[k].item)
    /\ Len(items) <= Len(Listing)
    /\ \A j \in DOMAIN items : Sound(items[j])

(* Behind `ceph osd new` the id is one that ceph knows. *)
Registered == \A k \in Runnings : Rank(Current(k)) > 4 => container[k].id \in DOMAIN osdmap

(* What a run has renamed never gets a bootstrap label again. *)
NotAgain == \A k \in Runnings : \A p \in Renamed(k) : label[p].stage # "bootstrap"

NoOsdToDo == \A p \in Parts : label[p].stage = "bootstrap" => holds[p].kind # "osd"

(* The data of the operator is out of the reach of every script. *)
Harmless ==
    ~WipeConfirmed =>
        /\ \A k \in Runnings : \A p \in Reach(container[k].item) \cap Counted : layout[p] # Plain
        /\ InPlay =>
              \A j \in DOMAIN items : \A p \in Reach(items[j]) \cap Counted : layout[p] # Plain

(* What setup did not see and is there now has been made by a container that an *)
(* aborted play left, on a disk without data of the operator.                 *)
FactsHold ==
    ~WipeConfirmed /\ play = "facts" =>
        \A p \in Counted : Exists(p) /\ p \notin facts =>
            aborts # 0 /\ \A q \in OnDisk(DiskOf[p]) : layout[q] # Plain

(* Two items of one lookup have nothing in common. *)
Apart ==
    ~WipeConfirmed /\ aborts = 0 /\ InPlay =>
        \A i, j \in DOMAIN items :
            i # j => Reach(items[i]) \cap Reach(items[j]) \cap Counted = {}

(* If no play was aborted, the only container is the one the play waits for,   *)
(* and what it renamed has its id.                                          *)
Alone ==
    aborts = 0 =>
        \A k \in Runnings :
            /\ play = "wait" /\ n = k /\ k \in DOMAIN items
            /\ container[k].item = items[k]
            /\ \A p \in Renamed(k) : label[p].stage = "data" /\ label[p].name = container[k].id

(* A finished OSD is out of the reach of the items still to come, but for the   *)
(* one that was just finished.                                              *)
Untouched ==
    ~WipeConfirmed /\ aborts = 0 /\ InPlay =>
        \A c \in complete : \A j \in DOMAIN items : j >= n =>
            \/ PartsOf(c.item) \cap Reach(items[j]) \cap Counted = {}
            \/ j = n /\ n \in Runnings /\ Current(n).op = "crush"

TrueLabels ==
    ~WipeConfirmed /\ aborts = 0 =>
        \A c \in complete : \A p \in PartsOf(c.item) \cap Counted :
            label[p].stage = "data" /\ label[p].name = c.id

OInv ==
    /\ TypeOK /\ Running /\ Registered /\ NotAgain /\ NoOsdToDo
    /\ UserDataKept /\ Harmless /\ FactsHold /\ Apart
    /\ Alone /\ Untouched /\ TrueLabels

-----------------------------------------------------------------------------
(* A command of a script                                                     *)

LEMMA PartsInReach == \A item : Sound(item) => PartsOf(item) \subseteq Reach(item)
<1> TAKE item
<1> HAVE Sound(item)
<1>1. item.osd \in Reach(item)
  BY ListingIs DEF Reach, Taken, UsedUp, Sound, Item
<1>2. item.aux \in Reach(item)
  BY ListingIs DEF Reach, Taken, UsedUp, Sound, Item, OnDisk
<1>3. ASSUME NEW p \in {item.wal, item.db}, p # NoPart PROVE p \in Reach(item)
  BY <1>3 DEF Reach, Taken, UsedUp
<1> QED
  BY <1>1, <1>2, <1>3 DEF PartsOf, Separate

(* A script begins, orders, and ends its commands as it should. *)
LEMMA CurrentIs ==
    ASSUME TypeOK, Running, NEW k \in Runnings
    PROVE  LET r == container[k]
               S == Script(r.item)
           IN /\ r \in Run /\ Sound(r.item) /\ S \in Seq(Commands) /\ InOrder(S)
              /\ r.step \in DOMAIN S /\ Current(k) = S[r.step]
              /\ Current(k) \in Commands /\ Allowed(r.item, Current(k))
              /\ Current(k).op # "crush" => r.step + 1 \in DOMAIN S
              /\ Current(k).op = "mkfs" => S[r.step + 1].op = "crush"
              /\ PartsOf(r.item) \subseteq Reach(r.item)
              /\ PartsOf(r.item) \subseteq Parts
              /\ Current(k).op \in {"zap", "divide"} =>
                    /\ Current(k).part = r.item.osd
                    /\ OnDisk(DiskOf[r.item.osd]) \subseteq Reach(r.item)
<1> DEFINE r == container[k]
           S == Script(r.item)
<1>1. r \in Run /\ Sound(r.item) /\ r.step \in DOMAIN S
  BY DEF TypeOK, Running, Runnings
<1>2. Current(k) = S[r.step]
  BY DEF Current
<1>3. S \in Seq(Commands) /\ InOrder(S) /\ Allowed(r.item, S[r.step])
  BY <1>1, ScriptShape DEF Within
<1>4. S[r.step] \in Commands
  BY <1>1, <1>3
<1>5. /\ S[r.step].op # "crush" => r.step + 1 \in DOMAIN S
      /\ S[r.step].op = "mkfs" => S[r.step + 1].op = "crush"
  BY <1>1, ScriptShape
<1>6. PartsOf(r.item) \subseteq Reach(r.item) /\ PartsOf(r.item) \subseteq Parts
  BY <1>1, PartsInReach, PartsOfType DEF Sound
<1>7. S[r.step].op \in {"zap", "divide"} =>
          /\ S[r.step].part = r.item.osd
          /\ OnDisk(DiskOf[r.item.osd]) \subseteq Reach(r.item)
  BY <1>3 DEF Allowed, Reach
<1> HIDE DEF r, S
<1> QED
  BY <1>1, <1>2, <1>3, <1>4, <1>5, <1>6, <1>7 DEF r, S

(* Nothing is renamed before the OSD is registered, everything before mkfs. *)
LEMMA RenamedWhen ==
    ASSUME TypeOK, Running, NEW k \in Runnings
    PROVE  /\ Rank(Current(k)) < 5 => Renamed(k) = {}
           /\ Rank(Current(k)) > 5 => PartsOf(container[k].item) \subseteq Renamed(k)
<1> DEFINE s == container[k].step
           S == Script(container[k].item)
<1>1. /\ S \in Seq(Commands) /\ InOrder(S) /\ s \in DOMAIN S /\ Current(k) = S[s]
      /\ Sound(container[k].item)
  BY CurrentIs
<1>2. \A j \in DOMAIN S : j \in Nat /\ Rank(S[j]) \in Int
  BY <1>1, RankType
<1>3. \A p : Renames(S, p) <=> \E j \in DOMAIN S : S[j].op = "rename" /\ S[j].part = p
  BY DEF Renames
<1>4. \A p \in PartsOf(container[k].item) : Renames(S, p)
  BY <1>1, ScriptShape
<1>5. PartsOf(container[k].item) \subseteq Parts
  BY CurrentIs
<1>6. Renamed(k) = {p \in Parts : \E j \in DOMAIN S : j < s /\ S[j].op = "rename" /\ S[j].part = p}
  BY DEF Renamed
<1> HIDE DEF S, s
<1>7. \A j \in DOMAIN S : S[j].op = "rename" => Rank(S[j]) = 5
  BY DEF Rank
<1>8. ASSUME Rank(Current(k)) < 5, NEW j \in DOMAIN S, j < s, S[j].op = "rename"
      PROVE  FALSE
  <2>1. Rank(S[j]) <= Rank(S[s])
    BY <1>1, <1>8 DEF InOrder
  <2> QED
    BY <2>1, <1>1, <1>2, <1>7, <1>8
<1>9. ASSUME Rank(Current(k)) > 5, NEW j \in DOMAIN S, S[j].op = "rename"
      PROVE  j < s
  <2>1. j # s
    BY <1>1, <1>2, <1>7, <1>9
  <2>2. CASE s < j
    <3>1. Rank(S[s]) <= Rank(S[j])
      BY <2>2, <1>1 DEF InOrder
    <3> QED
      BY <3>1, <1>1, <1>2, <1>7, <1>9
  <2> QED
    BY <2>1, <2>2, <1>1, <1>2
<1> QED
  BY <1>3, <1>4, <1>5, <1>6, <1>8, <1>9

(* The script registers the OSD before it formats or renames anything. *)
LEMMA NewBefore ==
    ASSUME TypeOK, Running, NEW k \in Runnings, Current(k).op # "crush",
           Rank(Script(container[k].item)[container[k].step + 1]) > 4
    PROVE  Rank(Current(k)) >= 4
<1> DEFINE s == container[k].step
           S == Script(container[k].item)
<1>1. /\ S \in Seq(Commands) /\ InOrder(S) /\ s \in DOMAIN S /\ Current(k) = S[s]
      /\ s + 1 \in DOMAIN S /\ Sound(container[k].item)
  BY CurrentIs
<1>2. \A j \in DOMAIN S : j \in Nat /\ Rank(S[j]) \in Int
  BY <1>1, RankType
<1>3. PICK j \in DOMAIN S : S[j].op = "new"
  BY <1>1, ScriptShape
<1>4. Rank(S[j]) = 4
  BY <1>3 DEF Rank
<1> HIDE DEF S, s
<1>5. CASE j <= s
  <2>1. Rank(S[j]) <= Rank(S[s])
    BY <1>1, <1>2, <1>3, <1>5 DEF InOrder
  <2> QED
    BY <2>1, <1>1, <1>2, <1>4
<1>6. CASE s < j
  <2>1. Rank(S[s + 1]) <= Rank(S[j])
    BY <1>1, <1>2, <1>3, <1>6 DEF InOrder
  <2> QED
    BY <2>1, <1>1, <1>2, <1>4 DEF S, s
<1> QED
  BY <1>2, <1>1, <1>3, <1>5, <1>6

(* What every command but the last one does, as far as the invariant is         *)
(* concerned.                                                               *)
Moved(k) ==
    /\ container' \in [DOMAIN Listing -> Run \cup {NoRun}]
    /\ container'[k] \in Run
    /\ container'[k].item = container[k].item
    /\ container'[k].step = container[k].step + 1
    /\ Current(k).op # "new" => container'[k].id = container[k].id
    /\ Current(k).op = "new" => container'[k].id \in DOMAIN osdmap'
    /\ \A l \in DOMAIN Listing : l # k => container'[l] = container[l]

Effect(k) ==
    /\ k \in Runnings /\ Current(k).op # "crush"
    /\ Moved(k)
    /\ UNCHANGED <<layout, crush, playVars, failures, aborts>>
    /\ osdmap' \in Seq(Nat) /\ DOMAIN osdmap \subseteq DOMAIN osdmap'
    /\ complete' = complete \/
         /\ Current(k).op = "mkfs"
         /\ complete' = complete \cup {[id |-> container[k].id, item |-> container[k].item]}
    /\ \A p \in Parts :
          /\ p \notin Reach(container[k].item) => label'[p] = label[p] /\ holds'[p] = holds[p]
          /\ label'[p] # label[p] =>
                \/ Current(k).op \in {"zap", "divide"} /\ label'[p].stage # "bootstrap"
                \/ /\ Current(k).op = "rename"
                   /\ label'[p].stage = "data" /\ label'[p].name = container[k].id
          /\ Current(k).op = "rename" /\ p = Current(k).part =>
                label'[p].stage = "data" /\ label'[p].name = container[k].id
          /\ holds'[p] # holds[p] =>
                \/ holds'[p].kind # "osd"
                \/ Current(k).op = "mkfs" /\ p \in PartsOf(container[k].item)
          /\ label'[p].stage # "absent" =>
                \/ Exists(p)
                \/ Current(k).op = "divide" /\ DiskOf[p] = DiskOf[container[k].item.osd]

DiskTypes ==
    /\ label \in [Parts -> Label]
    /\ uuid \in [Parts -> Nat]
    /\ uuids \in Nat
    /\ holds \in [Parts -> [kind : {"blank", "user", "fs", "lvm", "osd"}, id : Nat]]

LEMMA ReplaceMoves ==
    ASSUME TypeOK, NEW k \in Runnings, NEW r \in Run, container' = [container EXCEPT ![k] = r],
           r.item = container[k].item, r.step = container[k].step + 1,
           Current(k).op # "new" => r.id = container[k].id,
           Current(k).op = "new" => r.id \in DOMAIN osdmap'
    PROVE  Moved(k)
<1>1. container \in [DOMAIN Listing -> Run \cup {NoRun}] /\ k \in DOMAIN Listing
  BY DEF TypeOK, Runnings
<1>2. /\ container' \in [DOMAIN Listing -> Run \cup {NoRun}]
      /\ container'[k] = r
      /\ \A l \in DOMAIN Listing : l # k => container'[l] = container[l]
  BY <1>1
<1> QED
  BY <1>2 DEF Moved

LEMMA AdvanceMoves ==
    ASSUME TypeOK, NEW k \in Runnings, Advance(k), Current(k).op # "new"
    PROVE  Moved(k)
<1>1. container[k] \in Run /\ container \in [DOMAIN Listing -> Run \cup {NoRun}] /\ k \in DOMAIN Listing
  BY DEF TypeOK, Runnings
<1> DEFINE r == [container[k] EXCEPT !.step = @ + 1]
<1>2. r \in Run /\ r.item = container[k].item /\ r.step = container[k].step + 1
      /\ r.id = container[k].id
  BY <1>1 DEF Run
<1>3. container' = [container EXCEPT ![k] = r]
  BY DEF Advance
<1> HIDE DEF r
<1> QED
  BY <1>1, <1>2, <1>3, ReplaceMoves

LEMMA LabelConstants ==
    /\ Absent \in Label /\ Absent.stage = "absent"
    /\ Plain \in Label /\ Plain.stage = "plain"
    /\ Blank \in [kind : {"blank", "user", "fs", "lvm", "osd"}, id : Nat] /\ Blank.kind = "blank"
    /\ UserData \in [kind : {"blank", "user", "fs", "lvm", "osd"}, id : Nat]
  BY DEF Absent, Plain, Label, Stages, Uses, Blank, UserData

LEMMA RelabelIs ==
    ASSUME TypeOK, NEW ps, NEW lb \in Label, Relabel(ps, lb)
    PROVE  /\ label' \in [Parts -> Label]
           /\ \A p \in Parts : label'[p] = IF p \in ps THEN lb ELSE label[p]
  BY DEF TypeOK, Relabel

LEMMA StoreIs ==
    ASSUME TypeOK, NEW ps, NEW what \in [kind : {"blank", "user", "fs", "lvm", "osd"}, id : Nat],
           Store(ps, what)
    PROVE  /\ holds' \in [Parts -> [kind : {"blank", "user", "fs", "lvm", "osd"}, id : Nat]]
           /\ \A p \in Parts : holds'[p] = IF p \in ps THEN what ELSE holds[p]
  BY DEF TypeOK, Store

LEMMA ZapEffect ==
    ASSUME TypeOK, Running, NEW k \in DOMAIN Listing, ZapDisk(k)
    PROVE  Effect(k) /\ DiskTypes'
<1> DEFINE d == OnDisk(DiskOf[Current(k).part])
<1>1. k \in Runnings /\ Current(k).op = "zap"
  BY DEF ZapDisk, Runs, Runnings
<1>2. d \subseteq Reach(container[k].item)
  BY <1>1, CurrentIs
<1>3. Relabel(d, Absent) /\ Store(d, Blank) /\ Advance(k)
      /\ UNCHANGED <<layout, uuid, uuids, cephVars, playVars, failures, aborts>>
  BY DEF ZapDisk
<1> HIDE DEF d
<1>4. Moved(k)
  BY <1>1, <1>3, AdvanceMoves
<1>5. /\ label' \in [Parts -> Label]
      /\ \A p \in Parts : label'[p] = IF p \in d THEN Absent ELSE label[p]
  BY <1>3, RelabelIs, LabelConstants
<1>6. /\ holds' \in [Parts -> [kind : {"blank", "user", "fs", "lvm", "osd"}, id : Nat]]
      /\ \A p \in Parts : holds'[p] = IF p \in d THEN Blank ELSE holds[p]
  BY <1>3, StoreIs, LabelConstants
<1>7. DiskTypes'
  BY <1>3, <1>5, <1>6 DEF DiskTypes, TypeOK
<1>8. /\ osdmap' \in Seq(Nat) /\ osdmap' = osdmap /\ complete' = complete
      /\ UNCHANGED <<layout, crush, playVars, failures, aborts>>
  BY <1>3 DEF TypeOK, cephVars
<1>9. ASSUME NEW p \in Parts
      PROVE  /\ p \notin Reach(container[k].item) => label'[p] = label[p] /\ holds'[p] = holds[p]
             /\ label'[p] # label[p] => label'[p].stage # "bootstrap"
             /\ holds'[p] # holds[p] => holds'[p].kind # "osd"
             /\ label'[p].stage # "absent" => Exists(p)
  BY <1>2, <1>5, <1>6, LabelConstants DEF Exists
<1> QED
  BY <1>1, <1>4, <1>7, <1>8, <1>9 DEF Effect

LEMMA RunExcept ==
    ASSUME NEW x \in Run, NEW m \in Nat
    PROVE  /\ LET y == [x EXCEPT !.step = @ + 1, !.uuid = m]
              IN y \in Run /\ y.item = x.item /\ y.step = x.step + 1 /\ y.id = x.id
           /\ LET y == [x EXCEPT !.step = @ + 1, !.id = m]
              IN y \in Run /\ y.item = x.item /\ y.step = x.step + 1 /\ y.id = m
<1> DEFINE s == x.step + 1
<1>1. s \in Nat \ {0}
  BY DEF Run
<1> HIDE DEF s
<1>2. LET y == [x EXCEPT !.step = s, !.uuid = m]
      IN y \in Run /\ y.item = x.item /\ y.step = s /\ y.id = x.id
  BY <1>1 DEF Run
<1>3. LET y == [x EXCEPT !.step = s, !.id = m]
      IN y \in Run /\ y.item = x.item /\ y.step = s /\ y.id = m
  BY <1>1 DEF Run
<1> QED
  BY <1>2, <1>3 DEF s

LEMMA DivideEffect ==
    ASSUME TypeOK, Running, NEW k \in DOMAIN Listing, DivideDisk(k)
    PROVE  Effect(k) /\ DiskTypes'
<1> DEFINE it == container[k].item
           ps == {it.osd, it.aux}
           r == [container[k] EXCEPT !.step = @ + 1, !.uuid = uuids + 1]
<1>1. k \in Runnings /\ Current(k).op = "divide"
  BY DEF DivideDisk, Runs, Runnings
<1>2. /\ ps \subseteq Reach(it) /\ ps \subseteq Parts /\ container[k] \in Run
  BY <1>1, CurrentIs DEF PartsOf
<1>3. /\ Relabel(ps, Plain)
      /\ uuid' = [uuid EXCEPT ![it.osd] = uuids + 1, ![it.aux] = uuids + 2]
      /\ uuids' = uuids + 2
      /\ UNCHANGED <<layout, holds, cephVars, playVars, failures, aborts>>
  BY DEF DivideDisk
<1>30. container' = [container EXCEPT ![k] = r]
  BY DEF DivideDisk
<1>4. r \in Run /\ r.item = it /\ r.step = container[k].step + 1 /\ r.id = container[k].id
  <2>1. uuids + 1 \in Nat
    BY DEF TypeOK
  <2> QED
    BY <1>2, <2>1, RunExcept
<1> HIDE DEF r
<1>5. Moved(k)
  BY <1>1, <1>30, <1>4, ReplaceMoves
<1>6. /\ label' \in [Parts -> Label]
      /\ \A p \in Parts : label'[p] = IF p \in ps THEN Plain ELSE label[p]
  BY <1>3, RelabelIs, LabelConstants
<1>7. DiskTypes'
  <2>0. uuids + 1 \in Nat /\ uuids + 2 \in Nat /\ uuid \in [Parts -> Nat]
    BY DEF TypeOK
  <2>1. uuids' \in Nat /\ uuid' \in [Parts -> Nat]
    BY <1>3, <2>0
  <2>2. holds' \in [Parts -> [kind : {"blank", "user", "fs", "lvm", "osd"}, id : Nat]]
    BY <1>3 DEF TypeOK
  <2> QED
    BY <1>6, <2>1, <2>2 DEF DiskTypes
<1> HIDE DEF ps
<1>8. /\ osdmap' \in Seq(Nat) /\ osdmap' = osdmap /\ complete' = complete /\ holds' = holds
      /\ UNCHANGED <<layout, crush, playVars, failures, aborts>>
  BY <1>3 DEF TypeOK, cephVars
<1>9. ASSUME NEW p \in Parts
      PROVE  /\ p \notin Reach(container[k].item) => label'[p] = label[p]
             /\ label'[p] # label[p] => label'[p].stage # "bootstrap"
             /\ label'[p].stage # "absent" => Exists(p) \/ p \in ps
  BY <1>2, <1>6, LabelConstants DEF Exists
<1>10. \A p \in ps : DiskOf[p] = DiskOf[it.osd]
  <2>1. Sound(it) /\ Allowed(it, Current(k))
    BY <1>1, CurrentIs
  <2> QED
    BY <1>1, <2>1 DEF ps, Sound, Allowed
<1> QED
  BY <1>1, <1>5, <1>7, <1>8, <1>9, <1>10 DEF Effect

LEMMA ClearEffect ==
    ASSUME TypeOK, Running, NEW k \in DOMAIN Listing, ClearPart(k)
    PROVE  Effect(k) /\ DiskTypes'
<1> DEFINE ps == {Current(k).part}
<1>1. k \in Runnings /\ Current(k).op = "clear"
  BY DEF ClearPart, Runs, Runnings
<1>2. ps \subseteq Reach(container[k].item)
  BY <1>1, CurrentIs DEF Allowed
<1>3. /\ Store(ps, Blank) /\ Advance(k)
      /\ UNCHANGED <<layout, label, uuid, uuids, cephVars, playVars, failures, aborts>>
  BY DEF ClearPart
<1> HIDE DEF ps
<1>4. Moved(k)
  BY <1>1, <1>3, AdvanceMoves
<1>5. /\ holds' \in [Parts -> [kind : {"blank", "user", "fs", "lvm", "osd"}, id : Nat]]
      /\ \A p \in Parts : holds'[p] = IF p \in ps THEN Blank ELSE holds[p]
  BY <1>3, StoreIs, LabelConstants
<1>6. DiskTypes'
  BY <1>3, <1>5 DEF DiskTypes, TypeOK
<1>7. /\ osdmap' \in Seq(Nat) /\ osdmap' = osdmap /\ complete' = complete /\ label' = label
      /\ UNCHANGED <<layout, crush, playVars, failures, aborts>>
  BY <1>3 DEF TypeOK, cephVars
<1>8. ASSUME NEW p \in Parts
      PROVE  /\ p \notin Reach(container[k].item) => holds'[p] = holds[p]
             /\ holds'[p] # holds[p] => holds'[p].kind # "osd"
  BY <1>2, <1>5, LabelConstants
<1> QED
  BY <1>1, <1>4, <1>6, <1>7, <1>8 DEF Effect, Exists

LEMMA FormatEffect ==
    ASSUME TypeOK, Running, NEW k \in DOMAIN Listing, FormatPart(k)
    PROVE  Effect(k) /\ DiskTypes'
<1> DEFINE it == container[k].item
           ps == {it.osd}
           what == [kind |-> IF it.mode = "LVM" THEN "lvm" ELSE "fs", id |-> container[k].id]
<1>1. k \in Runnings /\ Current(k).op = "format"
  BY DEF FormatPart, Runs, Runnings
<1>2. ps \subseteq Reach(it) /\ container[k] \in Run
  BY <1>1, CurrentIs DEF PartsOf
<1>3. /\ what \in [kind : {"blank", "user", "fs", "lvm", "osd"}, id : Nat]
      /\ what.kind # "osd"
  BY <1>2 DEF Run
<1>4. /\ Store(ps, what) /\ Advance(k)
      /\ UNCHANGED <<layout, label, uuid, uuids, cephVars, playVars, failures, aborts>>
  BY DEF FormatPart
<1> HIDE DEF ps, what, it
<1>5. Moved(k)
  BY <1>1, <1>4, AdvanceMoves
<1>6. /\ holds' \in [Parts -> [kind : {"blank", "user", "fs", "lvm", "osd"}, id : Nat]]
      /\ \A p \in Parts : holds'[p] = IF p \in ps THEN what ELSE holds[p]
  BY <1>3, <1>4, StoreIs
<1>7. DiskTypes'
  BY <1>4, <1>6 DEF DiskTypes, TypeOK
<1>8. /\ osdmap' \in Seq(Nat) /\ osdmap' = osdmap /\ complete' = complete /\ label' = label
      /\ UNCHANGED <<layout, crush, playVars, failures, aborts>>
  BY <1>4 DEF TypeOK, cephVars
<1>9. ASSUME NEW p \in Parts
      PROVE  /\ p \notin Reach(container[k].item) => holds'[p] = holds[p]
             /\ holds'[p] # holds[p] => holds'[p].kind # "osd"
  BY <1>2, <1>3, <1>6 DEF it
<1> QED
  BY <1>1, <1>5, <1>7, <1>8, <1>9 DEF Effect, Exists

LEMMA RenameEffect ==
    ASSUME TypeOK, Running, NEW k \in DOMAIN Listing, RenamePart(k)
    PROVE  Effect(k) /\ DiskTypes'
<1> DEFINE it == container[k].item
           ps == {Current(k).part}
           lb == [stage |-> "data", store |-> it.store, mode |-> it.mode,
                  name |-> container[k].id, use |-> Current(k).use]
<1>1. k \in Runnings /\ Current(k).op = "rename"
  BY DEF RenamePart, Runs, Runnings
<1>2. /\ ps \subseteq Reach(it) /\ container[k] \in Run /\ it \in Item
      /\ Current(k) \in Commands
  BY <1>1, CurrentIs DEF Allowed, Sound
<1>3. lb \in Label /\ lb.stage = "data" /\ lb.name = container[k].id
  <2>1. /\ it.store \in {"bluestore", "filestore"} /\ it.mode \in {"DISK", "LVM"}
        /\ container[k].id \in Nat /\ Current(k).use \in Uses
    BY <1>2 DEF Item, Run, Commands
  <2> QED
    BY <2>1 DEF Label, Stages
<1>4. /\ Relabel(ps, lb) /\ Advance(k)
      /\ \A p \in ps : Exists(p)
      /\ UNCHANGED <<layout, uuid, uuids, holds, cephVars, playVars, failures, aborts>>
  BY DEF RenamePart
<1> HIDE DEF lb, it
<1>5. Moved(k)
  BY <1>1, <1>4, AdvanceMoves
<1>6. /\ label' \in [Parts -> Label]
      /\ \A p \in Parts : label'[p] = IF p \in ps THEN lb ELSE label[p]
  BY <1>3, <1>4, RelabelIs
<1>7. DiskTypes'
  BY <1>4, <1>6 DEF DiskTypes, TypeOK
<1>8. /\ osdmap' \in Seq(Nat) /\ osdmap' = osdmap /\ complete' = complete /\ holds' = holds
      /\ UNCHANGED <<layout, crush, playVars, failures, aborts>>
  BY <1>4 DEF TypeOK, cephVars
<1>9. ASSUME NEW p \in Parts
      PROVE  /\ p \notin Reach(container[k].item) => label'[p] = label[p]
             /\ label'[p] # label[p] =>
                    label'[p].stage = "data" /\ label'[p].name = container[k].id
             /\ p = Current(k).part =>
                    label'[p].stage = "data" /\ label'[p].name = container[k].id
             /\ label'[p].stage # "absent" => Exists(p)
  BY <1>2, <1>3, <1>4, <1>6 DEF it, Exists
<1> QED
  BY <1>1, <1>5, <1>7, <1>8, <1>9 DEF Effect

LEMMA NewEffect ==
    ASSUME TypeOK, Running, NEW k \in DOMAIN Listing, NewOsd(k)
    PROVE  Effect(k) /\ DiskTypes'
<1> DEFINE u == container[k].uuid
           known == {i \in DOMAIN osdmap : osdmap[i] = u}
           id == IF known = {} THEN Len(osdmap) + 1 ELSE CHOOSE i \in known : TRUE
           r == [container[k] EXCEPT !.step = @ + 1, !.id = id]
<1>1. k \in Runnings /\ Current(k).op = "new" /\ container[k] \in Run
  BY CurrentIs DEF NewOsd, Runs, Runnings
<1>2. u \in Nat /\ osdmap \in Seq(Nat) /\ Len(osdmap) \in Nat
  BY <1>1 DEF Run, TypeOK
<1>3. /\ osdmap' = IF known = {} THEN Append(osdmap, u) ELSE osdmap
      /\ container' = [container EXCEPT ![k] = r]
      /\ UNCHANGED <<layout, diskVars, crush, complete, playVars, failures, aborts>>
  BY DEF NewOsd
<1>4. /\ Append(osdmap, u) \in Seq(Nat) /\ Len(osdmap) + 1 \in DOMAIN Append(osdmap, u)
      /\ DOMAIN osdmap \subseteq DOMAIN Append(osdmap, u)
  BY <1>2, AppendAt
<1>5. known # {} => (CHOOSE i \in known : TRUE) \in DOMAIN osdmap
  OBVIOUS
<1> HIDE DEF known, u
<1>6. /\ osdmap' \in Seq(Nat) /\ DOMAIN osdmap \subseteq DOMAIN osdmap'
      /\ id \in DOMAIN osdmap'
  <2>1. CASE known = {}
    BY <2>1, <1>3, <1>4
  <2>2. CASE known # {}
    BY <2>2, <1>2, <1>3, <1>5
  <2> QED
    BY <2>1, <2>2
<1>7. id \in Nat
  BY <1>6
<1> HIDE DEF id
<1>8. r \in Run /\ r.item = container[k].item /\ r.step = container[k].step + 1 /\ r.id = id
  BY <1>1, <1>7, RunExcept
<1> HIDE DEF r
<1>9. Moved(k)
  BY <1>1, <1>3, <1>6, <1>8, ReplaceMoves
<1>10. DiskTypes' /\ label' = label /\ holds' = holds /\ complete' = complete
       /\ UNCHANGED <<layout, crush, playVars, failures, aborts>>
  BY <1>3 DEF DiskTypes, TypeOK, diskVars
<1> QED
  BY <1>1, <1>6, <1>9, <1>10 DEF Effect, Exists

LEMMA MkfsEffect ==
    ASSUME TypeOK, Running, NEW k \in DOMAIN Listing, MkfsOsd(k)
    PROVE  Effect(k) /\ DiskTypes'
<1> DEFINE r == container[k]
           ps == PartsOf(r.item)
           new == {[id |-> r.id, item |-> r.item]}
<1>1. k \in Runnings /\ Current(k).op = "mkfs"
  BY DEF MkfsOsd, Runs, Runnings
<1>2. ps \subseteq Reach(r.item) /\ r \in Run
  BY <1>1, CurrentIs
<1>3. Holding(r.id) \in [kind : {"blank", "user", "fs", "lvm", "osd"}, id : Nat]
  BY <1>2 DEF Run, Holding
<1>4. /\ Store(ps, Holding(r.id)) /\ complete' = complete \cup new /\ Advance(k)
      /\ UNCHANGED <<layout, label, uuid, uuids, osdmap, crush, playVars, failures, aborts>>
  BY DEF MkfsOsd
<1> HIDE DEF ps
<1>5. Moved(k)
  BY <1>1, <1>4, AdvanceMoves
<1>6. /\ holds' \in [Parts -> [kind : {"blank", "user", "fs", "lvm", "osd"}, id : Nat]]
      /\ \A p \in Parts : holds'[p] = IF p \in ps THEN Holding(r.id) ELSE holds[p]
  BY <1>3, <1>4, StoreIs
<1>7. DiskTypes'
  BY <1>4, <1>6 DEF DiskTypes, TypeOK
<1>8. /\ osdmap' \in Seq(Nat) /\ osdmap' = osdmap /\ label' = label
      /\ UNCHANGED <<layout, crush, playVars, failures, aborts>>
  BY <1>4 DEF TypeOK
<1>9. ASSUME NEW p \in Parts
      PROVE  /\ p \notin Reach(container[k].item) => holds'[p] = holds[p]
             /\ holds'[p] # holds[p] => p \in PartsOf(container[k].item)
  BY <1>2, <1>6 DEF ps
<1> QED
  BY <1>1, <1>4, <1>5, <1>7, <1>8, <1>9 DEF Effect, Exists

LEMMA RunIsSome == \A r \in Run : r # NoRun
  BY DEF Run, NoRun

LEMMA EffectRuns ==
    ASSUME TypeOK, Running, NEW k \in DOMAIN Listing, Effect(k)
    PROVE  /\ Runnings' = Runnings
           /\ \A l \in Runnings : l # k => /\ container'[l] = container[l]
                                           /\ Renamed(l)' = Renamed(l)
                                           /\ Current(l)' = Current(l)
           /\ \A p \in Renamed(k)' :
                 p \in Renamed(k) \/ (Current(k).op = "rename" /\ p = Current(k).part)
           /\ Current(k)' = Script(container[k].item)[container[k].step + 1]
           /\ Sound(container'[k].item)
           /\ container'[k].step \in DOMAIN Script(container'[k].item)
<1>1. /\ container' \in [DOMAIN Listing -> Run \cup {NoRun}]
      /\ container'[k] \in Run
      /\ container'[k].item = container[k].item
      /\ container'[k].step = container[k].step + 1
      /\ \A l \in DOMAIN Listing : l # k => container'[l] = container[l]
      /\ k \in Runnings
  BY DEF Effect, Moved
<1>2. Runnings' = Runnings
  BY <1>1, RunIsSome DEF Runnings
<1>3. ASSUME NEW l \in Runnings, l # k
      PROVE  /\ container'[l] = container[l]
             /\ Renamed(l)' = Renamed(l)
             /\ Current(l)' = Current(l)
  <2>1. container'[l] = container[l]
    BY <1>1, <1>3 DEF Runnings
  <2> QED
    BY <2>1 DEF Renamed, Current
<1> DEFINE S == Script(container[k].item)
           s == container[k].step
<1>4. /\ s \in DOMAIN S /\ s + 1 \in DOMAIN S /\ Current(k) = S[s] /\ S \in Seq(Commands)
      /\ Sound(container[k].item)
  BY <1>1, CurrentIs DEF Effect
<1>5. Current(k)' = S[s + 1]
  BY <1>1 DEF Current
<1>6. ASSUME NEW p \in Renamed(k)'
      PROVE  p \in Renamed(k) \/ (Current(k).op = "rename" /\ p = Current(k).part)
  <2>1. PICK j \in DOMAIN S : j < s + 1 /\ S[j].op = "rename" /\ S[j].part = p /\ p \in Parts
    BY <1>1, <1>6 DEF Renamed
  <2>2. j < s \/ j = s
    BY <1>4, <2>1
  <2> QED
    BY <2>1, <2>2, <1>4 DEF Renamed
<1> QED
  BY <1>1, <1>2, <1>3, <1>4, <1>5, <1>6

(* Every command keeps the types. *)
LEMMA EffectTypes ==
    ASSUME OInv, NEW k \in DOMAIN Listing, Effect(k), DiskTypes'
    PROVE  TypeOK'
<1> USE DEF OInv
<1>1. /\ container' \in [DOMAIN Listing -> Run \cup {NoRun}]
      /\ UNCHANGED <<layout, crush, playVars, failures, aborts>>
      /\ osdmap' \in Seq(Nat) /\ DOMAIN osdmap \subseteq DOMAIN osdmap'
  BY DEF Effect, Moved
<1>2. complete' \subseteq [id : DOMAIN osdmap', item : Item]
  <2>1. complete \subseteq [id : DOMAIN osdmap', item : Item]
    BY <1>1 DEF TypeOK
  <2>2. CASE Current(k).op = "mkfs"
    <3>1. k \in Runnings
      BY DEF Effect
    <3>2. container[k].id \in DOMAIN osdmap /\ container[k].item \in Item
      BY <2>2, <3>1, CurrentIs DEF Registered, Rank, Sound
    <3> QED
      BY <2>1, <3>2, <1>1 DEF Effect
  <2>3. CASE complete' = complete
    BY <2>1, <2>3
  <2> QED
    BY <2>2, <2>3 DEF Effect
<1>3. crush' \subseteq DOMAIN osdmap'
  BY <1>1 DEF TypeOK
<1> QED
  BY <1>1, <1>2, <1>3 DEF TypeOK, DiskTypes, playVars

(* The script of the item at work reaches no finished OSD. *)
LEMMA OutOfReach ==
    ASSUME OInv, NEW k \in Runnings, Current(k).op # "crush", ~WipeConfirmed, aborts = 0
    PROVE  \A c \in complete : PartsOf(c.item) \cap Reach(container[k].item) \cap Counted = {}
<1>1. play = "wait" /\ n = k /\ k \in DOMAIN items /\ container[k].item = items[k]
  BY DEF OInv, Alone
<1>2. k \in Nat
  BY ListingIs DEF Runnings
<1> QED
  BY <1>1, <1>2 DEF OInv, Untouched, InPlay

LEMMA EffectKeeps ==
    ASSUME OInv, NEW k \in DOMAIN Listing, Effect(k), DiskTypes'
    PROVE  OInv'
<1>0. /\ TypeOK /\ Running /\ Registered /\ NotAgain /\ NoOsdToDo
      /\ UserDataKept /\ Harmless /\ FactsHold /\ Apart /\ Alone /\ Untouched /\ TrueLabels
  BY DEF OInv
<1> DEFINE it == container[k].item
           op == Current(k).op
<1>1. TypeOK'
  BY EffectTypes
<1>2. /\ k \in Runnings /\ op # "crush"
      /\ UNCHANGED <<layout, crush, play, facts, items, n, failed, failures, aborts>>
      /\ osdmap' \in Seq(Nat) /\ DOMAIN osdmap \subseteq DOMAIN osdmap'
      /\ container'[k].item = it
      /\ op # "new" => container'[k].id = container[k].id
      /\ op = "new" => container'[k].id \in DOMAIN osdmap'
  BY DEF Effect, Moved, playVars
<1>3. /\ Runnings' = Runnings
      /\ \A l \in Runnings : l # k => /\ container'[l] = container[l]
                                      /\ Renamed(l)' = Renamed(l)
                                      /\ Current(l)' = Current(l)
      /\ \A p \in Renamed(k)' : p \in Renamed(k) \/ (op = "rename" /\ p = Current(k).part)
      /\ Current(k)' = Script(container[k].item)[container[k].step + 1]
      /\ Sound(container'[k].item)
      /\ container'[k].step \in DOMAIN Script(container'[k].item)
  BY <1>0, EffectRuns
<1>4. ASSUME NEW p \in Parts
      PROVE  /\ p \notin Reach(it) => label'[p] = label[p] /\ holds'[p] = holds[p]
             /\ label'[p] # label[p] =>
                   \/ op \in {"zap", "divide"} /\ label'[p].stage # "bootstrap"
                   \/ op = "rename" /\ label'[p].stage = "data" /\ label'[p].name = container[k].id
             /\ op = "rename" /\ p = Current(k).part =>
                   label'[p].stage = "data" /\ label'[p].name = container[k].id
             /\ holds'[p] # holds[p] =>
                   \/ holds'[p].kind # "osd"
                   \/ op = "mkfs" /\ p \in PartsOf(it)
             /\ label'[p].stage # "absent" =>
                   Exists(p) \/ (op = "divide" /\ DiskOf[p] = DiskOf[it.osd])
  BY DEF Effect
<1>5. complete' = complete \/
        (op = "mkfs" /\ complete' = complete \cup {[id |-> container[k].id, item |-> it]})
  BY DEF Effect
<1>6. /\ Rank(Current(k)) < 5 => Renamed(k) = {}
      /\ Rank(Current(k)) > 5 => PartsOf(it) \subseteq Renamed(k)
  BY <1>0, <1>2, RenamedWhen
<1>7. /\ Current(k) \in Commands /\ Rank(Current(k)) \in 1 .. 7
      /\ op \in {"zap", "divide", "new"} => Rank(Current(k)) < 5
      /\ op = "mkfs" => Rank(Current(k)) > 5
  <2>1. Current(k) \in Commands /\ Rank(Current(k)) \in 1 .. 7
    BY <1>0, <1>2, CurrentIs, RankType
  <2>2. op \in {"zap", "divide", "new"} => Rank(Current(k)) < 5
    BY DEF Rank
  <2>3. op = "mkfs" => Rank(Current(k)) > 5
    BY DEF Rank
  <2> QED
    BY <2>1, <2>2, <2>3
<1> HIDE DEF it, op
<1>8. Running'
  BY <1>0, <1>2, <1>3 DEF Running
<1>9. Registered'
  <2> SUFFICES ASSUME NEW l \in Runnings, Rank(Current(l)') > 4
               PROVE  container'[l].id \in DOMAIN osdmap'
    BY <1>3 DEF Registered
  <2>1. CASE l # k
    <3>1. container[l].id \in DOMAIN osdmap
      BY <1>0, <1>3, <2>1 DEF Registered
    <3> QED
      BY <1>2, <1>3, <2>1, <3>1
  <2>2. CASE l = k /\ op # "new"
    <3>1. Rank(Current(k)) >= 4
      BY <1>0, <1>2, <1>3, <2>2, NewBefore DEF op
    <3>2. Rank(Current(k)) # 4
      BY <1>7, <2>2 DEF Rank, op, Commands, OpNames
    <3>3. Rank(Current(k)) > 4
      BY <1>7, <3>1, <3>2
    <3> QED
      BY <1>0, <1>2, <2>2, <3>3 DEF Registered
  <2> QED
    BY <1>2, <2>1, <2>2
<1>10. NotAgain'
  <2> SUFFICES ASSUME NEW l \in Runnings, NEW p \in Renamed(l)'
               PROVE  label'[p].stage # "bootstrap"
    BY <1>3 DEF NotAgain
  <2>1. p \in Parts
    BY DEF Renamed
  <2>2. CASE p \in Renamed(l)
    <3>1. label[p].stage # "bootstrap"
      BY <1>0, <2>2 DEF NotAgain
    <3> QED
      BY <1>4, <2>1, <3>1
  <2>3. CASE p \notin Renamed(l)
    <3>1. op = "rename" /\ p = Current(k).part
      BY <1>3, <2>3
    <3> QED
      BY <1>4, <2>1, <3>1
  <2> QED
    BY <2>2, <2>3
<1>11. NoOsdToDo'
  <2> SUFFICES ASSUME NEW p \in Parts, label'[p].stage = "bootstrap"
               PROVE  holds'[p].kind # "osd"
    BY DEF NoOsdToDo
  <2>1. label'[p] = label[p]
    BY <1>4
  <2>2. holds[p].kind # "osd"
    BY <1>0, <2>1 DEF NoOsdToDo
  <2>3. ~(op = "mkfs" /\ p \in PartsOf(it))
    BY <1>0, <1>2, <1>6, <1>7, <2>1 DEF NotAgain
  <2> QED
    BY <1>4, <2>2, <2>3
<1>12. UserDataKept'
  <2> SUFFICES ASSUME ~WipeConfirmed, NEW p \in Parts, layout[p] = Plain, DiskOf[p] \in InFacts
               PROVE  holds'[p] = UserData /\ label'[p] = Plain
    BY <1>2 DEF UserDataKept
  <2>1. p \notin Reach(it)
    BY <1>0, <1>2 DEF Harmless, Counted, it
  <2> QED
    BY <1>0, <1>4, <2>1 DEF UserDataKept
<1>13. Harmless'
  <2>1. \A l \in Runnings : container'[l].item = container[l].item
    BY <1>2, <1>3 DEF it
  <2> QED
    BY <1>0, <1>2, <1>3, <2>1 DEF Harmless, InPlay
<1>14. Apart'
  BY <1>0, <1>2 DEF Apart, InPlay
<1>15. Alone'
  <2> SUFFICES ASSUME aborts = 0, NEW l \in Runnings
               PROVE  /\ play = "wait" /\ n = l /\ l \in DOMAIN items
                      /\ container'[l].item = items[l]
                      /\ \A p \in Renamed(l)' : /\ label'[p].stage = "data"
                                                /\ label'[p].name = container'[l].id
    BY <1>2, <1>3 DEF Alone
  <2>1. play = "wait" /\ n = l /\ l \in DOMAIN items /\ container[l].item = items[l] /\ l = k
    BY <1>0, <1>2 DEF Alone
  <2>2. ASSUME NEW p \in Renamed(k)'
        PROVE  label'[p].stage = "data" /\ label'[p].name = container'[k].id
    <3>1. p \in Parts
      BY <2>2 DEF Renamed
    <3>2. CASE p \in Renamed(k)
      <4>1. label[p].stage = "data" /\ label[p].name = container[k].id
        BY <1>0, <2>1, <3>2 DEF Alone
      <4>2. op \notin {"zap", "divide", "new"}
        BY <1>6, <1>7, <3>2
      <4> QED
        BY <1>2, <1>4, <3>1, <4>1, <4>2
    <3>3. CASE p \notin Renamed(k)
      <4>1. op = "rename" /\ p = Current(k).part
        BY <1>3, <2>2, <3>3
      <4> QED
        BY <1>2, <1>4, <3>1, <4>1
    <3> QED
      BY <3>2, <3>3
  <2> QED
    BY <1>2, <2>1, <2>2 DEF it
<1>16. ~WipeConfirmed /\ aborts = 0 =>
          \A c \in complete : PartsOf(c.item) \cap Reach(it) \cap Counted = {}
  BY <1>2, OutOfReach DEF op, it
<1>17. aborts = 0 => play = "wait" /\ n = k /\ k \in DOMAIN items /\ it = items[k]
  BY <1>0, <1>2 DEF Alone, it
<1>18. Untouched'
  <2> SUFFICES ASSUME ~WipeConfirmed, aborts = 0, NEW c \in complete', NEW j \in DOMAIN items, j >= n
               PROVE  \/ PartsOf(c.item) \cap Reach(items[j]) \cap Counted = {}
                      \/ j = n /\ n \in Runnings /\ Current(n)'.op = "crush"
    BY <1>2, <1>3 DEF Untouched, InPlay
  <2>1. CASE c \in complete
    <3>1. \/ PartsOf(c.item) \cap Reach(items[j]) \cap Counted = {}
          \/ j = n /\ Current(n).op = "crush"
      BY <1>0, <1>17, <2>1 DEF Untouched, InPlay
    <3> QED
      BY <1>2, <1>17, <3>1 DEF op
  <2>2. CASE op = "mkfs" /\ c = [id |-> container[k].id, item |-> it]
    <3>1. CASE j = n
      <4>1. Script(container[k].item)[container[k].step + 1].op = "crush"
        BY <1>0, <1>2, <2>2, CurrentIs DEF op
      <4> QED
        BY <1>2, <1>3, <1>17, <3>1, <4>1
    <3>2. CASE j # n
      <4>1. Reach(items[k]) \cap Reach(items[j]) \cap Counted = {}
        BY <1>0, <1>17, <3>2 DEF Apart, InPlay
      <4>2. PartsOf(it) \subseteq Reach(it)
        BY <1>0, <1>2, CurrentIs DEF it
      <4> QED
        BY <1>17, <2>2, <4>1, <4>2
    <3> QED
      BY <3>1, <3>2
  <2> QED
    BY <1>5, <2>1, <2>2
<1>19. TrueLabels'
  <2> SUFFICES ASSUME ~WipeConfirmed, aborts = 0, NEW c \in complete',
                      NEW p \in PartsOf(c.item), p \in Counted
               PROVE  label'[p].stage = "data" /\ label'[p].name = c.id
    BY <1>2 DEF TrueLabels
  <2>1. CASE c \in complete
    <3>1. c.item \in Item
      BY <1>0, <2>1 DEF TypeOK
    <3>2. p \in Parts /\ p \notin Reach(it)
      BY <1>16, <2>1, <3>1, PartsOfType
    <3>3. label[p].stage = "data" /\ label[p].name = c.id
      BY <1>0, <2>1 DEF TrueLabels
    <3> QED
      BY <1>4, <3>2, <3>3
  <2>2. CASE op = "mkfs" /\ c = [id |-> container[k].id, item |-> it]
    <3>1. p \in Renamed(k) /\ p \in Parts
      BY <1>6, <1>7, <2>2 DEF Renamed
    <3>2. label[p].stage = "data" /\ label[p].name = container[k].id
      BY <1>0, <1>2, <3>1 DEF Alone
    <3> QED
      BY <1>4, <2>2, <3>1, <3>2
  <2> QED
    BY <1>5, <2>1, <2>2
<1>20. FactsHold'
  <2> SUFFICES ASSUME ~WipeConfirmed, play = "facts", NEW p \in Counted,
                      label'[p].stage # "absent", p \notin facts
               PROVE  aborts # 0 /\ \A q \in OnDisk(DiskOf[p]) : layout[q] # Plain
    BY <1>2 DEF FactsHold, Exists
  <2>1. aborts # 0
    BY <1>17
  <2>2. CASE Exists(p)
    BY <1>0, <2>1, <2>2 DEF FactsHold
  <2>3. CASE op = "divide" /\ DiskOf[p] = DiskOf[it.osd]
    <3>1. OnDisk(DiskOf[it.osd]) \subseteq Reach(it)
      BY <1>0, <1>2, <2>3, CurrentIs DEF op, it
    <3>2. \A q \in OnDisk(DiskOf[p]) : q \in Reach(it) \cap Counted
      BY <2>3, <3>1 DEF OnDisk, Counted
    <3> QED
      BY <1>0, <1>2, <2>1, <3>2 DEF Harmless, it
  <2> QED
    BY <1>4, <2>2, <2>3 DEF Counted
<1> QED
  BY <1>1, <1>8, <1>9, <1>10, <1>11, <1>12, <1>13, <1>14, <1>15, <1>18, <1>19, <1>20 DEF OInv

-----------------------------------------------------------------------------
(* The end of a container                                                    *)

LEMMA ExitKeeps ==
    ASSUME OInv, NEW k \in Runnings, NEW ok \in BOOLEAN, Exit(k, ok),
           crush' \subseteq DOMAIN osdmap, failures' \in Nat
    PROVE  OInv'
<1>0. /\ TypeOK /\ Running /\ Registered /\ NotAgain /\ NoOsdToDo
      /\ UserDataKept /\ Harmless /\ FactsHold /\ Apart /\ Alone /\ Untouched /\ TrueLabels
  BY DEF OInv
<1>1. /\ container' = [container EXCEPT ![k] = NoRun]
      /\ UNCHANGED <<layout, label, uuid, uuids, holds, osdmap, complete, facts, items, aborts>>
  BY DEF Exit, diskVars
<1>2. \/ play = "wait" /\ n = k /\ play' = "loop" /\ n' = n + 1 /\ failed' = (failed \/ ~ok)
      \/ ~(play = "wait" /\ n = k) /\ play' = play /\ n' = n /\ failed' = failed
  BY DEF Exit
<1>3. /\ n' \in Nat \ {0} /\ n' >= n /\ play' \in PlayStates /\ failed' \in BOOLEAN
      /\ play' \in {"loop", "wait"} => InPlay
      /\ n \in Nat
  <2>1. n \in Nat \ {0} /\ play \in PlayStates /\ failed \in BOOLEAN
    BY <1>0 DEF TypeOK
  <2>2. n' \in Nat \ {0} /\ n' >= n /\ n \in Nat
    BY <1>2, <2>1
  <2>3. play' \in PlayStates
    BY <1>2, <2>1 DEF PlayStates
  <2>4. failed' \in BOOLEAN
    BY <1>2, <2>1, Zenon
  <2>5. play' \in {"loop", "wait"} => InPlay
    BY <1>2 DEF InPlay
  <2> QED
    BY <2>2, <2>3, <2>4, <2>5
<1>4. /\ container \in [DOMAIN Listing -> Run \cup {NoRun}] /\ k \in DOMAIN Listing
      /\ container' \in [DOMAIN Listing -> Run \cup {NoRun}]
      /\ container'[k] = NoRun
      /\ \A l \in DOMAIN Listing : l # k => container'[l] = container[l]
  <2>1. container \in [DOMAIN Listing -> Run \cup {NoRun}] /\ k \in DOMAIN Listing
    BY <1>0 DEF TypeOK, Runnings
  <2> QED
    BY <1>1, <2>1
<1>5. Runnings' = Runnings \ {k}
  BY <1>4 DEF Runnings
<1>6. ASSUME NEW l \in Runnings'
      PROVE  /\ l \in Runnings /\ container'[l] = container[l]
             /\ Renamed(l)' = Renamed(l) /\ Current(l)' = Current(l)
  <2>1. l \in Runnings /\ container'[l] = container[l]
    BY <1>4, <1>5, <1>6 DEF Runnings
  <2> QED
    BY <1>4, <2>1 DEF Renamed, Current
<1>7. TypeOK'
  BY <1>0, <1>1, <1>3, <1>4 DEF TypeOK
<1>8. Running'
  BY <1>0, <1>1, <1>6 DEF Running
<1>9. Registered'
  BY <1>0, <1>1, <1>6 DEF Registered
<1>10. NotAgain'
  BY <1>0, <1>1, <1>6 DEF NotAgain
<1>11. NoOsdToDo' /\ UserDataKept' /\ TrueLabels'
  BY <1>0, <1>1 DEF NoOsdToDo, UserDataKept, TrueLabels
<1>12. Harmless'
  BY <1>0, <1>1, <1>3, <1>6 DEF Harmless, InPlay
<1>13. Apart'
  BY <1>0, <1>1, <1>3 DEF Apart, InPlay
<1>14. aborts = 0 => play = "wait" /\ n = k /\ Runnings' = {}
  BY <1>0, <1>5 DEF Alone
<1>15. Alone'
  BY <1>1, <1>14 DEF Alone
<1>16. Untouched'
  <2> SUFFICES ASSUME ~WipeConfirmed, aborts = 0, NEW c \in complete,
                      NEW j \in DOMAIN items, j >= n'
               PROVE  PartsOf(c.item) \cap Reach(items[j]) \cap Counted = {}
    BY <1>1 DEF Untouched
  <2>1. n' = n + 1 /\ InPlay
    BY <1>2, <1>14 DEF InPlay
  <2>2. j \in Nat
    BY <1>0 DEF TypeOK
  <2>3. j >= n /\ j # n
    BY <1>3, <2>1, <2>2
  <2> QED
    BY <1>0, <2>1, <2>3 DEF Untouched
<1>17. FactsHold'
  BY <1>0, <1>1, <1>2 DEF FactsHold, Exists
<1> QED
  BY <1>7, <1>8, <1>9, <1>10, <1>11, <1>12, <1>13, <1>15, <1>16, <1>17 DEF OInv

(* A container does a command of its script, or it is gone. *)
LEMMA ContainerDoes ==
    ASSUME OInv, NEW k \in DOMAIN container, Container(k)
    PROVE  \/ k \in DOMAIN Listing /\ Effect(k) /\ DiskTypes'
           \/ /\ k \in Runnings
              /\ Exit(k, TRUE) \/ Exit(k, FALSE)
              /\ crush' \subseteq DOMAIN osdmap /\ failures' \in Nat
<1>0. TypeOK /\ Running /\ Registered /\ k \in DOMAIN Listing /\ crush \subseteq DOMAIN osdmap
      /\ failures \in Nat
  BY DEF OInv, TypeOK
<1>1. CASE ZapDisk(k)
  BY <1>0, <1>1, ZapEffect
<1>2. CASE DivideDisk(k)
  BY <1>0, <1>2, DivideEffect
<1>3. CASE ClearPart(k)
  BY <1>0, <1>3, ClearEffect
<1>4. CASE NewOsd(k)
  BY <1>0, <1>4, NewEffect
<1>5. CASE FormatPart(k)
  BY <1>0, <1>5, FormatEffect
<1>6. CASE RenamePart(k)
  BY <1>0, <1>6, RenameEffect
<1>7. CASE MkfsOsd(k)
  BY <1>0, <1>7, MkfsEffect
<1>8. CASE AddCrush(k)
  <2>1. k \in Runnings /\ Current(k).op = "crush" /\ Exit(k, TRUE)
        /\ crush' = crush \cup {container[k].id} /\ failures' = failures
    BY <1>0, <1>8 DEF AddCrush, Runs, Runnings
  <2>2. container[k].id \in DOMAIN osdmap
    BY <1>0, <2>1 DEF Registered, Rank
  <2> QED
    BY <1>0, <2>1, <2>2
<1>9. CASE ScriptFails(k)
  <2>1. failures' = failures + 1 /\ crush' = crush
    BY <1>9 DEF ScriptFails
  <2>2. failures' \in Nat
    BY <1>0, <2>1
  <2>3. k \in Runnings /\ Exit(k, FALSE)
    BY <1>0, <1>9 DEF ScriptFails, Runnings
  <2> QED
    BY <1>0, <2>1, <2>2, <2>3
<1>10. CASE PartMissing(k)
  <2>1. k \in Runnings /\ Exit(k, FALSE) /\ crush' = crush /\ failures' = failures
    BY <1>0, <1>10 DEF PartMissing, Runnings
  <2> QED
    BY <1>0, <2>1
<1> QED
  BY <1>1, <1>2, <1>3, <1>4, <1>5, <1>6, <1>7, <1>8, <1>9, <1>10 DEF Container

LEMMA ContainerKeeps ==
    ASSUME OInv, NEW k \in DOMAIN container, Container(k)
    PROVE  OInv'
<1>1. CASE k \in DOMAIN Listing /\ Effect(k) /\ DiskTypes'
  BY <1>1, EffectKeeps
<1>2. CASE /\ k \in Runnings
           /\ Exit(k, TRUE) \/ Exit(k, FALSE)
           /\ crush' \subseteq DOMAIN osdmap /\ failures' \in Nat
  BY <1>2, ExitKeeps
<1> QED
  BY <1>1, <1>2, ContainerDoes

-----------------------------------------------------------------------------
(* The play                                                                  *)

(* What the items of a lookup reach on the disks that setup reports, if nobody  *)
(* had to be asked: partitions with the label looked for, and partitions that  *)
(* setup did not see.                                                       *)
LEMMA ReachIs ==
    ASSUME Labelled, facts \subseteq Parts, NEW s, Found(s, "bootstrap"), NEW j \in DOMAIN s,
           ~Asks(s[j]), NEW p \in Reach(s[j]), p \in Counted,
           s[j].osd \in Counted => s[j].osd \in facts
    PROVE  p \notin facts \/ (p \in Taken(s[j]) /\ label[p].stage = "bootstrap")
<1>1. s[j] \in Item /\ s[j].osd \in Parts
  BY DEF Found, Sound, Item
<1>2. s[j].osd \in Taken(s[j])
  BY <1>1, ListingIs DEF Taken, UsedUp
<1>3. \A q \in Taken(s[j]) : q \in Parts /\ label[q].stage = "bootstrap"
  BY DEF Found
<1>4. CASE p \in Taken(s[j])
  BY <1>3, <1>4
<1>5. CASE p \notin Taken(s[j])
  <2>1. ~s[j].external /\ p \in OnDisk(DiskOf[s[j].osd]) /\ p # s[j].osd
    BY <1>2, <1>5 DEF Reach
  <2>2. s[j].osd \in Counted
    BY <1>1, <2>1 DEF OnDisk, Counted
  <2> QED
    BY <1>1, <2>1, <2>2, NobodyElse
<1> QED
  BY <1>4, <1>5

(* If setup saw all there is, two items of such a lookup reach different         *)
(* partitions.  If they took the same disk, the OSD partition of one were a     *)
(* second one on the disk of the other.                                      *)
LEMMA ReachApart ==
    ASSUME Labelled, facts \subseteq Parts, \A q \in Counted : Exists(q) => q \in facts,
           NEW s, Found(s, "bootstrap"), NEW i \in DOMAIN s, NEW j \in DOMAIN s, i # j,
           ~Asks(s[i]), ~Asks(s[j])
    PROVE  Reach(s[i]) \cap Reach(s[j]) \cap Counted = {}
<1> SUFFICES ASSUME NEW p \in Reach(s[i]), p \in Reach(s[j]), p \in Counted PROVE FALSE
  OBVIOUS
<1>1. \A k \in DOMAIN s : /\ s[k] \in Item /\ s[k].osd \in Parts /\ s[k].osd \in Taken(s[k])
                          /\ \A q \in Taken(s[k]) : q \in Parts /\ label[q].stage = "bootstrap"
                          /\ s[k].osd \in Counted => s[k].osd \in facts
  <2> TAKE k \in DOMAIN s
  <2>1. s[k] \in Item /\ s[k].osd \in Parts
    BY DEF Found, Sound, Item
  <2>2. s[k].osd \in Taken(s[k])
    BY <2>1, ListingIs DEF Taken, UsedUp
  <2>3. \A q \in Taken(s[k]) : q \in Parts /\ label[q].stage = "bootstrap"
    BY DEF Found
  <2>4. Exists(s[k].osd)
    BY <2>2, <2>3 DEF Exists
  <2> QED
    BY <2>1, <2>2, <2>3, <2>4
<1>2. Taken(s[i]) \cap Taken(s[j]) = {}
  BY DEF Found
<1>3. p \notin facts
  BY <1>1, <1>2, ReachIs
<1>4. ~Exists(p)
  BY <1>3
<1>5. p \notin Taken(s[i]) /\ p \notin Taken(s[j])
  BY <1>1, <1>4 DEF Exists
<1>6. /\ ~s[i].external /\ p \in OnDisk(DiskOf[s[i].osd])
      /\ ~s[j].external /\ p \in OnDisk(DiskOf[s[j].osd])
  BY <1>5 DEF Reach
<1>7. /\ s[j].osd \in OnDisk(DiskOf[s[i].osd]) /\ s[j].osd # s[i].osd
      /\ s[i].osd \in Counted /\ s[j].osd \in Counted
  BY <1>1, <1>2, <1>6 DEF OnDisk, Counted
<1>8. s[j].osd \notin facts
  BY <1>1, <1>6, <1>7, NobodyElse
<1> QED
  BY <1>1, <1>7, <1>8

LEMMA LookupKeeps ==
    ASSUME OInv, Lookup
    PROVE  OInv'
<1>0. /\ TypeOK /\ Running /\ Registered /\ NotAgain /\ NoOsdToDo
      /\ UserDataKept /\ Harmless /\ FactsHold /\ Apart /\ Alone /\ Untouched /\ TrueLabels
  BY DEF OInv
<1>1. /\ UNCHANGED <<layout, label, uuid, uuids, holds, osdmap, crush, complete, container,
                     facts, failures, aborts>>
      /\ items' = Combine("bootstrap") /\ n' = 1 /\ failed' = FALSE
      /\ play = "facts"
      /\ play' \in {"aborted", "loop"}
  BY DEF Lookup, diskVars, cephVars
<1>2. play' = "loop" => WipeConfirmed \/ \A j \in DOMAIN items' : ~Asks(items'[j])
  BY DEF Lookup
<1>3. Labelled /\ facts \subseteq Parts
  BY <1>0 DEF TypeOK, Labelled
<1>4. Found(items', "bootstrap") /\ Len(items') <= Len(Listing)
  BY <1>1, <1>3, CombineFound
<1>5. InPlay' => play' = "loop"
  BY <1>1 DEF InPlay
<1>6. Runnings' = Runnings
  BY <1>1 DEF Runnings
<1>7. ASSUME NEW k PROVE Renamed(k)' = Renamed(k) /\ Current(k)' = Current(k)
  BY <1>1 DEF Renamed, Current
<1>8. TypeOK'
  <2>1. items' \in Seq(Item)
    BY <1>4 DEF Found
  <2>2. play' \in PlayStates
    BY <1>1 DEF PlayStates
  <2>3. n' \in Nat \ {0}
    BY <1>1
  <2>4. failed' \in BOOLEAN
    BY <1>1, Zenon
  <2> QED
    BY <1>0, <1>1, <2>1, <2>2, <2>3, <2>4 DEF TypeOK
<1>9. Running'
  BY <1>0, <1>1, <1>4, <1>6 DEF Running, Found
<1>10. Registered' /\ NotAgain'
  BY <1>0, <1>1, <1>6, <1>7 DEF Registered, NotAgain
<1>11. NoOsdToDo' /\ UserDataKept' /\ TrueLabels'
  BY <1>0, <1>1 DEF NoOsdToDo, UserDataKept, TrueLabels
<1>12. \A j \in DOMAIN items' : /\ items'[j].osd \in Parts
                               /\ items'[j].osd \in Taken(items'[j])
                               /\ Exists(items'[j].osd)
  <2> TAKE j \in DOMAIN items'
  <2>1. items'[j].osd \in Parts
    BY <1>4 DEF Found, Sound, Item
  <2>2. items'[j].osd \in Taken(items'[j])
    BY <2>1, ListingIs DEF Taken, UsedUp
  <2> QED
    BY <1>4, <2>1, <2>2 DEF Found, Exists
<1>13. Harmless'
  <2>1. ASSUME ~WipeConfirmed, InPlay', NEW j \in DOMAIN items',
               NEW p \in Reach(items'[j]), p \in Counted, layout[p] = Plain
        PROVE  FALSE
    <3>1. label[p] = Plain /\ Exists(p) /\ label[p].stage # "bootstrap"
      BY <1>0, <2>1, LabelConstants DEF UserDataKept, Counted, Exists
    <3>2. p \in facts
      BY <1>0, <1>1, <2>1, <3>1 DEF FactsHold, OnDisk, Counted
    <3>3. p \notin Taken(items'[j])
      BY <1>4, <3>1 DEF Found
    <3>4. p \in OnDisk(DiskOf[items'[j].osd])
      BY <2>1, <3>3 DEF Reach
    <3>5. items'[j].osd \in facts
      BY <1>0, <1>1, <1>12, <2>1, <3>4 DEF FactsHold, OnDisk, Counted
    <3>6. ~Asks(items'[j])
      BY <1>2, <1>5, <2>1
    <3> QED
      BY <1>3, <1>4, <2>1, <3>2, <3>3, <3>5, <3>6, ReachIs
  <2> QED
    BY <1>0, <1>1, <1>6, <2>1 DEF Harmless
<1>14. ~WipeConfirmed /\ aborts = 0 => \A q \in Counted : Exists(q) => q \in facts
  BY <1>0, <1>1 DEF FactsHold
<1>15. Apart'
  <2> SUFFICES ASSUME ~WipeConfirmed, aborts = 0, InPlay', NEW i \in DOMAIN items',
                      NEW j \in DOMAIN items', i # j
               PROVE  Reach(items'[i]) \cap Reach(items'[j]) \cap Counted = {}
    BY <1>1 DEF Apart
  <2>1. ~Asks(items'[i]) /\ ~Asks(items'[j])
    BY <1>2, <1>5
  <2> QED
    BY <1>3, <1>4, <1>14, <2>1, ReachApart
<1>16. Alone'
  BY <1>0, <1>1, <1>6 DEF Alone
<1>17. Untouched'
  <2> SUFFICES ASSUME ~WipeConfirmed, aborts = 0, InPlay', NEW c \in complete,
                      NEW j \in DOMAIN items'
               PROVE  PartsOf(c.item) \cap Reach(items'[j]) \cap Counted = {}
    BY <1>1 DEF Untouched
  <2> SUFFICES ASSUME NEW p \in PartsOf(c.item), p \in Reach(items'[j]), p \in Counted
               PROVE  FALSE
    OBVIOUS
  <2>1. ~Asks(items'[j])
    BY <1>2, <1>5
  <2>2. label[p].stage = "data"
    BY <1>0 DEF TrueLabels
  <2>3. p \in facts
    BY <1>14, <2>2 DEF Exists
  <2>4. items'[j].osd \in Counted => items'[j].osd \in facts
    BY <1>12, <1>14
  <2>5. label[p].stage = "bootstrap"
    BY <1>3, <1>4, <2>1, <2>3, <2>4, ReachIs
  <2> QED
    BY <2>2, <2>5
<1>18. FactsHold'
  BY <1>1 DEF FactsHold
<1> QED
  BY <1>8, <1>9, <1>10, <1>11, <1>13, <1>15, <1>16, <1>17, <1>18 DEF OInv

(* The first command of a script is not behind `ceph osd new`. *)
LEMMA FirstCommand ==
    ASSUME NEW item, Sound(item)
    PROVE  /\ Script(item) \in Seq(Commands) /\ 1 \in DOMAIN Script(item)
           /\ ~(Rank(Script(item)[1]) > 4)
<1> DEFINE S == Script(item)
<1>1. S \in Seq(Commands) /\ InOrder(S) /\ 1 \in DOMAIN S
  BY ScriptShape DEF Within
<1>2. PICK j \in DOMAIN S : S[j].op = "new"
  BY ScriptShape
<1>3. Rank(S[j]) = 4
  BY <1>2 DEF Rank
<1> HIDE DEF S
<1>4. j \in Nat /\ 1 <= j /\ Rank(S[1]) \in Int
  BY <1>1, <1>2, RankType
<1>5. CASE j = 1
  BY <1>1, <1>3, <1>5 DEF S
<1>6. CASE 1 < j
  <2>1. Rank(S[1]) <= Rank(S[j])
    BY <1>1, <1>2, <1>6 DEF InOrder
  <2> QED
    BY <1>1, <1>3, <1>4, <2>1 DEF S
<1> QED
  BY <1>4, <1>5, <1>6

LEMMA StartKeeps ==
    ASSUME OInv, StartContainer
    PROVE  OInv'
<1>0. /\ TypeOK /\ Running /\ Registered /\ NotAgain /\ NoOsdToDo
      /\ UserDataKept /\ Harmless /\ FactsHold /\ Apart /\ Alone /\ Untouched /\ TrueLabels
  BY DEF OInv
<1> DEFINE it == items[n]
           r == [item |-> it, step |-> 1, uuid |-> it.uuid, id |-> 0]
<1>1. /\ UNCHANGED <<layout, label, uuid, uuids, holds, osdmap, crush, complete, facts, items, n,
                     failed, failures, aborts>>
      /\ play = "loop" /\ play' = "wait" /\ n <= Len(items)
      /\ container' = [container EXCEPT ![n] = r]
  BY DEF StartContainer, diskVars, cephVars
<1>2. /\ container \in [DOMAIN Listing -> Run \cup {NoRun}]
      /\ items \in Seq(Item) /\ n \in Nat \ {0} /\ Len(items) \in Nat
  BY <1>0 DEF TypeOK
<1>3. n \in DOMAIN items /\ n \in DOMAIN Listing /\ Sound(it)
  BY <1>0, <1>1, <1>2, ListingIs DEF Running
<1>4. r \in Run /\ r.item = it /\ r.step = 1
  <2>1. it \in Item /\ it.uuid \in Nat
    BY <1>3 DEF Sound, Item
  <2> QED
    BY <2>1 DEF Run
<1> HIDE DEF r
<1>5. /\ container' \in [DOMAIN Listing -> Run \cup {NoRun}] /\ container'[n] = r
      /\ \A l \in DOMAIN Listing : l # n => container'[l] = container[l]
  BY <1>1, <1>2, <1>3, <1>4
<1>6. Runnings' = Runnings \cup {n}
  BY <1>3, <1>4, <1>5, RunIsSome DEF Runnings
<1>7. ASSUME NEW l \in Runnings', l # n
      PROVE  /\ l \in Runnings /\ container'[l] = container[l]
             /\ Renamed(l)' = Renamed(l) /\ Current(l)' = Current(l)
  <2>1. l \in Runnings /\ container'[l] = container[l]
    BY <1>5, <1>6, <1>7 DEF Runnings
  <2> QED
    BY <2>1 DEF Renamed, Current
<1>8. Renamed(n)' = {} /\ Current(n)' = Script(it)[1]
  <2>1. Current(n)' = Script(it)[1]
    BY <1>1, <1>4, <1>5 DEF Current
  <2>2. \A j \in DOMAIN Script(it) : ~(j < 1)
    BY <1>3, FirstCommand
  <2>3. Renamed(n)' = {}
    BY <1>1, <1>4, <1>5, <2>2 DEF Renamed
  <2> QED
    BY <2>1, <2>3
<1>9. TypeOK'
  BY <1>0, <1>1, <1>5 DEF TypeOK, PlayStates
<1>10. Running'
  <2>1. 1 \in DOMAIN Script(it)
    BY <1>3, FirstCommand
  <2>2. ASSUME NEW l \in Runnings'
        PROVE  Sound(container'[l].item) /\ container'[l].step \in DOMAIN Script(container'[l].item)
    <3>1. CASE l = n
      BY <1>3, <1>4, <1>5, <2>1, <3>1
    <3>2. CASE l # n
      BY <1>0, <1>7, <2>2, <3>2 DEF Running
    <3> QED
      BY <3>1, <3>2
  <2> QED
    BY <1>0, <1>1, <2>2 DEF Running
<1>11. Registered'
  <2> SUFFICES ASSUME NEW l \in Runnings', Rank(Current(l)') > 4
               PROVE  container'[l].id \in DOMAIN osdmap
    BY <1>1 DEF Registered
  <2>1. ASSUME l = n PROVE Current(l)' = Script(it)[1]
    BY <1>1, <1>8, <2>1 DEF Current
  <2>2. l # n
    BY <1>3, <2>1, FirstCommand
  <2> QED
    BY <1>0, <1>7, <2>2 DEF Registered
<1>12. NotAgain'
  <2> SUFFICES ASSUME NEW l \in Runnings', NEW p \in Renamed(l)'
               PROVE  label[p].stage # "bootstrap"
    BY <1>1 DEF NotAgain
  <2>1. l # n
    BY <1>1, <1>8 DEF Renamed
  <2> QED
    BY <1>0, <1>7, <2>1 DEF NotAgain
<1>13. NoOsdToDo' /\ UserDataKept' /\ TrueLabels'
  BY <1>0, <1>1 DEF NoOsdToDo, UserDataKept, TrueLabels
<1>14. InPlay
  BY <1>1 DEF InPlay
<1>15. Harmless'
  <2>1. ASSUME ~WipeConfirmed, NEW l \in Runnings', NEW p \in Reach(container'[l].item) \cap Counted
        PROVE  layout[p] # Plain
    <3>1. CASE l = n
      BY <1>0, <1>3, <1>4, <1>5, <1>14, <2>1, <3>1 DEF Harmless
    <3>2. CASE l # n
      BY <1>0, <1>7, <2>1, <3>2 DEF Harmless
    <3> QED
      BY <3>1, <3>2
  <2> QED
    BY <1>0, <1>1, <1>14, <2>1 DEF Harmless
<1>16. Apart'
  BY <1>0, <1>1, <1>14 DEF Apart
<1>17. aborts = 0 => Runnings = {}
  BY <1>0, <1>1 DEF Alone
<1>18. Alone'
  BY <1>1, <1>3, <1>4, <1>5, <1>6, <1>8, <1>17 DEF Alone
<1>19. Untouched'
  <2> SUFFICES ASSUME ~WipeConfirmed, aborts = 0, NEW c \in complete,
                      NEW j \in DOMAIN items, j >= n
               PROVE  PartsOf(c.item) \cap Reach(items[j]) \cap Counted = {}
    BY <1>1 DEF Untouched
  <2> QED
    BY <1>0, <1>14, <1>17 DEF Untouched
<1>20. FactsHold'
  BY <1>1 DEF FactsHold
<1> QED
  BY <1>9, <1>10, <1>11, <1>12, <1>13, <1>15, <1>16, <1>18, <1>19, <1>20 DEF OInv

(* The play leaves the loop, or nothing happens. *)
LEMMA StillKeeps ==
    ASSUME OInv,
           UNCHANGED <<layout, label, uuid, uuids, holds, osdmap, crush, complete, container,
                       items, n, failed, failures>>,
           facts' \subseteq Parts, FactsHold',
           aborts' \in Nat, play' \in PlayStates,
           \/ play' = play /\ aborts' = aborts
           \/ /\ play' \notin {"loop", "wait"}
              /\ aborts' # 0 \/ (aborts' = aborts /\ play # "wait")
    PROVE  OInv'
<1>0. /\ TypeOK /\ Running /\ Registered /\ NotAgain /\ NoOsdToDo
      /\ UserDataKept /\ Harmless /\ FactsHold /\ Apart /\ Alone /\ Untouched /\ TrueLabels
  BY DEF OInv
<1>1. InPlay' => InPlay /\ play' = play /\ aborts' = aborts
  BY DEF InPlay
<1>2. Runnings' = Runnings
  BY DEF Runnings
<1>3. \A k : Renamed(k)' = Renamed(k) /\ Current(k)' = Current(k)
  BY DEF Renamed, Current
<1>4. aborts' = 0 => aborts = 0 /\ (play' = play \/ Runnings = {})
  BY <1>0, <1>2 DEF Alone
<1>5. TypeOK'
  BY <1>0 DEF TypeOK
<1>6. Running'
  BY <1>0, <1>2 DEF Running
<1>7. Registered' /\ NotAgain'
  BY <1>0, <1>2, <1>3 DEF Registered, NotAgain
<1>8. NoOsdToDo' /\ UserDataKept'
  BY <1>0 DEF NoOsdToDo, UserDataKept
<1>9. TrueLabels'
  BY <1>0, <1>4 DEF TrueLabels
<1>10. Harmless'
  BY <1>0, <1>1, <1>2 DEF Harmless
<1>11. Apart'
  BY <1>0, <1>1 DEF Apart
<1>12. Alone'
  BY <1>0, <1>2, <1>3, <1>4 DEF Alone
<1>13. Untouched'
  BY <1>0, <1>1, <1>2, <1>3 DEF Untouched
<1> QED
  BY <1>5, <1>6, <1>7, <1>8, <1>9, <1>10, <1>11, <1>12, <1>13, FactsHold' DEF OInv

-----------------------------------------------------------------------------
(* The theorems                                                              *)

LEMMA InitOInv == Init => OInv
<1> HAVE Init
<1>1. TypeOK
  <2>1. label = layout /\ layout \in Layouts /\ layout \in [Parts -> Label]
    BY BootstrapAssumption DEF Init, BootstrapAssumption
  <2>2. uuid \in [Parts -> Nat]
    <3>1. ASSUME NEW p \in Parts PROVE (CHOOSE k \in DOMAIN Listing : Listing[k] = p) \in Nat
      <4>1. \E k \in DOMAIN Listing : Listing[k] = p
        BY BootstrapAssumption DEF BootstrapAssumption
      <4> QED
        BY <4>1, ListingIs
    <3> QED
      BY <3>1 DEF Init
  <2>3. uuids \in Nat
    BY FiniteParts DEF Init
  <2>4. holds \in [Parts -> [kind : {"blank", "user", "fs", "lvm", "osd"}, id : Nat]]
    BY LabelConstants DEF Init
  <2>5. /\ osdmap = <<>> /\ crush = {} /\ complete = {} /\ items = <<>> /\ n = 1
        /\ failed = FALSE /\ failures = 0 /\ aborts = 0 /\ play = "idle" /\ facts = {}
        /\ container = [k \in DOMAIN Listing |-> NoRun]
    BY DEF Init
  <2>6. play \in PlayStates /\ n \in Nat \ {0} /\ failures \in Nat /\ aborts \in Nat
        /\ osdmap \in Seq(Nat) /\ items \in Seq(Item)
    BY <2>5 DEF PlayStates
  <2>7. failed \in BOOLEAN
    BY <2>5, Zenon
  <2> QED
    BY <2>1, <2>2, <2>3, <2>4, <2>5, <2>6, <2>7 DEF TypeOK
<1>2. Runnings = {} /\ complete = {} /\ items = <<>> /\ label = layout
  BY DEF Runnings, Init
<1>3. \A p \in Parts : holds[p] = IF layout[p] = Plain THEN UserData ELSE Blank
  BY DEF Init
<1>4. NoOsdToDo /\ UserDataKept
  BY <1>2, <1>3 DEF NoOsdToDo, UserDataKept, UserData, Blank
<1>5. Running /\ Registered /\ NotAgain /\ Harmless /\ Apart
  BY <1>2, ListingIs DEF Running, Registered, NotAgain, Harmless, Apart
<1>6. Alone /\ Untouched /\ TrueLabels /\ FactsHold
  BY <1>2 DEF Alone, Untouched, TrueLabels, FactsHold, Init
<1> QED
  BY <1>1, <1>4, <1>5, <1>6 DEF OInv

LEMMA NextOInv == OInv /\ [Next]_vars => OInv'
<1> SUFFICES ASSUME OInv, [Next]_vars PROVE OInv'
  OBVIOUS
<1>0. /\ aborts \in Nat /\ MaxAborts \in Nat /\ play \in PlayStates
      /\ facts \subseteq Parts /\ FactsHold
  BY BootstrapAssumption DEF OInv, TypeOK, BootstrapAssumption
<1>1. CASE Lookup
  BY <1>1, LookupKeeps
<1>2. CASE StartContainer
  BY <1>2, StartKeeps
<1>3. CASE LoopDone
  <2>1. /\ UNCHANGED <<layout, label, uuid, uuids, holds, osdmap, crush, complete, container,
                       facts, items, n, failed, failures>>
        /\ aborts' = aborts /\ play = "loop" /\ play' \in {"failed", "prepare"}
    BY <1>3 DEF LoopDone, diskVars, cephVars
  <2>2. FactsHold'
    BY <2>1 DEF FactsHold
  <2> QED
    BY <1>0, <2>1, <2>2, StillKeeps DEF PlayStates
<1>4. CASE PrepareOsds
  <2>1. /\ UNCHANGED <<layout, label, uuid, uuids, holds, osdmap, crush, complete, container,
                       facts, items, n, failed, failures>>
        /\ aborts' = aborts /\ play = "prepare" /\ play' \in {"ok", "failed"}
    BY <1>4 DEF PrepareOsds, diskVars, cephVars
  <2>2. FactsHold'
    BY <2>1 DEF FactsHold
  <2> QED
    BY <1>0, <2>1, <2>2, StillKeeps DEF PlayStates
<1>5. CASE Abort
  <2>1. /\ UNCHANGED <<layout, label, uuid, uuids, holds, osdmap, crush, complete, container,
                       facts, items, n, failed, failures>>
        /\ aborts' = aborts + 1 /\ play' = "aborted"
    BY <1>5 DEF Abort, diskVars, cephVars
  <2>2. aborts' \in Nat /\ aborts' # 0 /\ play' \in PlayStates
    BY <1>0, <2>1 DEF PlayStates
  <2>3. FactsHold'
    BY <2>1 DEF FactsHold
  <2> QED
    BY <1>0, <2>1, <2>2, <2>3, StillKeeps
<1>6. CASE \E k \in DOMAIN container : Container(k)
  BY <1>6, ContainerKeeps
<1>7. CASE UNCHANGED vars
  <2>1. /\ UNCHANGED <<layout, label, uuid, uuids, holds, osdmap, crush, complete, container,
                       facts, items, n, failed, failures>>
        /\ aborts' = aborts /\ play' = play
    BY <1>7 DEF vars, diskVars, cephVars, playVars
  <2>2. FactsHold'
    BY <1>0, <2>1 DEF FactsHold, Exists
  <2> QED
    BY <1>0, <2>1, <2>2, StillKeeps
<1>8. CASE GatherFacts
  <2>1. /\ UNCHANGED <<layout, label, uuid, uuids, holds, osdmap, crush, complete, container,
                       items, n, failed, failures>>
        /\ aborts' = aborts /\ play' = "facts"
        /\ play \in {"idle", "ok", "failed", "aborted"}
        /\ facts' = {p \in Parts : Exists(p) /\ DiskOf[p] \in InFacts}
    BY <1>8 DEF GatherFacts, diskVars, cephVars
  <2>2. FactsHold' /\ facts' \subseteq Parts
    BY <2>1 DEF FactsHold, Exists, Counted
  <2> QED
    BY <1>0, <2>1, <2>2, StillKeeps DEF PlayStates
<1> QED
  BY <1>1, <1>2, <1>3, <1>4, <1>5, <1>6, <1>7, <1>8 DEF Next, Play

LEMMA Invariant == Spec => []OInv
<1>1. Init => OInv
  BY InitOInv
<1>2. OInv /\ [Next]_vars => OInv'
  BY NextOInv
<1> QED
  BY <1>1, <1>2, PTL DEF Spec

(* Whatever the labels, the order of udev and the failures, every variable      *)
(* keeps its type: a lookup yields only items that can be had, and ids come     *)
(* from ceph.                                                               *)
THEOREM TypeCorrect == Spec => []TypeOK
<1>1. OInv => TypeOK
  BY DEF OInv
<1> QED
  BY <1>1, Invariant, PTL

(* Unless the operator agreed to wipe a disk, what was on a partition without   *)
(* one of kolla's labels, on a disk that setup reports, is still there, and so  *)
(* is its name, on any number of disks, after any number of plays aborted and   *)
(* of scripts that failed, although the play counts the partitions before it   *)
(* looks for labels and a container of an aborted play may divide disks in      *)
(* between.                                                                 *)
THEOREM DataKept == Spec => []UserDataKept
<1>1. OInv => UserDataKept
  BY DEF OInv
<1> QED
  BY <1>1, Invariant, PTL

(* The labels, which are all that the next run knows, are true: "to do" never   *)
(* marks a partition of a finished OSD, and, if no play was aborted and nobody  *)
(* agreed to a wipe, all partitions of a finished OSD on disks that setup      *)
(* reports have its id.                                                     *)
THEOREM LabelsTrue == Spec => []LabelsTellTheTruth
<1>1. OInv => LabelsTellTheTruth
  <2>1. ASSUME OInv, NEW c \in complete PROVE PartsOf(c.item) \subseteq Parts
    BY <2>1, PartsOfType DEF OInv, TypeOK
  <2> QED
    BY <2>1 DEF OInv, NoOsdToDo, TrueLabels, LabelsTellTheTruth, Counted
<1> QED
  BY <1>1, Invariant, PTL

(* If no play was aborted and nobody agreed to a wipe, no step of any container  *)
(* or play changes what is stored on the partitions of a finished OSD on disks  *)
(* that setup reports, or their labels.                                      *)
THEOREM Finished == Spec => CompleteKept
<1> DEFINE Kept == ~WipeConfirmed /\ aborts = 0 =>
                       \A c \in complete : \A p \in PartsOf(c.item) :
                           DiskOf[p] \in InFacts =>
                               holds'[p] = holds[p] /\ label'[p] = label[p]
<1>1. OInv /\ [Next]_vars => [Kept]_vars
  <2> SUFFICES ASSUME OInv, Next, ~WipeConfirmed, aborts = 0,
                      NEW c \in complete, NEW p \in PartsOf(c.item), DiskOf[p] \in InFacts
               PROVE  holds'[p] = holds[p] /\ label'[p] = label[p]
    OBVIOUS
  <2>1. CASE Play
    BY <2>1 DEF Play, GatherFacts, Lookup, StartContainer, LoopDone, PrepareOsds, Abort, diskVars
  <2>2. ASSUME NEW k \in DOMAIN container, Container(k)
        PROVE  holds'[p] = holds[p] /\ label'[p] = label[p]
    <3>1. CASE k \in DOMAIN Listing /\ Effect(k)
      <4>1. k \in Runnings /\ Current(k).op # "crush"
        BY <3>1 DEF Effect
      <4>3. c.item \in Item
        BY DEF OInv, TypeOK
      <4>4. p \in Parts
        BY <4>3, PartsOfType
      <4>2. p \notin Reach(container[k].item)
        BY <4>1, <4>4, OutOfReach DEF Counted
      <4> QED
        BY <3>1, <4>2, <4>4 DEF Effect
    <3>2. CASE Exit(k, TRUE) \/ Exit(k, FALSE)
      BY <3>2 DEF Exit, diskVars
    <3> QED
      BY <2>2, <3>1, <3>2, ContainerDoes
  <2> QED
    BY <2>1, <2>2 DEF Next
<1> HIDE DEF Kept
<1>2. Spec => [][Kept]_vars
  BY <1>1, Invariant, PTL DEF Spec
<1> QED
  BY <1>2 DEF Kept, CompleteKept
=============================================================================
