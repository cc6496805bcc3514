---------------------------- MODULE MergeConfigs ----------------------------
(***************************************************************************)
(* The merge of ini files by the merge_configs action plugin.               *)
(*                                                                         *)
(* A file is a sequence of lines, a header <<s>> or an assignment <<k, v>>;    *)
(* Null is a file that is not there.  What a file says is the order of its    *)
(* sections and, for every section, a function from keys to the sequence of   *)
(* values given to it.  The order of the keys of a section is layout.         *)
(***************************************************************************)
EXTENDS Naturals, SequencesExt

CONSTANTS
    Null,    \* no file
    Orphan   \* the name of the section without a name, which no header has

(* f, and g where f says nothing.                                             *)
Over(f, g) == [x \in DOMAIN f \cup DOMAIN g |-> IF x \in DOMAIN f THEN f[x] ELSE g[x]]
Put(x, v, f) == Over([y \in {x} |-> v], f)

Nothing == [order |-> <<>>, of |-> <<>>, cur |-> Orphan]

Said(c, s) == IF s \in DOMAIN c.of THEN c.of[s] ELSE <<>>

(* c with section as what it says of s; s is then the current section.         *)
With(c, s, section) ==
    [order |-> IF s \in DOMAIN c.of THEN c.order ELSE Append(c.order, s),
     of |-> Put(s, section, c.of),
     cur |-> s]

(* new_section: the same header again continues the section.                  *)
NewSection(c, s) == With(c, s, Said(c, s))

(* assignment: a key given again in the same file gets one more value; keys    *)
(* before the first header belong to a section without a name.                *)
Assignment(c, k, v) ==
    LET section == Said(c, c.cur)
        values == IF k \in DOMAIN section THEN Append(section[k], v) ELSE <<v>>
    IN  With(c, c.cur, Put(k, values, section))

Line(c, line) == IF Len(line) = 1 THEN NewSection(c, line[1]) ELSE Assignment(c, line[1], line[2])

(* What has been read when file is read to its end, after c.                   *)
Reads(c, file) ==
    LET after[i \in 0 .. Len(file)] ==
            IF i = 0 THEN c ELSE Line(after[i - 1], file[i])
    IN  after[Len(file)]

Parse(file) == Reads(Nothing, file)

(* What new says of a key of section s replaces what c says of it.             *)
Override_Keeps(c, new, s) == With(c, s, Over(Said(c, s), new.of[s]))
Override(c, new, s) == With(c, s, Over(new.of[s], Said(c, s)))

(* The end of parse, section by section.                                      *)
Parsed(c, file) ==
    LET new == Parse(file)
        after[i \in 0 .. Len(new.order)] ==
            IF i = 0 THEN c ELSE Override(after[i - 1], new, new.order[i])
    IN  after[Len(new.order)]

ReadConfig(c, file) == IF file = Null THEN c ELSE Parsed(c, file)

(* write: the section without a name has no header, wherever it stands.        *)
Assignments(c, s, k) == [i \in DOMAIN c.of[s][k] |-> <<k, c.of[s][k][i]>>]
WriteSection(c, s) ==
    LET keys == SetToSeq(DOMAIN c.of[s])
    IN (IF s = Orphan THEN <<>> ELSE << <<s>> >>)
       \o FlattenSeq([i \in DOMAIN keys |-> Assignments(c, s, keys[i])])

Write(c) == FlattenSeq([i \in DOMAIN c.order |-> WriteSection(c, c.order[i])])

Merge(sources) ==
    LET after[i \in 0 .. Len(sources)] ==
            IF i = 0 THEN Nothing ELSE ReadConfig(after[i - 1], sources[i])
    IN  Write(after[Len(sources)])

-----------------------------------------------------------------------------
(* What can be read: headers and assignments, one after the other.             *)
IsFile(file) ==
    /\ file \in Seq(Seq(STRING))
    /\ \A i \in DOMAIN file : Len(file[i]) \in {1, 2} /\ file[i] # <<Orphan>>

(* No key comes before the first header.                                      *)
BeginsWithHeader(file) == file = Null \/ file = <<>> \/ Len(file[1]) = 1

(* The reference: the last file that speaks of a key decides.                 *)
KeysIn(file) == UNION {{s} \X DOMAIN Parse(file).of[s] : s \in DOMAIN Parse(file).of}
Keys(source) == IF source = Null THEN {} ELSE KeysIn(source)
ValuesIn(file, key) == Parse(file).of[key[1]][key[2]]

LastWins(sources, merged) ==
    /\ KeysIn(merged) = UNION {Keys(sources[i]) : i \in DOMAIN sources}
    /\ \A key \in KeysIn(merged) : \E i \in DOMAIN sources :
          /\ key \in Keys(sources[i]) /\ \A j \in DOMAIN sources : j > i => key \notin Keys(sources[j])
          /\ ValuesIn(merged, key) = ValuesIn(sources[i], key)
=============================================================================
