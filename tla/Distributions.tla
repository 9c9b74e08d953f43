---------------------------- MODULE Distributions ----------------------------
(***************************************************************************)
(* The file of distributions, the lookups of dsdgen and dsqgen in it       *)
(* (dist.c), and distcomp, which writes it (dcomp.c).  The file is a       *)
(* sequence of words: a number, a name and a string are one word each, so  *)
(* an offset counts words.  Names are compared without regard to case; a   *)
(* name is one spelling here.  An entry of a distribution is a row.        *)
(***************************************************************************)
EXTENDS Integers, SequencesExt

TKN_VARCHAR == 6
TKN_INT     == 7

words_RowByRow(d) ==
    LET rows    == Len(d.values)
        v_width == Len(d.types)
    IN  d.types \o FlattenSeq(d.weights)
        \o FlattenSeq([i \in 1..v_width |-> [j \in 1..rows |-> (j - 1) * v_width + i - 1]])
        \o d.names \o FlattenSeq(d.values)

\* The words of a distribution: the types, the weights set by set, where the strings of
\* the values begin, column by column, the names, and the strings row by row.
words(d) ==
    LET rows    == Len(d.values)
        v_width == Len(d.types)
        column(cell(_, _), width) == FlattenSeq([i \in 1..width |-> [j \in 1..rows |-> cell(i, j)]])
    IN  d.types
        \o column(LAMBDA i, j : d.weights[j][i], d.w_width)
        \o column(LAMBDA i, j : (j - 1) * v_width + i - 1, v_width)
        \o d.names
        \o FlattenSeq(d.values)

IDX_SIZE == 8

indexEntry(d, index, offset) ==
    <<d.name, index, offset, Len(FlattenSeq(d.values)), Len(d.values), d.w_width,
      Len(d.types), Len(d.names)>>

\* The number of distributions, their words, and the index at the end.
WriteIndex(dists) ==
    LET offset(i) == 1 + Len(FlattenSeq([k \in 1..(i - 1) |-> words(dists[k])]))
    IN  <<Len(dists)>>
        \o FlattenSeq([i \in DOMAIN dists |-> words(dists[i])])
        \o FlattenSeq([i \in DOMAIN dists |-> indexEntry(dists[i], i, offset(i))])

\* The aliases in the header file: values and weights are each counted from 1.
header(d) ==
    [i \in DOMAIN d.names |-> IF i > Len(d.types) THEN i - Len(d.types) ELSE i]

(***************************************************************************)
(* The lookups.                                                            *)
(***************************************************************************)
NoDist == [length |-> -1]

\* A distribution as it is loaded: its weights are made cumulative.
load_dist(file, at) ==
    LET length  == file[at + 4]
        w_width == file[at + 5]
        v_width == file[at + 6]
        types   == file[at + 2]   \* words before the types
        weights == types + v_width
        offsets == weights + w_width * length
        names   == offsets + v_width * length
        strings == names + file[at + 7]
        weight(i, j) == file[weights + (i - 1) * length + j]
        upTo[i \in 1..w_width] ==
            LET sum[j \in 0..length] == IF j = 0 THEN 0 ELSE sum[j - 1] + weight(i, j)
            IN  [j \in 1..length |-> sum[j]]
    IN  [length |-> length, w_width |-> w_width, v_width |-> v_width,
         type_vector |-> [i \in 1..v_width |-> file[types + i]],
         weight_sets |-> upTo,
         value_sets  |-> [i \in 1..v_width |-> [j \in 1..length |-> file[offsets + (i - 1) * length + j]]],
         names       |-> SubSeq(file, names + 1, strings),
         strings     |-> SubSeq(file, strings + 1, strings + file[at + 3])]

\* The index is at the end of the file; it is sorted by name and searched.
find_dist(file, name) ==
    LET entries == {Len(file) - IDX_SIZE * i + 1 : i \in 1..file[1]}
        found   == {at \in entries : file[at] = name}
    IN  IF found = {} THEN NoDist ELSE load_dist(file, CHOOSE at \in found : TRUE)

dist_max(dist, wset) == dist.weight_sets[wset][dist.length]

valueAt(dist, vset, index) == dist.strings[dist.value_sets[vset][index] + 1]

\* pick_distribution(): the entry that a level from 1 to the maximum falls on.
pick_distribution(dist, wset, level) ==
    CHOOSE index \in 1..dist.length :
        /\ level <= dist.weight_sets[wset][index]
        /\ \A i \in 1..(index - 1) : level > dist.weight_sets[wset][i]

dist_member(dist, index, vset) == valueAt(dist, vset, index)

\* The accumulation is taken back.
dist_weight(dist, index, wset) ==
    dist.weight_sets[wset][index] - (IF index > 1 THEN dist.weight_sets[wset][index - 1] ELSE 0)

distsize(file, name) == find_dist(file, name).length

dist_type(file, name, nValueSet) ==
    LET dist == find_dist(file, name)
    IN  IF dist = NoDist \/ nValueSet \notin 1..dist.v_width THEN -1 ELSE dist.type_vector[nValueSet]

\* How many names are passed before an alias; all where it is not there.
namesPassed(dist, alias) ==
    LET found == {i \in DOMAIN dist.names \cap 1..(dist.v_width + dist.w_width) : dist.names[i] = alias}
    IN  IF found = {} THEN dist.v_width + dist.w_width ELSE Min(found) - 1

\* The place among the values, or among the weights. A name that is not there stands for the
\* set of weights after the last; -1 is for one of the other kind, and for the first set
\* of weights. (Names that a distribution does not have are not initialized in the code.)
setOf(dist, nNameType, res) ==
    CASE nNameType = "value" /\ res < dist.v_width  -> res + 1
      [] nNameType = "weight" /\ res > dist.v_width -> res - dist.v_width + 1
      [] OTHER -> -1

DistNameIndex(file, name, nNameType, alias) ==
    LET dist == find_dist(file, name)
    IN  IF dist = NoDist \/ dist.names = << >> THEN -1
        ELSE setOf(dist, nNameType, namesPassed(dist, alias))

QERR_RANGE_ERROR == -5

\* The entry up to which a range from nStartIndex has nPct of the weight; it may be past the
\* last one. The goal is taken from the set of weights after nWeightSet; every
\* time the entries are through, the weight before the first one is read. << >>: the
\* result is undefined, since a read is outside the sets or outside a set.
IntegrateDist(dist, nPct, nStartIndex, nWeightSet) ==
    LET nGoal   == (dist_max(dist, nWeightSet + 1) * nPct) \div 100
        index(k) == (nStartIndex + k) % dist.length
        left[k \in 0..dist.length] ==
            IF k = 0 THEN nGoal ELSE left[k - 1] - dist_weight(dist, index(k), nWeightSet)
        ends == {k \in 1..dist.length : (\A i \in 1..k : index(i) # 0) /\ left[k] < 0}
    IN  CASE nPct \notin 1..99 -> <<QERR_RANGE_ERROR>>
          [] nPct \in 1..99 /\ (nWeightSet >= dist.w_width \/ ends = {}) -> << >>
          [] OTHER -> <<nStartIndex + Min(ends)>>

(***************************************************************************)
(* distcomp (dcgram.c, grammar.c, dcomp.c): it reads statements that       *)
(* define distributions and writes the file.  files maps the name of a     *)
(* source file to its statements; characters and lines are left out.  A    *)
(* value is a record of its text and of what atoi() makes of it.           *)
(***************************************************************************)

\* The state of the compiler: the distributions so far, and the error that ends it.
OK    == "ok"
Empty == [dists |-> << >>, error |-> OK]

\* Statements.
create(name)            == [kind |-> "create", name |-> name]
setTypes(types)         == [kind |-> "types", types |-> types]
setWeights(n)           == [kind |-> "weights", n |-> n]
setNames(names)         == [kind |-> "names", names |-> names]
add(values, weights)    == [kind |-> "add", values |-> values, weights |-> weights]
include(file)           == [kind |-> "include", file |-> file]

NewDist(name) ==
    [name |-> name, types |-> << >>, w_width |-> 0, names |-> << >>, values |-> << >>, weights |-> << >>]

failed(c, code) == [c EXCEPT !.error = code]
current(c)      == c.dists[Len(c.dists)]
changed(c, d)   == [c EXCEPT !.dists[Len(c.dists)] = d]

AddDistribution(c, name) ==
    IF \E i \in DOMAIN c.dists : c.dists[i].name = name
    THEN failed(c, "QERR_NON_UNIQUE")
    ELSE [c EXCEPT !.dists = Append(@, NewDist(name))]

ProcessTypes(c, types) ==
    IF ToSet(types) \subseteq {"int", "varchar"}
    THEN changed(c, [current(c) EXCEPT !.types =
             [i \in DOMAIN types |-> IF types[i] = "int" THEN TKN_INT ELSE TKN_VARCHAR]])
    ELSE failed(c, "QERR_RANGE_ERROR")

ProcessNames(c, names) ==
    IF current(c).types = << >> \/ current(c).w_width = 0 THEN failed(c, "QERR_NAMES_EARLY")
    ELSE changed(c, [current(c) EXCEPT !.names = names])

ProcessSet(c, s) ==
    CASE s.kind = "types"   -> ProcessTypes(c, s.types)
      [] s.kind = "weights" -> changed(c, [current(c) EXCEPT !.w_width = s.n])
      [] s.kind = "names"   -> ProcessNames(c, s.names)

\* The weights are the words after the values that the types call for, the semicolon
\* that ends the statement among them: it counts as a weight of 0.
weightWords(c, s) ==
    LET rest == SubSeq(s.values, Len(current(c).types) + 1, Len(s.values))
    IN  [i \in DOMAIN rest |-> rest[i].int] \o s.weights \o <<0>>

ProcessAdd(c, s) ==
    LET d == current(c)
    IN  CASE d.types = << >> -> failed(c, "QERR_NO_TYPE")
          [] d.types # << >> /\ d.w_width = 0 -> failed(c, "QERR_NO_WEIGHT")
          [] d.types # << >> /\ d.w_width > 0
               /\ (Len(s.values) < Len(d.types) \/ Len(weightWords(c, s)) < d.w_width) ->
                 failed(c, "QERR_SYNTAX")
          [] OTHER -> changed(c,
                 [d EXCEPT !.values  = Append(@, SubSeq(s.values, 1, Len(d.types))),
                           !.weights = Append(@, SubSeq(weightWords(c, s), 1, d.w_width))])

\* A file that is included is read in the place of the statement. Statements after one
\* that failed are not read.
RECURSIVE ParseFile(_, _, _)
ParseFile(files, path, c) ==
    LET ProcessInclude(before, s) == ParseFile(files, s.file, before)
        statement(before, s) ==
            CASE before.error # OK      -> before
              [] before.error = OK /\ s.kind = "create"  -> AddDistribution(before, s.name)
              [] before.error = OK /\ s.kind = "include" -> ProcessInclude(before, s)
              [] before.error = OK /\ s.kind = "add"     -> ProcessAdd(before, s)
              [] OTHER                                   -> ProcessSet(before, s)
    IN  IF path \in DOMAIN files THEN FoldLeft(statement, c, files[path])
        ELSE failed(c, "QERR_NO_FILE")

\* What main() leaves behind: no file of distributions, unless all was read.
distcomp(files, path) ==
    LET c == ParseFile(files, path, Empty)
    IN  [error |-> c.error, output |-> IF c.error = OK THEN WriteIndex(c.dists) ELSE << >>]
==============================================================================
