---------------------------- MODULE QueryRoutines ----------------------------
(***************************************************************************)
(* The two programs that recur over what they read, against what they are  *)
(* for: distcomp over the files it includes and dsqgen over the            *)
(* expressions of its templates.  Samples as in Routines.                  *)
(***************************************************************************)
EXTENDS Routines

CONSTANTS QueryFiles,    \* name -> the statements of a template or of a dialect
          DistFile       \* the file of the distributions that the templates name

DC == INSTANCE Distributions

Names    == <<"__LIMITB", "_BEGIN", "_END", "_LIMIT", "_LIMITA", "_LIMITB", "_LIMITC", "_QUERY",
              "_SEED", "_STREAM", "_TEMPLATE", "A", "C", "D", "G", "H", "K", "L", "M", "N", "N2", "R", "V",
              "W", "X">>
InPlace  == [n \in ToSet(Names) |-> SelectInSeq(Names, LAMBDA m : m = n)]

Q == INSTANCE QueryStreams

(***************************************************************************)
(* Distributions.                                                          *)
(***************************************************************************)
statementsOf(d) ==
    <<DC!create(d.name), DC!setTypes(d.types), DC!setWeights(d.w_width), DC!setNames(d.names)>>
    \o [j \in DOMAIN d.rows |-> DC!add(d.rows[j].values, d.rows[j].weights)]

\* distcomp writes what dist.c reads: every value, type, name and weight of every
\* distribution, also from an included file, and a row is picked for as many levels as it
\* has weight.  A name finds its column, but the first set of weights is found by number
\* only, and a name that is none of them finds weights after the last.  After an error
\* nothing is written.
DistributionsKept ==
    sample.kind = "distributions" =>
        LET own      == FlattenSeq([i \in DOMAIN sample.dists |-> statementsOf(sample.dists[i])])
            compiled == DC!distcomp([main |-> <<DC!include("own")>> \o sample.last, own |-> own], "main")
            file     == compiled.output
        IN  IF compiled.error # DC!OK THEN sample.last # << >> /\ file = << >>
            ELSE /\ sample.last = << >>
                 /\ \A i \in DOMAIN sample.dists :
                        LET d    == sample.dists[i]
                            dist == DC!find_dist(file, d.name)
                            w    == Len(d.types)
                        IN  /\ DC!distsize(file, d.name) = Len(d.rows)
                            /\ \A c \in 1..w :
                                   /\ DC!dist_type(file, d.name, c) = IF d.types[c] = "int" THEN DC!TKN_INT ELSE DC!TKN_VARCHAR
                                   /\ DC!DistNameIndex(file, d.name, "value", d.names[c]) = c
                                   /\ DC!DistNameIndex(file, d.name, "weight", d.names[c]) = -1
                                   /\ \A j \in DOMAIN d.rows : DC!dist_member(dist, j, c) = d.rows[j].values[c]
                            /\ DC!DistNameIndex(file, d.name, "value", "other") = -1
                            /\ DC!DistNameIndex(file, d.name, "weight", "other") = d.w_width + 1
                            /\ \A set \in 1..d.w_width :
                                   /\ DC!DistNameIndex(file, d.name, "value", d.names[w + set]) = -1
                                   /\ DC!DistNameIndex(file, d.name, "weight", d.names[w + set]) = IF set = 1 THEN -1 ELSE set
                                   /\ \A j \in DOMAIN d.rows :
                                          /\ DC!dist_weight(dist, j, set) = d.rows[j].weights[set]
                                          /\ Cardinality({level \in 1..DC!dist_max(dist, set) :
                                                             DC!pick_distribution(dist, set, level) = j})
                                                 = d.rows[j].weights[set]

(***************************************************************************)
(* Queries.                                                                *)
(***************************************************************************)
\* What stands between the bars that the first template has before each substitution.
printedIn(text) ==
    LET bars == {i \in DOMAIN text : text[i] = "|"}
        next(i) == Min({e \in bars \cup {Len(text) + 1} : e > i})
    IN  [n \in 1..Cardinality(bars) |->
            LET i == CHOOSE b \in bars : Cardinality({e \in bars : e <= b}) = n
            IN  SubSeq(text, i + 1, next(i) - 1)]

numberIn(field) == CHOOSE n \in 0..20 : <<ToString(n)>> = field

\* Whether the template comes to a substitution before it comes to another.
Before(p, name1, name2) ==
    LET t == SelectInSeq(p.templates, LAMBDA template : template.name = "a")
        at(name) == SelectInSeq(p.templates[t].list, LAMBDA i : p.subs[i].name = name)
    IN  at(name1) < at(name2)

\* A text that another definition needed first is printed empty: its buffer is emptied
\* when its own turn comes, and it is not made again.
Reference(p, refers, to, fieldOfRefers, fieldOfTo) ==
    IF Before(p, refers, to) THEN fieldOfTo = << >> /\ fieldOfRefers # << >>
    ELSE fieldOfRefers[1] = fieldOfTo[1]

LimitOf(template) == IF template = "a" THEN "10" ELSE "20"

QueriesOf(s) ==
    Q!main(QueryFiles, InPlace, DistFile, [DIALECT |-> "ansi", STREAMS |-> 2, COUNT |-> s.count, QUALIFY |-> s.qualify,
                        FILTER |-> FALSE], s.templates, s.draws, s.shuffle)

\* EvalExpr(), selectValues() and GenerateQuery(): a substitution that uses another one
\* agrees with what is printed for it, the numbers of a list differ and are in their
\* range, a range is as wide as it is asked to be and leaves its limits only when it was
\* drawn to begin at the upper one, and no query prints what was left from the one before.
\* The limit is that of the template read last, whatever template it is printed in.
QueryRight(s, q, p, f) ==
    LET number(i) == numberIn(f[i])
    IN  CASE q.template = "a" ->
               /\ Reference(p, "A", "X", f[2], f[1])
               /\ Reference(p, "W", "V", f[4], f[3])
               /\ \A i \in 1..4 : Len(f[i]) <= 2
               /\ number(6) = number(5) + 1
               /\ number(7) \in 1..9 /\ number(8) \in 1..9 /\ number(9) \in 1..9
               /\ Cardinality({number(7), number(8), number(9)}) = 3
               /\ number(11) = number(10) + 4 /\ number(10) >= 1 /\ (number(11) <= 9 \/ number(10) = 9)
               /\ f[12][1] = "top " /\ f[12][2] = LimitOf(s.templates[Len(s.templates)])
          [] q.template = "b" -> f[1] # f[2] /\ Len(f[1]) = 1 /\ Len(SubSeq(f[2], 1, 1)) = 1
          [] q.template = "e" -> /\ number(2) = 2 * number(1) /\ f[3][1] = <<"s", "m", "l">>[number(1)]
                                 /\ number(4) = <<3, 1, 0>>[number(1)]
                                 /\ f[5][1] \in {"s", "m"}
          [] q.template = "r" -> f[1] = <<"2">> /\ f[2][1] = ";\n"
          [] OTHER -> TRUE

\* Templates whose first query is not made, and how dsqgen ends: a use with a number, a
\* definition with digits in its name, more colors than differ or than there are, sets and entries that
\* no name or number stands for, a range of texts, and no distribution.
EndOf ==
    [numbered |-> Q!Undefined, digits |-> "refused", fewColors |-> Q!Undefined, manyColors |-> "QERR_RANGE_ERROR",
     noWeights |-> Q!Undefined, firstWeight |-> Q!Undefined, noValues |-> Q!Undefined, noEntry |-> Q!OverRun,
     textRange |-> Q!Undefined, noDist |-> "crash"]

StreamsRight(s, res, p) ==
    LET n == Len(s.templates)
        of(stream, i) == res.queries[(stream * n + i - 1) * s.count + 1]
    IN  /\ res.st.status = Q!Going /\ Len(res.queries) = 2 * n * s.count
        /\ \A stream \in 0..1 :
               /\ {of(stream, i).template : i \in 1..n} = ToSet(s.templates)
               /\ s.qualify => \A i \in 1..n : of(stream, i).template = s.templates[i]
        /\ \A i \in DOMAIN res.queries :
               /\ res.queries[i].to = (i - 1) \div (n * s.count)
               /\ res.queries[i].template = of(0, ((i - 1) \div s.count) + 1).template
               /\ QueryRight(s, res.queries[i], p, printedIn(res.queries[i].text))

EndsRight(s, res, p) ==
    CASE s.templates[1] \in DOMAIN EndOf -> res.st.status = EndOf[s.templates[1]]
      [] s.templates = <<"r">> /\ res.st.status # Q!Going -> res.st.status \in {Q!Undefined, Q!OverRun}
      [] OTHER -> StreamsRight(s, res, p)

==============================================================================
