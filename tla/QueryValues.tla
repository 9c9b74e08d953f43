------------------------------ MODULE QueryValues ------------------------------
(***************************************************************************)
(* The values of substitutions (eval.c).  A value is a number or a text;   *)
(* the text is in a buffer that several values may share, and is appended  *)
(* to.  A value that is an argument is not kept.  What is drawn is given:  *)
(* the draws come round again when they are used up.                       *)
(***************************************************************************)
EXTENDS QueryTemplates, TLC

D == INSTANCE Distributions
C == INSTANCE Calendar

\* The state: file, the file of distributions; vals, the values of each substitution, and
\* queryOf, the query it was last evaluated for as part of another; texts, the buffers;
\* permutes, the permutations expressions keep; the draws and how many were made; how the
\* program ended, if so.
Going == "going"

\* An argument, or what a function returns.
IntVal(n)     == [bUseInt |-> TRUE, nValue |-> n, text |-> << >>]
TextVal(text) == [bUseInt |-> FALSE, nValue |-> 0, text |-> text]

printed(v) == IF v.bUseInt THEN <<ToString(v.nValue)>> ELSE v.text

\* exit(), a "crash", or a read or write outside an array, after which nothing is defined.
exit(st, why) == [st EXCEPT !.status = why]

Undefined == "undefined"
OverRun   == "over-run"     \* Distribution over-run/under-run

\* A value that the substitution does not have: it may have none.
outside(st, sub) == exit(st, IF st.vals[sub] = << >> THEN "crash" ELSE Undefined)

draw(st, min, max) == min + (st.draws[(st.at % Len(st.draws)) + 1] % (max - min + 1))
drawn(st, n)       == [st EXCEPT !.at = @ + n]

\* C's division and remainder.
quotient(a, b) == IF a >= 0 THEN a \div b ELSE -((-a) \div b)
rest(a, b)     == a - b * quotient(a, b)

swap(s, i, j) == [s EXCEPT ![i] = s[j], ![j] = s[i]]

\* makePermutation(), makeKeyPermutation(): the permutation there is is permuted again.
makePermutation(st, key, size) ==
    LET start == IF st.permutes[key] = << >> THEN [i \in 1..size |-> i] ELSE st.permutes[key]
        after[i \in 0..size] ==
            IF i = 0 THEN start ELSE swap(after[i - 1], i, draw(drawn(st, i - 1), 1, size))
    IN  [drawn(st, size) EXCEPT !.permutes[key] = after[size]]

returns(st, out) == [st |-> st, out |-> out]
fails(st, why)   == returns(exit(st, why), << >>)

\* Modifiers exclude each other in pairs; all three together are not noticed.
Plain(e) == e.mods \in {{}, {"LIST", "ULIST", "RANGE"}}

EvalArithmetic(st, op, a, b) ==
    CASE op = "+" /\ a.bUseInt /\ b.bUseInt    -> returns(st, <<IntVal(a.nValue + b.nValue)>>)
      [] op = "+" /\ ~(a.bUseInt /\ b.bUseInt) -> returns(st, <<TextVal(printed(a) \o printed(b))>>)
      [] op = "-" -> returns(st, <<IntVal(a.nValue - b.nValue)>>)
      [] op = "*" -> returns(st, <<IntVal(a.nValue * b.nValue)>>)
      [] op = "/" -> IF b.nValue = 0 THEN fails(st, "crash")
                     ELSE returns(st, <<IntVal(quotient(a.nValue, b.nValue))>>)

\* Replacements are drawn by weight; in a list all alike, and the number of values, the
\* last argument, is one of the texts drawn from. How many there are is read from the
\* second argument, which is the weight of the second replacement.
EvalTextExpr(st, e, params, key) ==
    LET replacement(j) == TextVal(e.args[j].text)
        upTo[i \in 0..Len(e.args)] == IF i = 0 THEN 0 ELSE upTo[i - 1] + e.args[i].n
        level == draw(st, 1, upTo[Len(e.args)])
        shuffled == makePermutation(st, key, Len(e.args) - 1)
    IN  CASE e.mods = {"LIST"} ->
                returns(drawn(st, params[2].nValue),
                        [i \in 1..params[2].nValue |->
                            replacement(draw(drawn(st, i - 1), 1, Len(e.args)))])
          [] e.mods = {"ULIST"} ->
                IF params[2].nValue >= Len(e.args) THEN fails(st, Undefined)
                ELSE returns(shuffled,
                        [i \in 1..params[2].nValue |-> replacement(shuffled.permutes[key][i])])
          [] Plain(e) ->
                returns(drawn(st, 1),
                        <<replacement(CHOOSE i \in DOMAIN e.args : upTo[i - 1] < level /\ level <= upTo[i])>>)
          [] OTHER -> fails(st, "QERR_RANGE_LIST")


\* A range grows upwards until it is at the most there can be, then downwards; one that
\* starts there goes on upwards.
rangeFrom(from, max, total) ==
    LET up == IF from < max /\ from + total > max THEN max - from ELSE total
    IN  <<from - (total - up), from + up>>

EvalRandomExpr(st, e, params, key) ==
    LET nMin  == params[1].nValue
        nMax  == params[2].nValue
        size  == nMax - nMin + 1
        count == params[4].nValue
        shuffled == makePermutation(st, key, size)
        one   == draw(st, nMin, nMax)
        ends  == rangeFrom(one, nMax, quotient((nMax - nMin) * count, 100))
    IN  CASE e.mods = {"LIST"} ->
                returns(drawn(st, count),
                        [i \in 1..count |-> IntVal(rest(draw(drawn(st, i - 1), nMin, nMax), size) + nMin)])
          [] e.mods = {"ULIST"} ->
                IF count > size THEN fails(st, Undefined)
                ELSE returns(shuffled,
                        [i \in 1..count |-> IntVal((shuffled.permutes[key][i] % size) + nMin)])
          [] e.mods = {"RANGE"} -> returns(drawn(st, 1), <<IntVal(ends[1]), IntVal(ends[2])>>)
          [] Plain(e) -> returns(drawn(st, 1), <<IntVal(one)>>)
          [] OTHER -> fails(st, "QERR_RANGE_LIST")

(***************************************************************************)
(* Distributions.  A set of values or of weights is named or numbered, and *)
(* no number is checked, but that of an entry whose value is read.         *)
(***************************************************************************)
setNumber(file, name, type, v) ==
    IF v.bUseInt THEN v.nValue ELSE D!DistNameIndex(file, name, type, v.text[1])

isInt(dist, vset) == dist.type_vector[vset] = D!TKN_INT

member(dist, row, vset) ==
    LET v == D!dist_member(dist, row, vset) IN IF isInt(dist, vset) THEN IntVal(v.int) ELSE TextVal(v.text)

\* dist_op() with an entry that is given.
distMember(st, dist, row, vset) ==
    CASE dist = D!NoDist -> fails(st, "crash")
      [] dist # D!NoDist /\ row \notin 1..dist.length -> fails(st, OverRun)
      [] dist # D!NoDist /\ row \in 1..dist.length /\ vset \notin 1..dist.v_width -> fails(st, Undefined)
      [] OTHER -> returns(st, <<member(dist, row, vset)>>)

distWeight(st, dist, row, wset) ==
    CASE dist = D!NoDist -> fails(st, "crash")
      [] dist # D!NoDist /\ (row \notin 1..dist.length \/ wset \notin 1..dist.w_width) -> fails(st, Undefined)
      [] OTHER -> returns(st, <<IntVal(D!dist_weight(dist, row, wset))>>)

\* dist_op() with an entry that is drawn, and what becomes of the program when it is asked to.
distPick(st, dist, wset) == D!pick_distribution(dist, wset, draw(st, 1, D!dist_max(dist, wset)))

pickStatus(dist, vset, wset) ==
    CASE dist = D!NoDist -> "crash"
      [] dist # D!NoDist /\ (vset \notin 1..dist.v_width \/ wset \notin 1..dist.w_width) -> Undefined
      [] OTHER -> Going

\* From the entry that is drawn to the one IntegrateDist() gives. The upper number is not
\* marked as one, and a text is copied from nowhere.
distRange(st, dist, vset, wset, first, nPct) ==
    LET offset == D!IntegrateDist(dist, nPct, first, wset)
    IN  CASE offset = << >> -> fails(st, Undefined)
          [] offset # << >> /\ ~isInt(dist, vset) -> fails(st, "crash")
          [] offset # << >> /\ isInt(dist, vset) /\ offset[1] \notin 1..dist.length -> fails(st, OverRun)
          [] OTHER -> returns(drawn(st, 1), <<member(dist, first, vset),
                              [member(dist, offset[1], vset) EXCEPT !.bUseInt = FALSE]>>)

distList(st, dist, vset, n) ==
    CASE n <= 0 -> returns(st, << >>)
      [] n > 0 /\ dist = D!NoDist -> fails(st, "crash")
      [] n > 0 /\ dist # D!NoDist /\ vset \notin 1..dist.v_width -> fails(st, Undefined)
      [] OTHER -> returns(drawn(st, n),
                          [i \in 1..n |-> member(dist, draw(drawn(st, i - 1), 1, dist.length), vset)])

\* The first rows of a permutation with values that differ.
RECURSIVE uniqueRows(_, _, _, _)
uniqueRows(dist, vset, rows, n) ==
    IF n <= 0 \/ rows = << >> THEN << >>
    ELSE LET v == member(dist, Head(rows), vset)
         IN  <<v>> \o uniqueRows(dist, vset,
                                 SelectSeq(Tail(rows), LAMBDA r :
                                     v.bUseInt \/ member(dist, r, vset).text # v.text), n - 1)

\* Where too few texts differ, the permutation is read on past its end.
distUlist(st, dist, vset, n, key) ==
    LET shuffled == makePermutation(st, key, dist.length)
        unique   == uniqueRows(dist, vset, shuffled.permutes[key], n)
    IN  CASE dist.length <= 0 \/ n > dist.length -> fails(st, "QERR_RANGE_ERROR")
          [] dist.length >= n /\ n > 0 /\ (vset \notin 1..dist.v_width \/ Len(unique) < n) -> fails(st, Undefined)
          [] OTHER -> returns(shuffled, unique)

distExpr(st, e, dist, nRow, nCol, nModifierArg, key) ==
    LET picks == e.op = "DIST" /\ (e.mods = {"RANGE"} \/ Plain(e))
        ready == pickStatus(dist, nRow, nCol)
        row   == distPick(st, dist, nCol)
    IN  CASE e.op = "DISTMEMBER" -> distMember(st, dist, nRow, nCol)
          [] e.op = "DISTWEIGHT" -> distWeight(st, dist, nRow, nCol)
          [] picks /\ ready # Going -> fails(st, ready)
          [] picks /\ ready = Going /\ Plain(e)  -> returns(drawn(st, 1), <<member(dist, row, nRow)>>)
          [] picks /\ ready = Going /\ ~Plain(e) -> distRange(st, dist, nRow, nCol, row, nModifierArg)
          [] e.op = "DIST" /\ e.mods = {"LIST"}  -> distList(st, dist, nRow, nModifierArg)
          [] e.op = "DIST" /\ e.mods = {"ULIST"} -> distUlist(st, dist, nRow, nModifierArg, key)
          [] OTHER -> fails(st, "QERR_RANGE_LIST")

EvalDistExpr(st, e, params, key) ==
    LET name == params[1].text[1]
    IN  distExpr(st, e, D!find_dist(st.file, name), setNumber(st.file, name, "value", params[2]),
                 setNumber(st.file, name, "weight", params[3]), params[4].nValue, key)

(***************************************************************************)
(* Dates.  A text of a date is its numbers and the dashes between them.    *)
(***************************************************************************)
dttostr(j) ==
    LET d == C!jtodt(j) IN <<ToString(d.year), "-", ToString(d.month), "-", ToString(d.day)>>

\* Days that a template names.
strtodt(text) == CHOOSE j \in 2450815..2453005 : dttostr(j) = text

\* The weight of the day an index in a year is for, and the index after it.
weightOf(at, dist) == C!weight(C!setOf(dist, at.year), at.day)
nextOf(at) ==
    IF at.day >= 365 + C!is_leap(at.year) THEN [year |-> at.year + 1, day |-> 1]
    ELSE [at EXCEPT !.day = @ + 1]

\* genrand_date(): a skewed day is found by the weights from the day of the month on, as
\* though it were the day of the year.
genrand_date(st, dist, min, max) ==
    LET d == C!jtodt(min)
        at[i \in 0..(max - min)] ==
            IF i = 0 THEN [year |-> d.year, day |-> d.day] ELSE nextOf(at[i - 1])
        upTo[i \in 0..(max - min)] == IF i = 0 THEN 0 ELSE upTo[i - 1] + weightOf(at[i - 1], dist)
        temp == draw(st, 1, upTo[max - min - 1])
    IN  IF dist = "calendar_uniform" THEN draw(st, min, max)
        ELSE min + (CHOOSE i \in 1..(max - min) : temp < upTo[i] /\ temp >= upTo[i - 1])

\* The days of a range, by what is left of the weight it is to have.
RECURSIVE dateRange(_, _, _, _, _, _)
dateRange(from, to, end, upwards, left, dist) ==
    IF left <= 0 THEN <<from, to>>
    ELSE IF upwards
         THEN dateRange(from, to + 1, end, to + 1 # end, left - C!getDateWeightFromJulian(to + 1, dist), dist)
         ELSE dateRange(from - 1, to, end, FALSE, left - C!getDateWeightFromJulian(from - 1, dist), dist)

\* The range has n in a hundred of the weight of all days.
rangeOf(one, begin, end, n, dist) ==
    LET total[i \in 0..(end - begin)] ==
            IF i = 0 THEN 0 ELSE total[i - 1] + C!getDateWeightFromJulian(begin + i - 1, dist)
    IN  dateRange(one, one, end, TRUE, quotient(total[end - begin] * n, 100), dist)

\* A list of days that differ is empty: their number is that of the days from the first
\* to the first.
daysOf(st, e, begin, end, n, dist) ==
    LET days  == end - begin
        count == IF n > days THEN days ELSE n
    IN  CASE e.mods = {"LIST"} ->
                returns(drawn(st, count),
                        [i \in 1..count |-> TextVal(dttostr(begin + draw(drawn(st, i - 1), 1, days) - 1))])
          [] e.mods = {"ULIST"} -> returns(st, << >>)
          [] e.mods = {"RANGE"} ->
                LET ends == rangeOf(genrand_date(st, dist, begin, end), begin, end, n, dist)
                IN  returns(drawn(st, 1), [i \in 1..2 |-> TextVal(dttostr(ends[i]))])
          [] Plain(e) -> returns(drawn(st, 1), <<TextVal(dttostr(genrand_date(st, dist, begin, end)))>>)
          [] OTHER -> fails(st, "QERR_RANGE_LIST")

EvalDateExpr(st, e, params, dist) ==
    daysOf(st, e, strtodt(params[1].text), strtodt(params[2].text), params[4].nValue, dist)

(***************************************************************************)
(* EvalExpr().  Programs are at a query: its number among all, its place   *)
(* in the stream, the stream, and the template.                            *)
(***************************************************************************)
Call(st, e, params, key) ==
    CASE e.op = "TEXT"   -> EvalTextExpr(st, e, params, key)
      [] e.op = "RANDOM" -> EvalRandomExpr(st, e, params, key)
      [] e.op \in {"DIST", "DISTMEMBER", "DISTWEIGHT"} -> EvalDistExpr(st, e, params, key)
      [] e.op = "DATE"   -> EvalDateExpr(st, e, params,
                                IF e.args[3].op = "UNIFORM" THEN "calendar_uniform" ELSE "calendar_sales")
      [] OTHER -> EvalArithmetic(st, e.op, params[1], params[2])

\* What the dialect defines: a text, with the limit in the place of %d. Looking the limit
\* up adds _LIMIT to the list of a template that did not define it.
LimitText == [_LIMITA |-> "__LIMITA", _LIMITB |-> "__LIMITB", _LIMITC |-> "__LIMITC"]

limitOf(st, op) ==
    LET sub  == findSubstitution(st, st.list, LimitText[op]).sub
        text == st.subs[sub].expr.text
        here == \E i \in DOMAIN text : text[i] = "%d"
    IN  CASE sub = 0 -> fails(st, "crash")
          [] sub # 0 /\ ~here -> returns(st, <<TextVal(text)>>)
          [] OTHER ->
                returns([st EXCEPT !.list = findSubstitution(st, st.list, "_LIMIT").list],
                        <<TextVal([i \in DOMAIN text |-> IF text[i] = "%d" THEN ToString(st.limit) ELSE text[i]])>>)

\* What a keyword stands for. The seed is how far the draws have come.
EvalKeywordExpr(st, op) ==
    CASE op = "_QUERY"    -> returns(st, <<IntVal(st.nQuery)>>)
      [] op = "_STREAM"   -> returns(st, <<IntVal(st.nStream)>>)
      [] op = "_TEMPLATE" -> returns(st, <<TextVal(<<st.name>>)>>)
      [] op = "_SEED"     -> returns(st, <<IntVal(st.at)>>)
      [] op = "_LIMIT"    -> returns(st, <<IntVal(st.limit)>>)
      [] op \in DOMAIN LimitText -> limitOf(st, op)
      [] OTHER            -> returns(st, <<IntVal(0)>>)

constant(st, e) ==
    IF EXPR_FL_KEYWORD \in e.types THEN EvalKeywordExpr(st, e.op)
    ELSE IF EXPR_FL_INT \in e.types THEN returns(st, <<IntVal(e.n)>>) ELSE returns(st, <<TextVal(e.text)>>)

\* Values are put where the expression's go: a number is set, a text is appended. The upper
\* end of a range of numbers from a distribution is set, but is printed as the text.
put(st, key, i, v) ==
    LET buf == st.vals[key][i].buf
    IN  IF i > Len(st.vals[key]) THEN outside(st, key)
        ELSE [st EXCEPT !.vals[key][i].bUseInt = v.bUseInt,
                        !.vals[key][i].nValue = IF v.bUseInt \/ v.text = << >> THEN v.nValue ELSE @,
                        !.texts[buf] = IF v.bUseInt THEN @ ELSE @ \o v.text]

\* What a substitution's expression came to goes into its values; it is evaluated once for
\* a query.
done(st, sub) ==
    IF st.status = Going THEN [st EXCEPT !.vals[sub][1].nQueryNumber = st.nQueryCount] ELSE st

putAll(call, sub) ==
    LET all[i \in 0..Len(call.out)] ==
            IF i = 0 \/ call.st.status # Going THEN call.st ELSE put(all[i - 1], sub, i, call.out[i])
    IN  returns(done(all[Len(call.out)], sub), << >>)

\* Where what an expression came to goes: into the values of sub, or to the caller of an
\* argument.
deliver(value, sub) ==
    IF sub = 0 \/ value.st.status # Going THEN value ELSE putAll(value, sub)

\* A function that is changed by LIST, ULIST or RANGE cannot be an argument.
applied(args, e, sub) ==
    CASE args.st.status # Going -> returns(args.st, << >>)
      [] args.st.status = Going /\ sub = 0 /\ Cardinality(e.mods) = 1 /\ e.op \in {"TEXT", "RANDOM", "DIST", "DATE"} ->
            fails(args.st, "QERR_MODIFIED_PARAM")
      [] OTHER -> deliver(Call(args.st, e, args.out, sub), sub)

\* The substitution referred to has been evaluated: a substitution shares the buffer of
\* its value.
shared(after, other, n, sub) ==
    LET v == after.vals[other][n]
    IN  CASE after.status # Going -> returns(after, << >>)
          [] after.status = Going /\ n > Len(after.vals[other]) -> returns(outside(after, other), << >>)
          [] after.status = Going /\ n <= Len(after.vals[other]) /\ sub = 0 ->
                returns(after, <<[bUseInt |-> v.bUseInt, nValue |-> v.nValue, text |-> after.texts[v.buf]]>>)
          [] OTHER -> returns(done([after EXCEPT !.vals[sub][1] = v], sub), << >>)

\* Whether the substitution has its values for this query, or no buffers to put them in.
evaluated(st, sub) == sub # 0 /\ st.vals[sub] # << >> /\ st.vals[sub][1].nQueryNumber = st.nQueryCount
unready(st, sub)   == sub # 0 /\ st.vals[sub] = << >>

RECURSIVE EvalExpr(_, _, _)

\* The expression e of substitution sub, into its own values; or, with sub = 0, of an
\* argument, whose values are returned. The arguments of a call are evaluated one after
\* the other, and a substitution another one refers to before it, once for a query.  A
\* constant is evaluated every time, another expression once for a query.
EvalExpr(st, sub, e) ==
    LET argument(acc, value) == [st |-> value.st, out |-> acc.out \o value.out]
        found == findSubstitution(st, st.list, e.op)
        other == found.sub
        known == [st EXCEPT !.list = found.list]
    IN  IF unready(st, sub) THEN fails(st, "crash")
        ELSE IF e.kind = "CONST" THEN deliver(constant(st, e), sub)
        ELSE IF evaluated(st, sub) THEN returns(st, << >>)
        ELSE IF e.kind = "REPL" THEN returns(st, <<[TextVal(e.text) EXCEPT !.nValue = e.n]>>)
        ELSE IF e.kind = "FUNC"
             THEN applied(FoldLeft(LAMBDA acc, arg : IF acc.st.status # Going THEN acc
                                                     ELSE argument(acc, EvalExpr(acc.st, 0, arg)),
                                   returns(st, << >>), e.args), e, sub)
        ELSE IF other = 0 THEN fails(st, "QERR_BAD_NAME")
        ELSE shared([IF st.queryOf[other] = st.nQueryCount THEN known
                     ELSE EvalExpr(known, other, st.subs[other].expr).st EXCEPT !.queryOf[other] = st.nQueryCount],
                    other, e.nSubElement, sub)
==============================================================================
