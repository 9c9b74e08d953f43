----------------------------- MODULE QueryStreams -----------------------------
(***************************************************************************)
(* dsqgen: the queries of each stream (GenerateQuery() of query_handler.c, *)
(* generateQueryStreams() and main() of QgenMain.c).                       *)
(***************************************************************************)
EXTENDS QueryValues

\* The state before the first query, from what was parsed.
NewState(p, file, draws) ==
    [place     |-> p.place, file |-> file, subs |-> p.subs, list |-> << >>, limit |-> p.limit,
     templates |-> p.templates, inited |-> {},
     vals      |-> [i \in DOMAIN p.subs |-> << >>], queryOf |-> [i \in DOMAIN p.subs |-> 0],
     texts     |-> << >>, permutes |-> [i \in DOMAIN p.subs |-> << >>], draws |-> draws, at |-> 0,
     nQueryCount |-> 1, nQuery |-> 0, nStream |-> 0, name |-> "", output |-> << >>,
     status    |-> IF p.ended THEN "refused" ELSE Going]

\* One value for each part, or one if there are no parts (for one use).
nBufferCount(st, k) == Max({1, st.subs[k].expr.nValueCount})

\* Before its first query a template gets buffers for the substitutions in its list.
initTemplate(st, t) ==
    LET keys == ToSet(st.list)
        bufs(k) == {<<t, k, i>> : i \in 1..nBufferCount(st, k)}
        new  == UNION {bufs(k) : k \in keys}
    IN  IF t \in st.inited THEN st
        ELSE [st EXCEPT !.inited = @ \cup {t},
                !.texts = [b \in new |-> << >>] @@ @,
                !.vals  = [k \in DOMAIN @ |->
                    IF k \in keys
                    THEN [i \in 1..nBufferCount(st, k) |->
                            [bUseInt |-> FALSE, nValue |-> 0, nQueryNumber |-> 0, buf |-> <<t, k, i>>]]
                    ELSE @[k]]]

ResetBuffers(st, k) ==
    [st EXCEPT !.texts = [b \in DOMAIN @ |->
        IF \E i \in DOMAIN st.vals[k] : st.vals[k][i].buf = b THEN << >> ELSE @[b]]]

\* The substitutions in the order of the list, which may grow on the way.
RECURSIVE selectValues(_, _)

selectNext(after, k) ==
    LET at == SelectInSeq(after.list, LAMBDA i : i = k)
    IN  IF after.status # Going \/ at = Len(after.list) THEN after
        ELSE selectValues(after, after.list[at + 1])

selectValues(st, k) == selectNext(EvalExpr(ResetBuffers(st, k), k, st.subs[k].expr).st, k)

\* The value a segment prints; the place is counted from the substitution's first. A number
\* after the name counts uses, beyond the values there are.
findValue(st, seg) == st.subs[seg.sub].expr.nValueCount * seg.nSubCount + seg.nSubUse + 1

printSegment(st, seg) ==
    LET i == findValue(st, seg)
        v == st.vals[seg.sub][i]
        value == IF seg.sub = 0 THEN << >>
                 ELSE IF v.bUseInt THEN <<ToString(v.nValue)>> ELSE st.texts[v.buf]
    IN  IF st.status = Going /\ seg.sub # 0 /\ i \notin DOMAIN st.vals[seg.sub] THEN outside(st, seg.sub)
        ELSE IF st.status # Going THEN st
        ELSE [st EXCEPT !.output = @ \o seg.text \o value \o (IF seg.eos THEN <<";\n">> ELSE << >>)]

\* What a query was made from and the text it came to.
printQuery(selected, t) ==
    [FoldLeft(printSegment, selected, selected.templates[t].segs)
        EXCEPT !.templates[t].list = selected.list, !.nQueryCount = @ + 1]

GenerateQuery(st, t) ==
    LET template == st.templates[t]
        begun == initTemplate([st EXCEPT !.list = template.list, !.name = template.name, !.output = << >>], t)
    IN  printQuery(selectValues(begun, Head(begun.list)), t)

\* The generator starts at the same seed before each stream, so each permutes the order
\* of the stream before it in the same way.
streamOrder(n, shuffle) ==
    LET once(order) ==
            LET after[i \in 0..n] == IF i = 0 THEN order ELSE swap(after[i - 1], i, shuffle[i])
            IN  after[n]
        order[s \in Nat] == IF s = 0 THEN once([i \in 1..n |-> i]) ELSE once(order[s - 1])
    IN  order

\* The queries of all streams, in the order they are made: each with its stream, its
\* place, the version and its template. COUNT versions of a query follow one another.
queryPlan(n, options, shuffle) ==
    [q \in 1..(options.STREAMS * n * options.COUNT) |->
        LET stream == (q - 1) \div (n * options.COUNT)
            nQuery == (((q - 1) \div options.COUNT) % n) + 1
        IN  [stream |-> stream, nQuery |-> nQuery,
             nQID |-> IF options.QUALIFY THEN nQuery ELSE streamOrder(n, shuffle)[stream][nQuery]]]

\* The files: query_<stream>.sql, or all on the standard output with FILTER.
generateQueryStreams(st, options, shuffle) ==
    LET added(acc, q, after) ==
            [st |-> after,
             queries |-> Append(acc.queries,
                 [to |-> IF options.FILTER THEN "stdout" ELSE q.stream,
                  template |-> after.name, text |-> after.output, at |-> acc.st.at])]
        step(acc, q) ==
            IF acc.st.status # Going THEN acc
            ELSE added(acc, q,
                       GenerateQuery([acc.st EXCEPT !.nQuery = q.nQuery, !.nStream = q.stream], q.nQID))
    IN  FoldLeft(step, [st |-> st, queries |-> << >>], queryPlan(Len(st.templates), options, shuffle))

main(files, place, file, options, names, draws, shuffle) ==
    LET p == parseQueries(files, place, options.DIALECT, names)
    IN  generateQueryStreams(NewState(p, file, draws), options, shuffle)
==============================================================================
