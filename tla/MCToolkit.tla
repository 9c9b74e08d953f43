------------------------------ MODULE MCToolkit ------------------------------
(***************************************************************************)
(* Plans of command lines and a small scale for the data generator, and    *)
(* samples for the routines: with the plan of no process, a sample.        *)
(***************************************************************************)
EXTENDS DataGeneration, QueryRoutines

allVars == <<vars, sample>>

\* Eight rows or more are split.  Nine orders are on days of two and three orders, so that
\* the third and the fourth of four children begin with the last order of a day.
MCThreshold == 8
MCDaySize   == <<2, 3>>
MCRowcount  ==
    [t \in Tables |->
        CASE t \in {"CALL_CENTER", "ITEM", "STORE"} -> 6
          [] t \in {"WEB_PAGE", "WEB_SITE", "S_ITEM", "S_ZIPG", "TIME"} -> 3
          [] t \in {"CATALOG_SALES", "INVENTORY", "S_PURCHASE", "S_INVENTORY"} -> 9
          [] t \in {"STORE_SALES", "WEB_SALES"} -> 8
          [] t \in {"CUSTOMER", "S_WEB_ORDER"} -> 10
          [] t \in {"DBGEN_VERSION", "INCOME_BAND"} -> 1
          [] OTHER -> 2]

Line(t) == [parallel |-> 0, child |-> 1, update |-> 0, table |-> t, force |-> FALSE,
            validate |-> FALSE, killed |-> FALSE, after |-> {}]

Child(i, n, t)    == [Line(t) EXCEPT !.parallel = n, !.child = i]
Update(n, t)      == [Line(t) EXCEPT !.update = n]
Force(invocation) == [invocation EXCEPT !.force = TRUE]
Killed(invocation) == [invocation EXCEPT !.killed = TRUE]
Validate(t)       == [Line(t) EXCEPT !.validate = TRUE]

\* One after the other.
InTurn(lines) == [i \in DOMAIN lines |-> [lines[i] EXCEPT !.after = 1..(i - 1)]]

Serial    == <<Line("ALL")>>
Split     == InTurn(<<Child(3, 3, "ALL"), Child(1, 3, "ALL"), Child(2, 3, "ALL")>>)
AtOnce    == <<Child(1, 2, "CATALOG_SALES"), Child(2, 2, "CATALOG_SALES")>>
FourSales == InTurn(<<Child(1, 4, "CATALOG_SALES"), Child(3, 4, "CATALOG_SALES"),
                      Child(2, 4, "CATALOG_SALES"), Child(4, 4, "CATALOG_SALES")>>)
Refreshes == InTurn(<<Update(1, "ALL"), Update(2, "ALL"), Update(1, "ALL")>>)
SplitRefresh ==
    <<Force([Update(1, "S_PURCHASE") EXCEPT !.parallel = 2]),
      Force([Update(1, "S_PURCHASE") EXCEPT !.parallel = 2, !.child = 2])>>
Again     == InTurn(<<Line("WEB_SALES"), Line("WEB_SALES"), Force(Line("WEB_SALES"))>>)
Crash     == InTurn(<<Killed(Line("STORE_SALES")), Line("STORE_SALES"), Force(Line("STORE_SALES"))>>)
\* The validation of a chunk comes to rows of the whole table.
CheckedChunk(i, n) == <<[Validate("CATALOG_SALES") EXCEPT !.parallel = n, !.child = i]>>
Checked(t) == InTurn(<<Line(t), Validate(t), Validate(t)>>)
Wrong     == <<Child(1, 1, "ALL"), Line("WEB_RETURNS"), Line("S_ITEM")>>

MCPlans ==
    {<< >>, Serial, Split, AtOnce, FourSales, Refreshes, SplitRefresh, Again, Crash, Wrong, <<Line("ITEM")>>}
    \cup {Checked(t) : t \in {"CATALOG_SALES", "ITEM", "CUSTOMER", "DATE", "CALL_CENTER"}}
    \cup {CheckedChunk(2, 3), CheckedChunk(3, 4)}

(***************************************************************************)
(* Samples.                                                                *)
(***************************************************************************)
sampleOf(k) == [kind |-> k]

\* The ends of all months of years of every kind, and the years.
DaySamples ==
    {sampleOf("day") @@ [y |-> y, m |-> m, d |-> d] :
        y \in {1900, 1901, 1904, 1998, 1999, 2000, 2003, 2096, 2100}, m \in 1..12, d \in {1, 28}}
    \cup {sampleOf("day") @@ [y |-> y, m |-> m, d |-> length(y, m)] :
        y \in {1900, 1998, 2000, 2003, 2100}, m \in 1..12}
    \cup {sampleOf("year") @@ [y |-> y] : y \in {1998, 2000, 2003}}

\* Every entry of a zone with a pair of the others, in common years and in a leap year.
RefreshSamples ==
    LET at(i, y)   == [entry |-> i, year |-> y]
        others(y)  == <<at(100, y), at(250, y), at(340, y)>>
        zone(i)    == IF i <= 213 THEN 1 ELSE IF i <= 305 THEN 2 ELSE 3
        picks(i, y) == [others(y) EXCEPT ![zone(i)] = at(i, y)]
    IN  {sampleOf("refresh") @@ [picks |-> picks(i, y), beyond |-> b, table |-> t, rows |-> 30000] :
            i \in {e \in 1..366 : e % 9 = 0} \cup (205..221) \cup (297..310) \cup (360..366),
            y \in {1999, 2000, 2002}, b \in {0, 1}, t \in {"S_PURCHASE"}}
        \cup {sampleOf("refresh") @@ [picks |-> picks(i, y), beyond |-> 0, table |-> "S_INVENTORY", rows |-> 20] :
            i \in (207..216) \cup (299..308) \cup (360..366), y \in {1999, 2000}}

MCOptionFiles ==
    LET set(o, x) == [matches |-> {o}, value |-> value(x)]
    IN  [f1 |-> <<set("SCALE", "1000"), set("FORCE", "Y"), set("SCALE", "10")>>,
         f2 |-> <<set("DIR", "out"), set("TERMINATE", "N"), set("SCALE", "100")>>]

Items ==
    {[o |-> "SCALE", x |-> "100"], [o |-> "DIR", x |-> "here"], [o |-> "DIR", x |-> "there"],
     [o |-> "FORCE", x |-> NoValue], [o |-> "FORCE", x |-> "N"], [o |-> "TERMINATE", x |-> "N"],
     [o |-> "PARAMS", x |-> "f1"], [o |-> "PARAMS", x |-> "f2"], [o |-> "PARA", x |-> "f1"]}

OptionSamples ==
    {sampleOf("options") @@ [items |-> items] : items \in UNION {[1..n -> Items] : n \in 0..3}}

\* Two distributions of up to three rows, and what the last statement may get wrong.
DistributionSamples ==
    LET value_(j, c) == [text |-> <<"v", j, c>>, int |-> 10 * j + c]
        rows(w, n, weights) ==
            [j \in 1..n |-> [values |-> [c \in 1..w |-> value_(j, c)], weights |-> weights[j]]]
        d(name, types, w, rowsOf) ==
            [name |-> name, types |-> types, w_width |-> w, rows |-> rowsOf,
             names |-> SubSeq(<<"c1", "c2">>, 1, Len(types)) \o SubSeq(<<"w1", "w2">>, 1, w)]
        one(weights) == d("one", <<"varchar">>, 1, rows(1, 3, weights))
        two(weights) == d("two", <<"int", "varchar">>, 2, rows(2, 2, weights))
    IN  {sampleOf("distributions") @@ [dists |-> <<one([j \in 1..3 |-> <<x[j]>>]), two(y)>>, last |-> last] :
            x \in [1..3 -> {0, 1, 3}], y \in [1..2 -> {<<1, 2>>, <<2, 0>>}],
            last \in {<< >>, <<DC!create("one")>>, <<DC!setNames(<<"c1">>), DC!create("three"), DC!setNames(<<"c1">>)>>}}

MCDistFile ==
    LET entry(x, n) == [text |-> <<x>>, int |-> n]
        add(name, weight) == DC!add(<<entry(name, 0)>>, <<weight>>)
        colors == <<DC!create("colors"), DC!setTypes(<<"varchar">>), DC!setWeights(1),
                    DC!setNames(<<"name", "w">>), add("red", 1), add("blue", 2), add("red", 1)>>
        sizes  == <<DC!create("sizes"), DC!setTypes(<<"int", "varchar">>), DC!setWeights(2),
                    DC!setNames(<<"size", "label", "w1", "w2">>)>>
                  \o [j \in 1..3 |-> DC!add(<<entry(<<"2", "4", "6">>[j], 2 * j), entry(<<"s", "m", "l">>[j], 0)>>,
                                           <<<<2, 1, 2>>[j], <<3, 1, 0>>[j]>>)]
    IN  DC!distcomp([main |-> colors \o sizes], "main").output

\* A dialect, templates that print what they define, and those EndOf is about.
MCQueryFiles ==
    LET text(x) == Q!MakeReplacement(<<x>>, 1)
        constant(t) == Q!MakeStringConstant(t)
        stores == Q!rowcount([STORE |-> 9], [colors |-> 3], "STORE")
        random == Q!MakeFunctionCall("RANDOM", <<Q!MakeIntConstant(1), stores, Q!Keyword("UNIFORM")>>)
        named(x) == constant(<<x>>)
        fromDist(func, dist, a, b) == Q!MakeFunctionCall(func, <<named(dist), a, b>>)
        int(n) == Q!MakeIntConstant(n)
        color == fromDist("DIST", "colors", named("name"), int(1))
        key == Q!MakeVariableReference("K", 0)
        with(name, to, x) == Q!define(name, Q!makeArithmeticExpr("+", Q!MakeVariableReference(to, 0), x))
        bars(uses) == Q!query(FlattenSeq([i \in DOMAIN uses |-> <<Q!sql(<<"|">>), uses[i]>>]))
        one(name)  == Q!use(name, 0, 0)
        only(expr) == <<Q!define("D", expr), bars(<<one("D")>>)>>
    IN  [ansi |-> <<Q!define("__LIMITB", constant(<<"top ", "%d">>)), Q!define("_BEGIN", constant(<<"-- start">>)),
                    Q!define("_END", constant(<<"-- end">>))>>,
         a |-> <<Q!limit(10), Q!define("X", Q!MakeFunctionCall("TEXT", <<text("p"), text("q"), text("r")>>)),
                 with("A", "X", constant(<<"a">>)),
                 Q!define("V", Q!MakeFunctionCall("TEXT", <<text("s"), text("t")>>)), with("W", "V", constant(<<"w">>)),
                 Q!define("N", random), with("M", "N", Q!MakeIntConstant(1)),
                 Q!define("L", Q!MakeListExpr("ULIST", random, 3)), Q!define("R", Q!MakeListExpr("RANGE", random, 50)),
                 bars(<<one("X"), one("A"), one("V"), one("W"), one("N"), one("M"), Q!use("L", 0, 1),
                        Q!use("L", 0, 2), Q!use("L", 0, 3), one("R"), Q!use("R", 0, 1), one("_LIMITB")>>)>>,
         b |-> <<Q!define("L", Q!MakeListExpr("ULIST", color, 2)), bars(<<Q!use("L", 0, 1), Q!use("L", 0, 2)>>)>>,
         c |-> <<Q!limit(20), bars(<<one("_LIMITB"), one("_QUERY")>>)>>,
         e |-> <<Q!define("K", Q!MakeFunctionCall("RANDOM", <<int(1), int(3), Q!Keyword("UNIFORM")>>)),
                 Q!define("D", fromDist("DISTMEMBER", "sizes", key, int(1))), Q!define("G", fromDist("DISTMEMBER", "sizes", key, int(2))),
                 Q!define("H", fromDist("DISTWEIGHT", "sizes", key, named("w2"))),
                 Q!define("C", fromDist("DIST", "sizes", named("label"), named("w2"))),
                 bars(<<one("K"), one("D"), one("G"), one("H"), one("C")>>)>>,
         r |-> <<Q!define("R", Q!MakeListExpr("RANGE", fromDist("DIST", "sizes", named("size"), int(1)), 10)),
                 bars(<<one("R"), Q!use("R", 0, 1)>>)>>,
         numbered    |-> <<Q!define("N", random), bars(<<Q!use("N", 1, 0)>>)>>,
         digits      |-> <<Q!define("N2", random), bars(<<Q!use("N", 2, 0)>>)>>,
         fewColors   |-> <<Q!define("L", Q!MakeListExpr("ULIST", color, 3)), bars(<<Q!use("L", 0, 1)>>)>>,
         manyColors  |-> <<Q!define("L", Q!MakeListExpr("ULIST", color, 4)), bars(<<Q!use("L", 0, 1)>>)>>,
         noWeights   |-> only(fromDist("DIST", "colors", named("name"), named("other"))),
         firstWeight |-> only(fromDist("DISTWEIGHT", "colors", int(1), named("w"))),
         noValues    |-> only(fromDist("DIST", "colors", named("other"), int(1))),
         noEntry     |-> only(fromDist("DISTMEMBER", "colors", named("other"), int(1))),
         textRange   |-> only(Q!MakeListExpr("RANGE", color, 10)),
         noDist      |-> only(fromDist("DIST", "flavors", int(1), int(1)))]

QuerySamples ==
    LET queriesOf(n, qualify, names, shuffle, step, from) ==
            sampleOf("queries") @@
                [count |-> n, qualify |-> qualify, templates |-> names, shuffle |-> shuffle,
                 draws |-> [i \in 1..11 |-> (step * i + from) % 97]]
    IN  {queriesOf(n, qualify, names, shuffle, step, from) :
            n \in 1..2, qualify \in BOOLEAN, names \in {<<"a", "b", "c">>, <<"c", "b", "a">>, <<"e", "b", "c">>},
            shuffle \in {<<2, 3, 1>>, <<1, 1, 2>>}, step \in {3, 8, 17, 40}, from \in 0..3}
        \cup {queriesOf(1, TRUE, <<name>>, <<1>>, step, from) :
                name \in {"r"} \cup DOMAIN EndOf, step \in {3, 8, 15, 40}, from \in 0..4}

AmountSamples ==
    LET sales ==
            {[wholesale |-> w, quantity |-> q, markup |-> m, discount |-> d, couponUsage |-> u,
              coupon |-> c, shipping |-> 31, tax |-> 7] :
                w \in {137, 10000}, q \in {1, 7, 100}, m \in {0, 33, 200}, d \in {0, 7, 100},
                u \in {20, 21}, c \in {0, 67, 100}}
        backs ==
            {[quantity |-> 1, shipping |-> 17, cashPct |-> cash, creditPct |-> credit, fee |-> 61] :
                cash \in {0, 33, 100}, credit \in {1, 100}}
    IN  {sampleOf("amounts") @@ [of |-> "WS_PRICING", return |-> "WR_PRICING", sale |-> s, back |-> b] :
            s \in sales, b \in backs}
        \cup {sampleOf("amounts") @@ [of |-> "S_WLIN_PRICING", return |-> "S_WRET_PRICING", sale |-> s, back |-> b] :
            s \in {x \in sales : x.quantity = 7}, b \in {x \in backs : x.cashPct = 33}}
        \cup {sampleOf("amounts") @@ [of |-> "CS_PRICING", return |-> "CR_PRICING", sale |-> s,
                                      back |-> [b EXCEPT !.quantity = s.quantity]] :
            s \in {x \in sales : x.discount = 7}, b \in backs}

KeySamples ==
    {sampleOf("revision") @@ [id |-> id, table |-> t, day |-> day] :
        id \in 1..9, t \in {0, 1, 11, 24},
        day \in UNION {{x - 150, x - 66, x - 6, x, x + 1, x + 90} : x \in {K!jH1DataDate, K!jT1DataDate, K!jT2DataDate}}}
    \cup {sampleOf("line") @@ [number |-> n, key |-> k, terminate |-> t, null |-> b] :
        n \in {0, 7, 99, 100, 12345, -1, -99, -100, -250}, k \in {1, 15, 16, 462000, 16777215},
        t \in BOOLEAN, b \in BOOLEAN}
    \cup {sampleOf("entries") @@ [sizes |-> <<a, b, c>>] : a \in 1..4, b \in 1..3, c \in 1..3}

Samples ==
    DaySamples \cup RefreshSamples \cup OptionSamples \cup DistributionSamples \cup QuerySamples
    \cup AmountSamples \cup KeySamples

ToolkitInit == Init /\ sample \in IF plan = << >> THEN Samples ELSE {NoSample}
ToolkitNext == Next /\ UNCHANGED sample
ToolkitSpec == ToolkitInit /\ [][ToolkitNext]_allVars /\ \A p \in Procs : WF_vars(main(p))

\* What the theorems about the data generator ask of the plans, the scale and the builders.
ASSUME PlansAsked == ForcedApart /\ RevisedNotSplit
ASSUME BuildersAsked == SeedsSuffice(1..400) /\ LaterUntouched(1..400)
==============================================================================
