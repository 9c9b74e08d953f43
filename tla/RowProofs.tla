------------------------------- MODULE RowProofs -------------------------------
(***************************************************************************)
(* The streams the rows of a table draw from: no builder draws more than   *)
(* the seeds of a row, none touches the streams of a table after it, and   *)
(* therefore every row is built from the places a serial build has its     *)
(* streams at, for every plan of command lines and every scale.  The last  *)
(* part does the same for the days of the catalog orders, and finds the    *)
(* only chunks whose orders are late.                                      *)
(***************************************************************************)
EXTENDS DataGenerationProofs, RoutineProofs, WellFoundedInduction

(***************************************************************************)
(* What the builders draw: no more than their seeds, and nothing from the  *)
(* streams of the tables after them.                                       *)
(***************************************************************************)
JoinsAt(c) ==
    /\ \A x : /\ Exactly(mk_join(x, "CALL_CENTER"), c, x, 1) /\ Exactly(mk_join(x, "CUSTOMER"), c, x, 1)
              /\ Exactly(mk_join(x, "CUSTOMER_ADDRESS"), c, x, 1)
              /\ Exactly(mk_join(x, "CUSTOMER_DEMOGRAPHICS"), c, x, 1)
              /\ Exactly(mk_join(x, "HOUSEHOLD_DEMOGRAPHICS"), c, x, 1)
              /\ Exactly(mk_join(x, "ITEM"), c, x, 1) /\ Exactly(mk_join(x, "PROMOTION"), c, x, 1)
              /\ Exactly(mk_join(x, "REASON"), c, x, 1) /\ Exactly(mk_join(x, "SHIP_MODE"), c, x, 1)
              /\ Exactly(mk_join(x, "STORE"), c, x, 1) /\ Exactly(mk_join(x, "WAREHOUSE"), c, x, 1)
              /\ Exactly(mk_join(x, "WEB_PAGE"), c, x, 1) /\ Exactly(mk_join(x, "WEB_SITE"), c, x, 1)
              /\ Exactly(mk_join(x, "CATALOG_PAGE"), c, x, 2) /\ Exactly(mk_join(x, "TIME"), c, x, 2)
              /\ Exactly(mk_join(x, "DATE"), c, x, IF x \in {"WEB_OPEN_DATE", "WEB_CLOSE_DATE"} THEN 1 ELSE 2)
    /\ \A x, n : Exactly(makePermutation(x, n), c, x, n)

PricesAt(c) ==
    /\ \A x \in {"CS_PRICING", "SS_PRICING", "WS_PRICING", "S_CLIN_PRICING", "S_PLINE_PRICING", "S_WLIN_PRICING"} :
           Exactly(set_pricing(x), c, x, 8)
    /\ \A x \in {"CR_PRICING", "SR_PRICING", "WR_PRICING"} : Exactly(set_pricing(x), c, x, 4)
    /\ \A x \in {"S_CRET_PRICING", "S_SRET_PRICING", "S_WRET_PRICING"} : c \notin DOMAIN set_pricing(x)

\* A join draws a key, and a date or a place in a set of pages before it.
LEMMA JoinsDraw == \A c : JoinsAt(c)
<1> TAKE c
<1>1. RoutinesAt(c) /\ SumsAt(c)
      BY RoutinesDraw, Sums
<1>2. \A to \in {"CATALOG_PAGE", "TIME", "DATE"} : ~ IsFlagSet(to, "TYPE_2")
      BY DEF IsFlagSet, getSimpleTdefsByNumber, w_tdefs, s_tdefs, Refresh, tdef
<1>3. ASSUME NEW x, NEW to, to \notin {"CATALOG_PAGE", "TIME", "DATE"} PROVE Exactly(mk_join(x, to), c, x, 1)
      BY <1>1, <1>3 DEF mk_join, scd_join, RoutinesAt
<1>4. ASSUME NEW x PROVE Exactly(mk_join(x, "CATALOG_PAGE"), c, x, 2) /\ Exactly(mk_join(x, "TIME"), c, x, 2)
  <2>1. mk_join(x, "CATALOG_PAGE") = pick_distribution(x) (+) genrand_integer(x)
        BY <1>2 DEF mk_join, cp_join
  <2>2. mk_join(x, "TIME") = pick_distribution(x) (+) genrand_integer(x)
        BY <1>2 DEF mk_join, time_join
  <2> QED
      BY <1>1, <2>1, <2>2 DEF Exactly, RoutinesAt, SumsAt
<1>5. ASSUME NEW x
      PROVE  Exactly(mk_join(x, "DATE"), c, x, IF x \in {"WEB_OPEN_DATE", "WEB_CLOSE_DATE"} THEN 1 ELSE 2)
  <2>1. IF x \in {"WEB_OPEN_DATE", "WEB_CLOSE_DATE"} THEN date_join(x) = EmptyBag ELSE date_join(x) = Each(1, {x})
        BY DEF date_join, web_join, If, genrand_integer
  <2>2. mk_join(x, "DATE") = genrand_integer(x) (+) date_join(x)
        BY <1>2 DEF mk_join
  <2> QED
      BY <1>1, <2>1, <2>2, NoDraws DEF Exactly, RoutinesAt, SumsAt
<1>6. \A x, n : Exactly(makePermutation(x, n), c, x, n)
      BY <1>1 DEF RoutinesAt, Exactly, makePermutation
<1> QED
    BY <1>3, <1>4, <1>5, <1>6 DEF JoinsAt

LEMMA PricesDraw == \A c : PricesAt(c)
<1> TAKE c
<1>4. RoutinesAt(c) /\ c \notin DOMAIN EmptyBag
      BY RoutinesDraw, NoDraws
<1>1. \A x \in {"CS_PRICING", "SS_PRICING", "WS_PRICING", "S_CLIN_PRICING", "S_PLINE_PRICING", "S_WLIN_PRICING"} :
          set_pricing(x) = Each(8, {x})
      BY DEF set_pricing
<1>2. \A x \in {"CR_PRICING", "SR_PRICING", "WR_PRICING"} : set_pricing(x) = Each(4, {x})
      BY DEF set_pricing
<1>3. \A x \in {"S_CRET_PRICING", "S_SRET_PRICING", "S_WRET_PRICING"} : set_pricing(x) = EmptyBag
      BY DEF set_pricing
<1> QED
    BY <1>1, <1>2, <1>3, <1>4 DEF RoutinesAt, PricesAt, Exactly

DrawsAt(c, k) == SumsAt(c) /\ BranchesAt(c) /\ RoutinesAt(c) /\ TextsAt(c, k) /\ JoinsAt(c) /\ PricesAt(c)

LEMMA Draws == \A k \in Nat : \A c : DrawsAt(c, k)
BY Sums, Branches, RoutinesDraw, TextsDraw, JoinsDraw, PricesDraw DEF DrawsAt

\* Of the columns Within looks at, the draws are of those given and no more than the seeds of a
\* row; a column without seeds is one that the first row of a process draws.
Within(d, c, columns, first) ==
    c \in DOMAIN d =>
        /\ c \in columns /\ drawnFrom(c, d) \in Nat
        /\ IF nUsedPerRow[c] = 0 THEN first ELSE drawnFrom(c, d) <= nUsedPerRow[c]

LEMMA DimensionsDraw ==
    ASSUME NEW k \in Nat \ {0}, NEW first \in BOOLEAN, NEW c \in Columns
    PROVE  /\ Within(mk_w_call_center(k, first), c, randomColumns["CALL_CENTER"], first)
           /\ Within(mk_w_catalog_page(k, first), c, randomColumns["CATALOG_PAGE"], first)
           /\ Within(mk_w_customer(k, first), c, randomColumns["CUSTOMER"], first)
           /\ Within(mk_w_customer_address(k, first), c, randomColumns["CUSTOMER_ADDRESS"], first)
           /\ Within(mk_w_customer_demographics(k, first), c, randomColumns["CUSTOMER_DEMOGRAPHICS"], first)
           /\ Within(mk_w_date(k, first), c, randomColumns["DATE"], first)
           /\ Within(mk_w_household_demographics(k, first), c, randomColumns["HOUSEHOLD_DEMOGRAPHICS"], first)
           /\ Within(mk_w_income_band(k, first), c, randomColumns["INCOME_BAND"], first)
           /\ Within(mk_w_inventory(k, first), c, randomColumns["INVENTORY"], first)
           /\ Within(mk_w_item(k, first), c, randomColumns["ITEM"] \cup {"CC_HOURS"}, first)
           /\ Within(mk_w_promotion(k, first), c, randomColumns["PROMOTION"], first)
           /\ Within(mk_w_reason(k, first), c, randomColumns["REASON"], first)
           /\ Within(mk_w_ship_mode(k, first), c, randomColumns["SHIP_MODE"], first)
           /\ Within(mk_w_store(k, first), c, randomColumns["STORE"], first)
           /\ Within(mk_w_time(k, first), c, randomColumns["TIME"], first)
           /\ Within(mk_w_warehouse(k, first), c, randomColumns["WAREHOUSE"], first)
           /\ Within(mk_w_web_page(k, first), c, randomColumns["WEB_PAGE"], first)
           /\ Within(mk_w_web_site(k, first), c, randomColumns["WEB_SITE"], first)
           /\ Within(mk_dbgen_version(k, first), c, {}, first)
<1>1. DrawsAt(c, k) /\ bNewBKey(k) \in BOOLEAN
      BY Draws DEF bNewBKey
<1> USE <1>1 DEF DrawsAt, SumsAt, BranchesAt, RoutinesAt, TextsAt, JoinsAt, Exactly, AtMost, Within,
                 nUsedPerRow, randomColumns
<1>2. Within(mk_w_call_center(k, first), c, randomColumns["CALL_CENTER"], first)
      BY DEF mk_w_call_center
<1>3. Within(mk_w_catalog_page(k, first), c, randomColumns["CATALOG_PAGE"], first)
      BY DEF mk_w_catalog_page
<1>4. Within(mk_w_customer(k, first), c, randomColumns["CUSTOMER"], first)
      BY DEF mk_w_customer
<1>5. Within(mk_w_customer_address(k, first), c, randomColumns["CUSTOMER_ADDRESS"], first)
      BY DEF mk_w_customer_address
<1>6. Within(mk_w_customer_demographics(k, first), c, randomColumns["CUSTOMER_DEMOGRAPHICS"], first)
      BY DEF mk_w_customer_demographics
<1>7. Within(mk_w_date(k, first), c, randomColumns["DATE"], first)
      BY DEF mk_w_date
<1>8. Within(mk_w_household_demographics(k, first), c, randomColumns["HOUSEHOLD_DEMOGRAPHICS"], first)
      BY DEF mk_w_household_demographics
<1>9. Within(mk_w_income_band(k, first), c, randomColumns["INCOME_BAND"], first)
      BY DEF mk_w_income_band
<1>10. Within(mk_w_inventory(k, first), c, randomColumns["INVENTORY"], first)
      BY DEF mk_w_inventory
<1>11. Within(mk_w_item(k, first), c, randomColumns["ITEM"] \cup {"CC_HOURS"}, first)
      BY DEF mk_w_item
<1>12. Within(mk_w_promotion(k, first), c, randomColumns["PROMOTION"], first)
      BY DEF mk_w_promotion
<1>13. Within(mk_w_reason(k, first), c, randomColumns["REASON"], first)
      BY DEF mk_w_reason
<1>14. Within(mk_w_ship_mode(k, first), c, randomColumns["SHIP_MODE"], first)
      BY DEF mk_w_ship_mode
<1>15. Within(mk_w_store(k, first), c, randomColumns["STORE"], first)
      BY DEF mk_w_store
<1>16. Within(mk_w_time(k, first), c, randomColumns["TIME"], first)
      BY DEF mk_w_time
<1>17. Within(mk_w_warehouse(k, first), c, randomColumns["WAREHOUSE"], first)
      BY DEF mk_w_warehouse
<1>18. Within(mk_w_web_page(k, first), c, randomColumns["WEB_PAGE"], first)
      BY DEF mk_w_web_page
<1>19. Within(mk_w_web_site(k, first), c, randomColumns["WEB_SITE"], first)
      BY DEF mk_w_web_site
<1>20. Within(mk_dbgen_version(k, first), c, {}, first)
      BY NoDraws DEF mk_dbgen_version
<1> HIDE <1>1 DEF Within, nUsedPerRow, randomColumns
<1> QED
    BY <1>2, <1>3, <1>4, <1>5, <1>6, <1>7, <1>8, <1>9, <1>10, <1>11,
       <1>12, <1>13, <1>14, <1>15, <1>16, <1>17, <1>18, <1>19, <1>20

LEMMA IDCounts == \A t \in Tables : getIDCount(t) \in Nat
<1> SUFFICES ASSUME NEW t \in Tables PROVE getIDCount(t) \in Nat
    OBVIOUS
<1>1. get_rowcount(t) \in Nat
      BY ScalingAssumption DEF get_rowcount
<1>2. \A n \in Nat : IDsOf(n) \in Nat
  <2> TAKE n \in Nat
  <2>1. n \div 6 \in Nat
        OBVIOUS
  <2> QED
      BY <2>1 DEF IDsOf
<1> QED
    BY <1>1, <1>2 DEF getIDCount

LEMMA ColumnsApart ==
    ASSUME NEW t \in Random, NEW u \in Random, NEW c \in randomColumns[t], c \in randomColumns[u]
    PROVE  t = u
<1>1. \/ t \in {"CALL_CENTER", "CATALOG_PAGE", "CATALOG_RETURNS", "CATALOG_SALES", "CUSTOMER"}
      \/ t \in {"CUSTOMER_ADDRESS", "CUSTOMER_DEMOGRAPHICS", "DATE", "HOUSEHOLD_DEMOGRAPHICS",
                 "INCOME_BAND"}
      \/ t \in {"INVENTORY", "ITEM", "PROMOTION", "REASON", "SHIP_MODE"}
      \/ t \in {"STORE", "STORE_RETURNS", "STORE_SALES", "TIME", "WAREHOUSE"}
      \/ t \in {"WEB_PAGE", "WEB_RETURNS", "WEB_SALES", "WEB_SITE", "S_CALL_CENTER"}
      \/ t \in {"S_CATALOG_ORDER", "S_CATALOG_ORDER_LINEITEM", "S_CATALOG_RETURNS", "S_CUSTOMER",
                 "S_INVENTORY"}
      \/ t \in {"S_ITEM", "S_PROMOTION", "S_PURCHASE", "S_PURCHASE_LINEITEM", "S_STORE"}
      \/ t \in {"S_STORE_RETURNS", "S_WAREHOUSE", "S_WEB_ORDER", "S_WEB_ORDER_LINEITEM",
                 "S_WEB_PAGE"}
      \/ t \in {"S_WEB_RETURNS"}
      BY DEF Random, randomColumns
<1>2. CASE t \in {"CALL_CENTER", "CATALOG_PAGE", "CATALOG_RETURNS", "CATALOG_SALES", "CUSTOMER"}
      BY <1>2, SMTT(60) DEF Random, randomColumns
<1>3. CASE t \in {"CUSTOMER_ADDRESS", "CUSTOMER_DEMOGRAPHICS", "DATE", "HOUSEHOLD_DEMOGRAPHICS",
                  "INCOME_BAND"}
      BY <1>3, SMTT(30) DEF Random, randomColumns
<1>4. CASE t \in {"INVENTORY", "ITEM", "PROMOTION", "REASON", "SHIP_MODE"}
      BY <1>4, SMTT(60) DEF Random, randomColumns
<1>5. CASE t \in {"STORE", "STORE_RETURNS", "STORE_SALES", "TIME", "WAREHOUSE"}
      BY <1>5, SMTT(60) DEF Random, randomColumns
<1>6. CASE t \in {"WEB_PAGE", "WEB_RETURNS", "WEB_SALES", "WEB_SITE", "S_CALL_CENTER"}
      BY <1>6, SMTT(60) DEF Random, randomColumns
<1>7. CASE t \in {"S_CATALOG_ORDER", "S_CATALOG_ORDER_LINEITEM", "S_CATALOG_RETURNS", "S_CUSTOMER",
                  "S_INVENTORY"}
      BY <1>7, SMTT(60) DEF Random, randomColumns
<1>8. CASE t \in {"S_ITEM", "S_PROMOTION", "S_PURCHASE", "S_PURCHASE_LINEITEM", "S_STORE"}
      BY <1>8, SMTT(30) DEF Random, randomColumns
<1>9. CASE t \in {"S_STORE_RETURNS", "S_WAREHOUSE", "S_WEB_ORDER", "S_WEB_ORDER_LINEITEM",
                  "S_WEB_PAGE"}
      BY <1>9, SMTT(30) DEF Random, randomColumns
<1>10. CASE t \in {"S_WEB_RETURNS"}
      BY <1>10, SMTT(30) DEF Random, randomColumns
<1> QED
    BY <1>1, <1>2, <1>3, <1>4, <1>5, <1>6, <1>7, <1>8, <1>9, <1>10

\* Those drawn at most twice a row.
Few(columns) == {x \in columns : nUsedPerRow[x] <= 2}

\* A line draws from the columns only, and n of them no more than the seeds of an order.
PerLine(d, c, columns, n) ==
    c \in DOMAIN d =>
        /\ c \in columns /\ drawnFrom(c, d) \in Nat
        /\ nUsedPerRow[c] >= n /\ n * drawnFrom(c, d) <= nUsedPerRow[c]

LEMMA SaleLinesDraw ==
    ASSUME NEW k \in Nat \ {0}, NEW c \in Columns
    PROVE  /\ PerLine(store_sales_mk_detail, c, randomColumns["STORE_SALES"], 16)
           /\ PerLine(mk_w_store_returns, c, randomColumns["STORE_RETURNS"], 16)
           /\ PerLine(web_sales_mk_detail, c, randomColumns["WEB_SALES"], 16)
           /\ PerLine(mk_w_web_returns(k), c, randomColumns["WEB_RETURNS"], 16)
           /\ PerLine(catalog_sales_mk_detail, c, randomColumns["CATALOG_SALES"], 14)
           /\ PerLine(mk_w_catalog_returns(k), c, randomColumns["CATALOG_RETURNS"], 14)
<1>1. DrawsAt(c, k)
      BY Draws
<1> USE <1>1 DEF DrawsAt, SumsAt, RoutinesAt, JoinsAt, PricesAt, Exactly, PerLine, nUsedPerRow, randomColumns
<1>2. PerLine(store_sales_mk_detail, c, randomColumns["STORE_SALES"], 16)
      BY DEF store_sales_mk_detail
<1>3. PerLine(mk_w_store_returns, c, randomColumns["STORE_RETURNS"], 16)
      BY DEF mk_w_store_returns
<1>4. PerLine(web_sales_mk_detail, c, randomColumns["WEB_SALES"], 16)
      BY DEF web_sales_mk_detail
<1>5. PerLine(mk_w_web_returns(k), c, randomColumns["WEB_RETURNS"], 16)
      BY DEF mk_w_web_returns
<1>6. PerLine(catalog_sales_mk_detail, c, randomColumns["CATALOG_SALES"], 14)
      BY DEF catalog_sales_mk_detail
<1>7. PerLine(mk_w_catalog_returns(k), c, randomColumns["CATALOG_RETURNS"], 14)
      BY SMTT(60) DEF mk_w_catalog_returns
<1> HIDE <1>1 DEF PerLine, nUsedPerRow, randomColumns
<1> QED
    BY <1>2, <1>3, <1>4, <1>5, <1>6, <1>7

\* What comes before the lines, with the order's number.
LEMMA MastersDraw ==
    ASSUME NEW k \in Nat \ {0}, NEW first \in BOOLEAN, NEW c \in Columns
    PROVE  /\ Within(store_sales_mk_master(k, first) (+) genrand_integer("SS_TICKET_NUMBER"), c,
                     Few(randomColumns["STORE_SALES"]), first)
           /\ Within(web_sales_mk_master(k, first) (+) genrand_integer("WS_ORDER_NUMBER")
                     (+) If(first, makePermutation("WS_PERMUTATION", getIDCount("ITEM"))), c,
                     Few(randomColumns["WEB_SALES"]), first)
           /\ Within(catalog_sales_mk_master(k, first) (+) genrand_integer("CS_ORDER_NUMBER"), c,
                     Few(randomColumns["CATALOG_SALES"]), first)
<1>1. DrawsAt(c, k) /\ Chance(k) \in BOOLEAN /\ getIDCount("ITEM") \in Nat
  <2>1. "ITEM" \in Tables
        BY DEF Tables, Warehouse, w_tdefs
  <2> QED
      BY Draws, IDCounts, <2>1 DEF Chance
<1> USE <1>1 DEF DrawsAt, SumsAt, BranchesAt, RoutinesAt, JoinsAt, Exactly, Within, Few, nUsedPerRow, randomColumns
<1>2. Within(store_sales_mk_master(k, first) (+) genrand_integer("SS_TICKET_NUMBER"), c,
             Few(randomColumns["STORE_SALES"]), first)
      BY SMTT(60) DEF store_sales_mk_master
<1>3. Within(web_sales_mk_master(k, first) (+) genrand_integer("WS_ORDER_NUMBER")
             (+) If(first, makePermutation("WS_PERMUTATION", getIDCount("ITEM"))), c,
             Few(randomColumns["WEB_SALES"]), first)
      BY SMTT(60) DEF web_sales_mk_master
<1>4. Within(catalog_sales_mk_master(k, first) (+) genrand_integer("CS_ORDER_NUMBER"), c,
             Few(randomColumns["CATALOG_SALES"]), first)
      BY DEF catalog_sales_mk_master
<1> HIDE <1>1 DEF Within, nUsedPerRow, randomColumns
<1> QED
    BY <1>2, <1>3, <1>4

LEMMA SeedsNat == \A c \in Columns : nUsedPerRow[c] \in Nat
BY DEF nUsedPerRow

\* Fewer lines draw less.
LEMMA FewerLines == ASSUME NEW m \in Nat, NEW n \in Nat, m <= n, NEW x \in Nat PROVE m * x \in Nat /\ m * x <= n * x
<1>1. (n - m) * x \in Nat /\ n * x = m * x + (n - m) * x /\ m * x \in Nat
      BY SMT
<1> QED
    BY <1>1

\* An order: what comes before its lines, the lines and the returned lines.
Order(head, lines, detail, returned, return) ==
    head (+) Times(lines, detail) (+) If(returned > 0, Times(returned, return))

\* The columns of its head, of its lines and of its returned lines are apart.
LEMMA OrderDraws ==
    ASSUME NEW n \in Nat, n > 2, NEW lines \in 1..n, NEW returned \in 0..n, NEW first \in BOOLEAN,
           NEW c \in Columns, NEW columns, NEW others, columns \cap others = {},
           NEW head, NEW detail, NEW return,
           Within(head, c, Few(columns), first),
           PerLine(detail, c, columns, n), PerLine(return, c, others, n)
    PROVE  Within(Order(head, lines, detail, returned, return), c, columns \cup others, first)
<1> DEFINE h == drawnFrom(c, head)
           l == drawnFrom(c, detail)
           r == drawnFrom(c, return)
           whole == Order(head, lines, detail, returned, return)
<1>1. nUsedPerRow[c] \in Nat
      BY SeedsNat
<1>2. /\ c \in DOMAIN whole => c \in DOMAIN head \/ c \in DOMAIN detail \/ c \in DOMAIN return
      /\ drawnFrom(c, whole) = h + lines * l + (IF returned > 0 THEN returned * r ELSE 0)
  <2>1. SumsAt(c) /\ BranchesAt(c) /\ LinesAt(c)
        BY Sums, Branches
  <2>2. /\ c \in DOMAIN Times(lines, detail) <=> c \in DOMAIN detail
        /\ drawnFrom(c, Times(lines, detail)) = lines * l
        BY <2>1 DEF LinesAt
  <2>3. /\ c \in DOMAIN If(returned > 0, Times(returned, return)) => c \in DOMAIN return
        /\ drawnFrom(c, If(returned > 0, Times(returned, return))) = IF returned > 0 THEN returned * r ELSE 0
    <3>1. /\ c \in DOMAIN Times(returned, return) <=> c \in DOMAIN return
          /\ drawnFrom(c, Times(returned, return)) = returned * r
          BY <2>1 DEF LinesAt
    <3>2. returned > 0 => If(returned > 0, Times(returned, return)) = Times(returned, return)
          BY DEF If
    <3>3. ~ (returned > 0) => If(returned > 0, Times(returned, return)) = EmptyBag
          BY DEF If
    <3> HIDE DEF r
    <3> QED
        BY <3>1, <3>2, <3>3, NoDraws
  <2> HIDE DEF l, r
  <2> QED
      BY <2>1, <2>2, <2>3 DEF SumsAt, Order
<1>3. /\ c \notin DOMAIN head => h = 0
      /\ c \notin DOMAIN detail => l = 0
      /\ c \notin DOMAIN return => r = 0
      BY DEF drawnFrom
<1>4. c \in DOMAIN head => c \notin DOMAIN detail /\ c \notin DOMAIN return
      BY <1>1 DEF Within, PerLine, Few
<1>5. c \in DOMAIN detail => c \notin DOMAIN return
      BY DEF PerLine
<1>6. l \in Nat /\ r \in Nat
      BY <1>3 DEF PerLine
<1>7. lines * l \in Nat /\ lines * l <= n * l /\ returned * r \in Nat /\ returned * r <= n * r
      BY <1>6, FewerLines
<1> SUFFICES ASSUME c \in DOMAIN whole
             PROVE  /\ c \in columns \cup others /\ drawnFrom(c, whole) \in Nat
                    /\ IF nUsedPerRow[c] = 0 THEN first ELSE drawnFrom(c, whole) <= nUsedPerRow[c]
    BY DEF Within
<1>8. CASE c \in DOMAIN head
  <2>1. lines * l = 0 /\ returned * r = 0
        BY <1>3, <1>4, <1>8
  <2>2. c \in columns /\ h \in Nat /\ IF nUsedPerRow[c] = 0 THEN first ELSE h <= nUsedPerRow[c]
        BY <1>8 DEF Within, Few
  <2>3. drawnFrom(c, whole) = h
    <3> HIDE DEF h, l, r, whole
    <3> QED
        BY <1>2, <2>1, <2>2
  <2> HIDE DEF h, whole
  <2> QED
      BY <2>2, <2>3
<1>9. CASE c \in DOMAIN detail
  <2>1. h = 0 /\ returned * r = 0
        BY <1>3, <1>4, <1>5, <1>9
  <2>2. c \in columns /\ nUsedPerRow[c] >= n /\ n * l <= nUsedPerRow[c]
        BY <1>9 DEF PerLine
  <2>3. n * l \in Nat
        BY <1>6
  <2> HIDE DEF h, l, r, whole
  <2> QED
      BY <1>1, <1>2, <1>7, <2>1, <2>2, <2>3
<1>10. CASE c \in DOMAIN return
  <2>1. h = 0 /\ lines * l = 0
        BY <1>3, <1>4, <1>5, <1>10
  <2>2. c \in others /\ nUsedPerRow[c] >= n /\ n * r <= nUsedPerRow[c]
        BY <1>10 DEF PerLine
  <2>3. n * r \in Nat
        BY <1>6
  <2> HIDE DEF h, l, r, whole
  <2> QED
      BY <1>1, <1>2, <1>7, <2>1, <2>2, <2>3
<1> QED
    BY <1>2, <1>8, <1>9, <1>10

LEMMA SalesDraw ==
    ASSUME NEW k \in Nat \ {0}, NEW first \in BOOLEAN, NEW c \in Columns
    PROVE  /\ Within(mk_w_store_sales(k, first), c,
                     randomColumns["STORE_SALES"] \cup randomColumns["STORE_RETURNS"], first)
           /\ Within(mk_w_web_sales(k, first), c,
                     randomColumns["WEB_SALES"] \cup randomColumns["WEB_RETURNS"], first)
           /\ Within(mk_w_catalog_sales(k, first), c,
                     randomColumns["CATALOG_SALES"] \cup randomColumns["CATALOG_RETURNS"], first)
<1>1. /\ randomColumns["STORE_SALES"] \cap randomColumns["STORE_RETURNS"] = {}
      /\ randomColumns["WEB_SALES"] \cap randomColumns["WEB_RETURNS"] = {}
      /\ randomColumns["CATALOG_SALES"] \cap randomColumns["CATALOG_RETURNS"] = {}
  <2>1. {"STORE_SALES", "STORE_RETURNS", "WEB_SALES", "WEB_RETURNS", "CATALOG_SALES", "CATALOG_RETURNS"}
        \subseteq Random
        BY DEF Random, randomColumns
  <2> QED
      BY <2>1, ColumnsApart
<1>2. \A d \in Nat \ {0} : k % d \in 0 .. (d - 1)
      OBVIOUS
<1>3. Within(mk_w_store_sales(k, first), c,
             randomColumns["STORE_SALES"] \cup randomColumns["STORE_RETURNS"], first)
  <2> DEFINE lines == Between(8, 16, k)
             returned == k % lines
             head == store_sales_mk_master(k, first) (+) genrand_integer("SS_TICKET_NUMBER")
  <2>1. lines \in 1..16 /\ returned \in 0..16
        BY <1>2 DEF Between
  <2>2. Within(head, c, Few(randomColumns["STORE_SALES"]), first)
        BY MastersDraw
  <2> HIDE DEF lines, returned, head
  <2> DEFINE detail    == store_sales_mk_detail
             return  == mk_w_store_returns
             columns == randomColumns["STORE_SALES"]
             others  == randomColumns["STORE_RETURNS"]
  <2>3. PerLine(detail, c, columns, 16) /\ PerLine(return, c, others, 16)
        BY SaleLinesDraw
  <2>4. columns \cap others = {} /\ Within(head, c, Few(columns), first)
        BY <1>1, <2>2
  <2> HIDE DEF detail, return, columns, others
  <2>5. Within(Order(head, lines, detail, returned, return), c, columns \cup others, first)
        BY <2>1, <2>3, <2>4, OrderDraws
  <2> QED
      BY <2>5 DEF mk_w_store_sales, Order, lines, returned, head, detail, return, columns, others
<1>4. Within(mk_w_web_sales(k, first), c,
             randomColumns["WEB_SALES"] \cup randomColumns["WEB_RETURNS"], first)
  <2> DEFINE lines == Between(8, 16, k)
             returned == k % lines
             head == web_sales_mk_master(k, first) (+) genrand_integer("WS_ORDER_NUMBER")
                     (+) If(first, makePermutation("WS_PERMUTATION", getIDCount("ITEM")))
  <2>1. lines \in 1..16 /\ returned \in 0..16
        BY <1>2 DEF Between
  <2>2. Within(head, c, Few(randomColumns["WEB_SALES"]), first)
        BY MastersDraw
  <2> HIDE DEF lines, returned, head
  <2> DEFINE detail    == web_sales_mk_detail
             return  == mk_w_web_returns(k)
             columns == randomColumns["WEB_SALES"]
             others  == randomColumns["WEB_RETURNS"]
  <2>3. PerLine(detail, c, columns, 16) /\ PerLine(return, c, others, 16)
        BY SaleLinesDraw
  <2>4. columns \cap others = {} /\ Within(head, c, Few(columns), first)
        BY <1>1, <2>2
  <2> HIDE DEF detail, return, columns, others
  <2>5. Within(Order(head, lines, detail, returned, return), c, columns \cup others, first)
        BY <2>1, <2>3, <2>4, OrderDraws
  <2> QED
      BY <2>5 DEF mk_w_web_sales, Order, lines, returned, head, detail, return, columns, others
<1>5. Within(mk_w_catalog_sales(k, first), c,
             randomColumns["CATALOG_SALES"] \cup randomColumns["CATALOG_RETURNS"], first)
  <2> DEFINE lines == Between(4, 14, k)
             returned == k % lines
             head == catalog_sales_mk_master(k, first) (+) genrand_integer("CS_ORDER_NUMBER")
  <2>1. lines \in 1..14 /\ returned \in 0..14
        BY <1>2 DEF Between
  <2>2. Within(head, c, Few(randomColumns["CATALOG_SALES"]), first)
        BY MastersDraw
  <2> HIDE DEF lines, returned, head
  <2> DEFINE detail    == catalog_sales_mk_detail
             return  == mk_w_catalog_returns(k)
             columns == randomColumns["CATALOG_SALES"]
             others  == randomColumns["CATALOG_RETURNS"]
  <2>3. PerLine(detail, c, columns, 14) /\ PerLine(return, c, others, 14)
        BY SaleLinesDraw
  <2>4. columns \cap others = {} /\ Within(head, c, Few(columns), first)
        BY <1>1, <2>2
  <2> HIDE DEF detail, return, columns, others
  <2>5. Within(Order(head, lines, detail, returned, return), c, columns \cup others, first)
        BY <2>1, <2>3, <2>4, OrderDraws
  <2> QED
      BY <2>5 DEF mk_w_catalog_sales, Order, lines, returned, head, detail, return, columns, others
<1> QED
    BY <1>3, <1>4, <1>5

\* Of the lines of an order of the refresh set some are returned.  A stream from which
\* a line draws as often whether it is returned or not:
LEMMA LinesDraw ==
    ASSUME NEW n \in Nat \ {0}, NEW k \in Nat, NEW c, NEW returned, NEW kept,
           c \in DOMAIN returned <=> c \in DOMAIN kept,
           drawnFrom(c, returned) = drawnFrom(c, kept), drawnFrom(c, kept) \in Nat
    PROVE  /\ c \in DOMAIN Lines(n, k, returned, kept) => c \in DOMAIN kept
           /\ drawnFrom(c, Lines(n, k, returned, kept)) = n * drawnFrom(c, kept)
<1> DEFINE r == k % (n + 1)
           x == If(r > 0, Times(r, returned))
           y == If(r < n, Times(n - r, kept))
           l == drawnFrom(c, kept)
<1>1. r \in 0..n
  <2>1. \A d \in Nat \ {0} : k % d \in 0..(d - 1)
        OBVIOUS
  <2>2. n + 1 \in Nat \ {0} /\ (n + 1) - 1 = n
        OBVIOUS
  <2>3. k % (n + 1) \in 0..((n + 1) - 1)
        BY <2>1, <2>2
  <2> QED
      BY <2>2, <2>3
<1>2. Lines(n, k, returned, kept) = x (+) y
      BY DEF Lines
<1> HIDE DEF r
<1>3. SumsAt(c) /\ LinesAt(c) /\ c \notin DOMAIN EmptyBag /\ drawnFrom(c, EmptyBag) = 0
      BY Sums, Branches, NoDraws
<1>4. /\ r \in Nat /\ n - r \in Nat
      /\ c \in DOMAIN Times(r, returned) <=> c \in DOMAIN kept
      /\ c \in DOMAIN Times(n - r, kept) <=> c \in DOMAIN kept
      /\ drawnFrom(c, Times(r, returned)) = r * l /\ drawnFrom(c, Times(n - r, kept)) = (n - r) * l
  <2>1. r \in Nat /\ n - r \in Nat
        BY <1>1
  <2>2. \A d : \A m \in Nat : /\ c \in DOMAIN Times(m, d) <=> c \in DOMAIN d
                              /\ drawnFrom(c, Times(m, d)) = m * drawnFrom(c, d)
        BY <1>3 DEF LinesAt
  <2> QED
      BY <2>1, <2>2
<1>5. (c \in DOMAIN x => c \in DOMAIN kept) /\ drawnFrom(c, x) = r * l
  <2>1. CASE r > 0
        BY <1>4, <2>1 DEF If
  <2>2. CASE ~ (r > 0)
    <3>1. x = EmptyBag /\ r = 0
          BY <1>1, <2>2 DEF If
    <3>2. 0 * l = 0
          OBVIOUS
    <3> HIDE DEF x, l
    <3> QED
        BY <1>3, <3>1, <3>2
  <2> QED
      BY <2>1, <2>2
<1>6. (c \in DOMAIN y => c \in DOMAIN kept) /\ drawnFrom(c, y) = (n - r) * l
  <2>1. CASE r < n
        BY <1>4, <2>1 DEF If
  <2>2. CASE ~ (r < n)
    <3>1. y = EmptyBag /\ n - r = 0
          BY <1>1, <2>2 DEF If
    <3>2. 0 * l = 0
          OBVIOUS
    <3> HIDE DEF y, l
    <3> QED
        BY <1>3, <3>1, <3>2
  <2> QED
      BY <2>1, <2>2
<1>7. r * l + (n - r) * l = n * l
      BY <1>1 DEF l
<1> HIDE DEF x, y, l
<1>8. /\ c \in DOMAIN (x (+) y) <=> c \in DOMAIN x \/ c \in DOMAIN y
      /\ drawnFrom(c, x (+) y) = drawnFrom(c, x) + drawnFrom(c, y)
      BY <1>3 DEF SumsAt
<1> QED
    BY <1>2, <1>5, <1>6, <1>7, <1>8 DEF l

\* An order of the refresh set: its head and its n lines.
LEMMA LinedDraws ==
    ASSUME NEW n \in Nat \ {0}, NEW k \in Nat, NEW first \in BOOLEAN, NEW c \in Columns,
           NEW columns, NEW others, columns \cap others = {}, NEW head, NEW returned, NEW kept,
           c \in DOMAIN returned <=> c \in DOMAIN kept,
           drawnFrom(c, returned) = drawnFrom(c, kept),
           Within(head, c, columns, first), PerLine(kept, c, others, n)
    PROVE  Within(head (+) Lines(n, k, returned, kept), c, columns \cup others, first)
<1> DEFINE lines == Lines(n, k, returned, kept)
           l     == drawnFrom(c, kept)
<1>1. nUsedPerRow[c] \in Nat
      BY SeedsNat
<1>2. c \notin DOMAIN kept => l = 0
      BY DEF drawnFrom
<1>3. l \in Nat
      BY <1>2 DEF PerLine
<1>4. (c \in DOMAIN lines => c \in DOMAIN kept) /\ drawnFrom(c, lines) = n * l
      BY <1>3, LinesDraw
<1>5. /\ c \in DOMAIN (head (+) lines) <=> c \in DOMAIN head \/ c \in DOMAIN lines
      /\ drawnFrom(c, head (+) lines) = drawnFrom(c, head) + drawnFrom(c, lines)
      BY Sums DEF SumsAt
<1>6. n * l \in Nat /\ n * 0 = 0
      BY <1>3
<1>7. c \notin DOMAIN head => drawnFrom(c, head) = 0
      BY DEF drawnFrom
<1> HIDE DEF lines
<1> SUFFICES ASSUME c \in DOMAIN (head (+) lines)
             PROVE  /\ c \in columns \cup others /\ drawnFrom(c, head (+) lines) \in Nat
                    /\ IF nUsedPerRow[c] = 0 THEN first ELSE drawnFrom(c, head (+) lines) <= nUsedPerRow[c]
    BY DEF Within, lines
<1>8. CASE c \in DOMAIN head
  <2>1. c \in columns /\ drawnFrom(c, head) \in Nat
        /\ IF nUsedPerRow[c] = 0 THEN first ELSE drawnFrom(c, head) <= nUsedPerRow[c]
        BY <1>8 DEF Within
  <2>2. l = 0
        BY <1>2, <2>1 DEF PerLine
  <2>3. drawnFrom(c, head (+) lines) = drawnFrom(c, head)
    <3> HIDE DEF l
    <3> QED
        BY <1>4, <1>5, <1>6, <2>1, <2>2
  <2> QED
      BY <2>1, <2>3
<1>9. CASE c \notin DOMAIN head
  <2>1. c \in others /\ nUsedPerRow[c] >= n /\ n * l <= nUsedPerRow[c]
        BY <1>4, <1>5, <1>9 DEF PerLine
  <2>2. drawnFrom(c, head (+) lines) = n * l
    <3> HIDE DEF l
    <3> QED
        BY <1>4, <1>5, <1>6, <1>7, <1>9
  <2> HIDE DEF l
  <2> QED
      BY <1>1, <1>6, <2>1, <2>2
<1> QED
    BY <1>8, <1>9


\* A purchase and a web order of the refresh set, and their lines, in their own streams.
LEMMA RefreshLinesDraw ==
    ASSUME NEW k \in Nat \ {0}, NEW c \in Columns
    PROVE  /\ c \in randomColumns["S_PURCHASE"] \cup randomColumns["S_PURCHASE_LINEITEM"] =>
                  /\ PerLine(purchase_mk_detail(k, FALSE), c,
                             randomColumns["S_PURCHASE_LINEITEM"] \ {"S_PLINE_PERMUTE"}, 12)
                  /\ c \in DOMAIN purchase_mk_detail(k, TRUE) <=> c \in DOMAIN purchase_mk_detail(k, FALSE)
                  /\ drawnFrom(c, purchase_mk_detail(k, TRUE)) = drawnFrom(c, purchase_mk_detail(k, FALSE))
           /\ c \in randomColumns["S_WEB_ORDER"] \cup randomColumns["S_WEB_ORDER_LINEITEM"] =>
                  /\ PerLine(web_order_mk_detail(FALSE), c,
                             randomColumns["S_WEB_ORDER_LINEITEM"] \ {"S_WLIN_PERMUTE"}, 12)
                  /\ c \in DOMAIN web_order_mk_detail(TRUE) <=> c \in DOMAIN web_order_mk_detail(FALSE)
                  /\ drawnFrom(c, web_order_mk_detail(TRUE)) = drawnFrom(c, web_order_mk_detail(FALSE))
<1>1. /\ purchase_mk_detail(k, TRUE)
            = mk_s_pline(k) (+) genrand_integer("S_PLINE_IS_RETURNED") (+) mk_s_store_returns
      /\ purchase_mk_detail(k, FALSE)
            = mk_s_pline(k) (+) genrand_integer("S_PLINE_IS_RETURNED") (+) EmptyBag
      /\ web_order_mk_detail(TRUE)
            = mk_s_web_order_lineitem (+) genrand_integer("S_WLIN_IS_RETURNED") (+) mk_s_web_return
      /\ web_order_mk_detail(FALSE)
            = mk_s_web_order_lineitem (+) genrand_integer("S_WLIN_IS_RETURNED") (+) EmptyBag
      BY DEF purchase_mk_detail, web_order_mk_detail, If
<1>2. DrawsAt(c, k) /\ LinesAt(c) /\ 2 \in Nat /\ c \notin DOMAIN EmptyBag /\ drawnFrom(c, EmptyBag) = 0
      BY Draws, Branches, NoDraws
<1> USE <1>2 DEF DrawsAt, SumsAt, LinesAt, RoutinesAt, TextsAt, JoinsAt, PricesAt, Exactly, AtMost, PerLine,
                 nUsedPerRow, randomColumns
<1>3. c \in randomColumns["S_PURCHASE"] \cup randomColumns["S_PURCHASE_LINEITEM"] =>
          c \notin DOMAIN mk_s_store_returns
      BY DEF mk_s_store_returns
<1>4. c \in randomColumns["S_WEB_ORDER"] \cup randomColumns["S_WEB_ORDER_LINEITEM"] =>
          c \notin DOMAIN mk_s_web_return
      BY DEF mk_s_web_return
<1>5. PerLine(mk_s_pline(k) (+) genrand_integer("S_PLINE_IS_RETURNED") (+) EmptyBag, c,
              randomColumns["S_PURCHASE_LINEITEM"] \ {"S_PLINE_PERMUTE"}, 12)
      BY DEF mk_s_pline
<1>6. PerLine(mk_s_web_order_lineitem (+) genrand_integer("S_WLIN_IS_RETURNED") (+) EmptyBag, c,
              randomColumns["S_WEB_ORDER_LINEITEM"] \ {"S_WLIN_PERMUTE"}, 12)
      BY DEF mk_s_web_order_lineitem
<1> HIDE <1>2 DEF PerLine, nUsedPerRow, randomColumns
<1>7. ASSUME NEW d, NEW x, c \notin DOMAIN x
      PROVE  /\ c \in DOMAIN (d (+) x) <=> c \in DOMAIN (d (+) EmptyBag)
             /\ drawnFrom(c, d (+) x) = drawnFrom(c, d (+) EmptyBag)
  <2>1. drawnFrom(c, x) = 0
        BY <1>7 DEF drawnFrom
  <2> QED
      BY <1>7, <2>1, Sums, NoDraws DEF SumsAt
<1> QED
    BY <1>1, <1>3, <1>4, <1>5, <1>6, <1>7

LEMMA RefreshHeadsDraw ==
    ASSUME NEW k \in Nat \ {0}, NEW first \in BOOLEAN, NEW c \in Columns
    PROVE  /\ Within(purchase_mk_master(k) (+) genrand_integer("S_PLINE_ITEM_ID")
                     (+) If(first, makePermutation("S_PLINE_PERMUTE", getIDCount("ITEM"))), c,
                     randomColumns["S_PURCHASE"] \cup {"S_PLINE_PERMUTE"}, first)
           /\ Within(web_order_mk_master(k) (+) genrand_integer("S_WLIN_ITEM_ID")
                     (+) If(first, makePermutation("S_WLIN_PERMUTE", getIDCount("ITEM"))), c,
                     randomColumns["S_WEB_ORDER"] \cup {"S_WLIN_PERMUTE"}, first)
           /\ Within(mk_s_inventory(k, first), c, randomColumns["S_INVENTORY"], first)
<1>1. DrawsAt(c, k) /\ Chance(k) \in BOOLEAN /\ getIDCount("ITEM") \in Nat
  <2>1. "ITEM" \in Tables
        BY DEF Tables, Warehouse, w_tdefs
  <2> QED
      BY Draws, IDCounts, <2>1 DEF Chance
<1> USE <1>1 DEF DrawsAt, SumsAt, BranchesAt, RoutinesAt, TextsAt, JoinsAt, Exactly, AtMost, Within, nUsedPerRow,
                 randomColumns
<1>2. Within(purchase_mk_master(k) (+) genrand_integer("S_PLINE_ITEM_ID")
             (+) If(first, makePermutation("S_PLINE_PERMUTE", getIDCount("ITEM"))), c,
             randomColumns["S_PURCHASE"] \cup {"S_PLINE_PERMUTE"}, first)
      BY DEF purchase_mk_master
<1>3. Within(web_order_mk_master(k) (+) genrand_integer("S_WLIN_ITEM_ID")
             (+) If(first, makePermutation("S_WLIN_PERMUTE", getIDCount("ITEM"))), c,
             randomColumns["S_WEB_ORDER"] \cup {"S_WLIN_PERMUTE"}, first)
      BY DEF web_order_mk_master
<1>4. Within(mk_s_inventory(k, first), c, randomColumns["S_INVENTORY"], first)
      BY DEF mk_s_inventory
<1> HIDE <1>1 DEF Within, nUsedPerRow, randomColumns
<1> QED
    BY <1>2, <1>3, <1>4


LEMMA RefreshOrdersDraw ==
    ASSUME NEW k \in Nat \ {0}, NEW first \in BOOLEAN, NEW c \in Columns
    PROVE  /\ c \in randomColumns["S_PURCHASE"] \cup randomColumns["S_PURCHASE_LINEITEM"] =>
                  Within(mk_s_purchase(k, first), c,
                         randomColumns["S_PURCHASE"] \cup randomColumns["S_PURCHASE_LINEITEM"], first)
           /\ c \in randomColumns["S_WEB_ORDER"] \cup randomColumns["S_WEB_ORDER_LINEITEM"] =>
                  Within(mk_s_web_order(k, first), c,
                         randomColumns["S_WEB_ORDER"] \cup randomColumns["S_WEB_ORDER_LINEITEM"], first)
<1>1. /\ randomColumns["S_PURCHASE"] \cap randomColumns["S_PURCHASE_LINEITEM"] = {}
      /\ randomColumns["S_WEB_ORDER"] \cap randomColumns["S_WEB_ORDER_LINEITEM"] = {}
  <2>1. {"S_PURCHASE", "S_PURCHASE_LINEITEM", "S_WEB_ORDER", "S_WEB_ORDER_LINEITEM"} \subseteq Random
        BY DEF Random, randomColumns
  <2> QED
      BY <2>1, ColumnsApart
<1>2. /\ "S_PLINE_PERMUTE" \in randomColumns["S_PURCHASE_LINEITEM"]
      /\ "S_WLIN_PERMUTE" \in randomColumns["S_WEB_ORDER_LINEITEM"]
      BY DEF randomColumns
<1>3. ASSUME c \in randomColumns["S_PURCHASE"] \cup randomColumns["S_PURCHASE_LINEITEM"]
      PROVE  Within(mk_s_purchase(k, first), c,
                    randomColumns["S_PURCHASE"] \cup randomColumns["S_PURCHASE_LINEITEM"], first)
  <2> DEFINE head     == purchase_mk_master(k) (+) genrand_integer("S_PLINE_ITEM_ID")
                         (+) If(first, makePermutation("S_PLINE_PERMUTE", getIDCount("ITEM")))
             returned == purchase_mk_detail(k, TRUE)
             kept     == purchase_mk_detail(k, FALSE)
             columns  == randomColumns["S_PURCHASE"] \cup {"S_PLINE_PERMUTE"}
             others   == randomColumns["S_PURCHASE_LINEITEM"] \ {"S_PLINE_PERMUTE"}
  <2>1. /\ PerLine(kept, c, others, 12) /\ (c \in DOMAIN returned <=> c \in DOMAIN kept)
        /\ drawnFrom(c, returned) = drawnFrom(c, kept)
        BY <1>3, RefreshLinesDraw
  <2>2. Within(head, c, columns, first)
        BY RefreshHeadsDraw
  <2>3. columns \cap others = {}
        BY <1>1
  <2>4. columns \cup others = randomColumns["S_PURCHASE"] \cup randomColumns["S_PURCHASE_LINEITEM"]
        BY <1>2
  <2>5. mk_s_purchase(k, first) = head (+) Lines(12, k, returned, kept)
        BY DEF mk_s_purchase
  <2> HIDE DEF head, returned, kept, columns, others
  <2>6. 12 \in Nat \ {0} /\ k \in Nat
        OBVIOUS
  <2>7. Within(head (+) Lines(12, k, returned, kept), c, columns \cup others, first)
        BY <2>1, <2>2, <2>3, <2>6, LinedDraws
  <2> QED
      BY <2>4, <2>5, <2>7
<1>4. ASSUME c \in randomColumns["S_WEB_ORDER"] \cup randomColumns["S_WEB_ORDER_LINEITEM"]
      PROVE  Within(mk_s_web_order(k, first), c,
                    randomColumns["S_WEB_ORDER"] \cup randomColumns["S_WEB_ORDER_LINEITEM"], first)
  <2> DEFINE head     == web_order_mk_master(k) (+) genrand_integer("S_WLIN_ITEM_ID")
                         (+) If(first, makePermutation("S_WLIN_PERMUTE", getIDCount("ITEM")))
             returned == web_order_mk_detail(TRUE)
             kept     == web_order_mk_detail(FALSE)
             columns  == randomColumns["S_WEB_ORDER"] \cup {"S_WLIN_PERMUTE"}
             others   == randomColumns["S_WEB_ORDER_LINEITEM"] \ {"S_WLIN_PERMUTE"}
  <2>1. /\ PerLine(kept, c, others, 12) /\ (c \in DOMAIN returned <=> c \in DOMAIN kept)
        /\ drawnFrom(c, returned) = drawnFrom(c, kept)
        BY <1>4, RefreshLinesDraw
  <2>2. Within(head, c, columns, first)
        BY RefreshHeadsDraw
  <2>3. columns \cap others = {}
        BY <1>1
  <2>4. columns \cup others = randomColumns["S_WEB_ORDER"] \cup randomColumns["S_WEB_ORDER_LINEITEM"]
        BY <1>2
  <2>5. mk_s_web_order(k, first) = head (+) Lines(12, k, returned, kept)
        BY DEF mk_s_web_order
  <2> HIDE DEF head, returned, kept, columns, others
  <2>6. 12 \in Nat \ {0} /\ k \in Nat
        OBVIOUS
  <2>7. Within(head (+) Lines(12, k, returned, kept), c, columns \cup others, first)
        BY <2>1, <2>2, <2>3, <2>6, LinedDraws
  <2> QED
      BY <2>4, <2>5, <2>7
<1> QED
    BY <1>3, <1>4


LEMMA LinesReach ==
    ASSUME NEW n, NEW k, NEW c, NEW returned, NEW kept, c \in DOMAIN Lines(n, k, returned, kept)
    PROVE  c \in DOMAIN returned \/ c \in DOMAIN kept
<1>1. \A p, d : c \in DOMAIN If(p, d) => c \in DOMAIN d
  <2> TAKE p, d
  <2>1. If(p, d) \in {d, EmptyBag}
        BY DEF If
  <2> QED
      BY <2>1, NoDraws
<1>2. \A m, d : c \in DOMAIN Times(m, d) => c \in DOMAIN d
      BY DEF Times
<1> QED
    BY <1>1, <1>2, Sums DEF Lines, SumsAt

\* The tables of the refresh set whose streams are relied on.
Relied == {"S_PURCHASE", "S_PURCHASE_LINEITEM", "S_WEB_ORDER", "S_WEB_ORDER_LINEITEM", "S_INVENTORY"}

\* No other builder of the refresh set draws from these streams.
LEMMA RefreshApart ==
    ASSUME NEW k \in Nat \ {0}, NEW first \in BOOLEAN, NEW c \in Columns,
           \E t \in Relied : c \in randomColumns[t]
    PROVE  /\ c \notin DOMAIN mk_s_call_center(k, first) /\ c \notin DOMAIN mk_s_catalog_order(k, first)
           /\ c \notin DOMAIN mk_s_catalog_page(k, first) /\ c \notin DOMAIN mk_s_customer(k, first)
           /\ c \notin DOMAIN mk_s_item(k, first) /\ c \notin DOMAIN mk_s_promotion(k, first)
           /\ c \notin DOMAIN mk_s_store(k, first) /\ c \notin DOMAIN mk_s_warehouse(k, first)
           /\ c \notin DOMAIN mk_s_web_page(k, first) /\ c \notin DOMAIN mk_s_zip(k, first)
           /\ c \notin DOMAIN mk_w_customer_address(k, first) /\ c \notin DOMAIN mk_w_web_site(k, first)
           /\ c \in DOMAIN mk_s_purchase(k, first) =>
                  c \in randomColumns["S_PURCHASE"] \cup randomColumns["S_PURCHASE_LINEITEM"]
           /\ c \in DOMAIN mk_s_web_order(k, first) =>
                  c \in randomColumns["S_WEB_ORDER"] \cup randomColumns["S_WEB_ORDER_LINEITEM"]
           /\ c \in DOMAIN mk_s_inventory(k, first) => c \in randomColumns["S_INVENTORY"]
<1>1. \/ c \in randomColumns["S_PURCHASE"] \/ c \in randomColumns["S_PURCHASE_LINEITEM"]
      \/ c \in randomColumns["S_WEB_ORDER"] \/ c \in randomColumns["S_WEB_ORDER_LINEITEM"]
      \/ c \in randomColumns["S_INVENTORY"]
      BY DEF Relied
<1>2. DrawsAt(c, k) /\ Chance(k) \in BOOLEAN
      BY Draws DEF Chance
<1>3. \A p, d : c \in DOMAIN If(p, d) => c \in DOMAIN d
  <2> TAKE p, d
  <2>1. If(p, d) \in {d, EmptyBag}
        BY DEF If
  <2> QED
      BY <2>1, NoDraws
<1>4. \A t \in {"CALL_CENTER", "CATALOG_PAGE", "ITEM", "PROMOTION", "STORE", "WAREHOUSE", "WEB_PAGE", "WEB_SITE",
                "CUSTOMER_ADDRESS"} : c \notin randomColumns[t]
  <2>1. {"CALL_CENTER", "CATALOG_PAGE", "ITEM", "PROMOTION", "STORE", "WAREHOUSE", "WEB_PAGE", "WEB_SITE",
         "CUSTOMER_ADDRESS"} \cup Relied \subseteq Random
        BY DEF Random, randomColumns, Relied
  <2> QED
      BY <2>1, ColumnsApart DEF Relied
<1>5. c # "CC_HOURS"
      BY <1>4 DEF randomColumns
<1>6. /\ c \notin DOMAIN mk_w_call_center(k, first) /\ c \notin DOMAIN mk_w_catalog_page(k, first)
      /\ c \notin DOMAIN mk_w_item(k, first) /\ c \notin DOMAIN mk_w_promotion(k, first)
      /\ c \notin DOMAIN mk_w_store(k, first) /\ c \notin DOMAIN mk_w_warehouse(k, first)
      /\ c \notin DOMAIN mk_w_web_page(k, first) /\ c \notin DOMAIN mk_w_web_site(k, first)
      /\ c \notin DOMAIN mk_w_customer_address(k, first)
      BY <1>4, <1>5, DimensionsDraw DEF Within
<1> USE <1>1, <1>2, <1>3, NoDraws DEF DrawsAt, SumsAt, RoutinesAt, TextsAt, JoinsAt, PricesAt, Exactly, AtMost, randomColumns
<1>7. /\ c \notin DOMAIN mk_s_call_center(k, first) /\ c \notin DOMAIN mk_s_store(k, first)
      /\ c \notin DOMAIN mk_s_warehouse(k, first) /\ c \notin DOMAIN mk_s_web_page(k, first)
      BY <1>6 DEF mk_s_call_center, mk_s_store, mk_s_warehouse, mk_s_web_page, getSKFromID
<1>8. /\ c \notin DOMAIN mk_s_item(k, first) /\ c \notin DOMAIN mk_s_promotion(k, first)
      /\ c \notin DOMAIN mk_s_catalog_page(k, first)
      BY <1>6, SMTT(60) DEF mk_s_item, mk_s_promotion, mk_s_catalog_page, getSKFromID
<1>9. c \notin DOMAIN mk_s_customer(k, first)
      BY <1>6, SMTT(60) DEF mk_s_customer
<1>10. c \notin DOMAIN mk_s_zip(k, first)
       BY DEF mk_s_zip
<1>11. /\ c \notin DOMAIN (mk_s_catalog_order_lineitem (+) genrand_integer("S_CLIN_IS_RETURNED"))
       /\ c \notin DOMAIN mk_s_catalog_returns
       /\ c \notin DOMAIN (catalog_order_mk_master(k) (+) genrand_integer("S_CLIN_ITEM_ID")
                            (+) If(first, makePermutation("S_CLIN_PERMUTE", getIDCount("ITEM"))))
  <2>1. c \notin DOMAIN (mk_s_catalog_order_lineitem (+) genrand_integer("S_CLIN_IS_RETURNED"))
        BY DEF mk_s_catalog_order_lineitem
  <2>2. c \notin DOMAIN mk_s_catalog_returns
        BY DEF mk_s_catalog_returns
  <2>3. c \notin DOMAIN (catalog_order_mk_master(k) (+) genrand_integer("S_CLIN_ITEM_ID")
                         (+) If(first, makePermutation("S_CLIN_PERMUTE", getIDCount("ITEM"))))
        BY DEF catalog_order_mk_master
  <2> QED
      BY <2>1, <2>2, <2>3, SMTT(60)
<1>12. c \notin randomColumns["S_PURCHASE"] \cup randomColumns["S_PURCHASE_LINEITEM"] =>
           /\ c \notin DOMAIN (mk_s_pline(k) (+) genrand_integer("S_PLINE_IS_RETURNED"))
           /\ c \notin DOMAIN mk_s_store_returns
           /\ c \notin DOMAIN (purchase_mk_master(k) (+) genrand_integer("S_PLINE_ITEM_ID")
                                (+) If(first, makePermutation("S_PLINE_PERMUTE", getIDCount("ITEM"))))
  <2>1. c \notin randomColumns["S_PURCHASE"] \cup randomColumns["S_PURCHASE_LINEITEM"] =>
            c \notin DOMAIN (mk_s_pline(k) (+) genrand_integer("S_PLINE_IS_RETURNED"))
        BY DEF mk_s_pline
  <2>2. c \notin randomColumns["S_PURCHASE"] \cup randomColumns["S_PURCHASE_LINEITEM"] =>
            c \notin DOMAIN mk_s_store_returns
        BY SMTT(60) DEF mk_s_store_returns
  <2>3. c \notin randomColumns["S_PURCHASE"] \cup randomColumns["S_PURCHASE_LINEITEM"] =>
            c \notin DOMAIN (purchase_mk_master(k) (+) genrand_integer("S_PLINE_ITEM_ID")
                             (+) If(first, makePermutation("S_PLINE_PERMUTE", getIDCount("ITEM"))))
        BY DEF purchase_mk_master
  <2> HIDE DEF randomColumns
  <2> QED
      BY <2>1, <2>2, <2>3, SMTT(60)
<1>13. c \notin randomColumns["S_WEB_ORDER"] \cup randomColumns["S_WEB_ORDER_LINEITEM"] =>
           /\ c \notin DOMAIN (mk_s_web_order_lineitem (+) genrand_integer("S_WLIN_IS_RETURNED"))
           /\ c \notin DOMAIN mk_s_web_return
           /\ c \notin DOMAIN (web_order_mk_master(k) (+) genrand_integer("S_WLIN_ITEM_ID")
                                (+) If(first, makePermutation("S_WLIN_PERMUTE", getIDCount("ITEM"))))
  <2>0. \A m, d : c \in DOMAIN Times(m, d) => c \in DOMAIN d
        BY DEF Times
  <2>1. c \notin randomColumns["S_WEB_ORDER"] \cup randomColumns["S_WEB_ORDER_LINEITEM"] =>
            c \notin DOMAIN (mk_s_web_order_lineitem (+) genrand_integer("S_WLIN_IS_RETURNED"))
        BY DEF mk_s_web_order_lineitem
  <2>2. c \notin randomColumns["S_WEB_ORDER"] \cup randomColumns["S_WEB_ORDER_LINEITEM"] =>
            c \notin DOMAIN mk_s_web_return
        BY <2>0 DEF mk_s_web_return
  <2>3. c \notin randomColumns["S_WEB_ORDER"] \cup randomColumns["S_WEB_ORDER_LINEITEM"] =>
            c \notin DOMAIN (web_order_mk_master(k) (+) genrand_integer("S_WLIN_ITEM_ID")
                             (+) If(first, makePermutation("S_WLIN_PERMUTE", getIDCount("ITEM"))))
        BY DEF web_order_mk_master
  <2> HIDE DEF randomColumns
  <2> QED
      BY <2>1, <2>2, <2>3
<1>14. c \in DOMAIN mk_s_inventory(k, first) => c \in randomColumns["S_INVENTORY"]
       BY DEF mk_s_inventory
<1> HIDE <1>1, <1>2, <1>3, NoDraws
    DEF DrawsAt, RoutinesAt, TextsAt, JoinsAt, PricesAt, Exactly, AtMost, randomColumns
<1>15. /\ catalog_order_mk_detail(TRUE)
             = mk_s_catalog_order_lineitem (+) genrand_integer("S_CLIN_IS_RETURNED") (+) mk_s_catalog_returns
       /\ catalog_order_mk_detail(FALSE)
             = mk_s_catalog_order_lineitem (+) genrand_integer("S_CLIN_IS_RETURNED") (+) EmptyBag
       /\ purchase_mk_detail(k, TRUE)
             = mk_s_pline(k) (+) genrand_integer("S_PLINE_IS_RETURNED") (+) mk_s_store_returns
       /\ purchase_mk_detail(k, FALSE)
             = mk_s_pline(k) (+) genrand_integer("S_PLINE_IS_RETURNED") (+) EmptyBag
       /\ web_order_mk_detail(TRUE)
             = mk_s_web_order_lineitem (+) genrand_integer("S_WLIN_IS_RETURNED") (+) mk_s_web_return
       /\ web_order_mk_detail(FALSE)
             = mk_s_web_order_lineitem (+) genrand_integer("S_WLIN_IS_RETURNED") (+) EmptyBag
       BY DEF catalog_order_mk_detail, purchase_mk_detail, web_order_mk_detail, If
<1>16. ASSUME NEW n, NEW head, NEW detail, NEW return, c \notin DOMAIN head, c \notin DOMAIN detail, c \notin DOMAIN return
       PROVE  c \notin DOMAIN (head (+) Lines(n, k, detail (+) return, detail (+) EmptyBag))
  <2>1. c \notin DOMAIN (detail (+) return) /\ c \notin DOMAIN (detail (+) EmptyBag)
        BY <1>16, Sums, NoDraws DEF SumsAt
  <2>2. c \notin DOMAIN Lines(n, k, detail (+) return, detail (+) EmptyBag)
        BY <2>1, LinesReach
  <2> QED
      BY <1>16, <2>2, Sums DEF SumsAt
<1>17. c \notin DOMAIN mk_s_catalog_order(k, first)
       BY <1>11, <1>15, <1>16 DEF mk_s_catalog_order
<1>18. c \notin randomColumns["S_PURCHASE"] \cup randomColumns["S_PURCHASE_LINEITEM"] =>
           c \notin DOMAIN mk_s_purchase(k, first)
       BY <1>12, <1>15, <1>16 DEF mk_s_purchase
<1>19. c \notin randomColumns["S_WEB_ORDER"] \cup randomColumns["S_WEB_ORDER_LINEITEM"] =>
           c \notin DOMAIN mk_s_web_order(k, first)
       BY <1>13, <1>15, <1>16 DEF mk_s_web_order
<1> QED
    BY <1>6, <1>7, <1>8, <1>9, <1>10, <1>14, <1>17, <1>18, <1>19

\* The streams a table relies on, case by case.
LEMMA OwnStreams ==
    ASSUME NEW t \in Tables
    PROVE  /\ t \in Warehouse => ownStreams(t) = UNION {columnsOf[f] : f \in Family(t)}
           /\ t \in {"S_PURCHASE", "S_WEB_ORDER"} =>
                  /\ ownStreams(t) = columnsOf[t] \cup columnsOf[getSimpleTdefsByNumber(t).nParam]
                  /\ IsFlagSet(t, "PARENT")
           /\ t \notin Warehouse \cup {"S_PURCHASE", "S_WEB_ORDER"} => ownStreams(t) \subseteq columnsOf[t]
<1>1. t \in Warehouse => t \notin {"S_PURCHASE", "S_WEB_ORDER", "S_INVENTORY"}
      BY DEF Warehouse, w_tdefs
<1>2. t \in {"S_PURCHASE", "S_WEB_ORDER"} => IsFlagSet(t, "PARENT")
      BY DEF IsFlagSet, getSimpleTdefsByNumber, Refresh, s_tdefs, s_tdef, tdef
<1> HIDE DEF Warehouse
<1>3. CASE t \in Warehouse
      BY <1>1, <1>3 DEF ownStreams
<1>4. CASE t \in {"S_PURCHASE", "S_WEB_ORDER"}
      BY <1>1, <1>2, <1>4 DEF ownStreams
<1>5. CASE t \notin Warehouse \cup {"S_PURCHASE", "S_WEB_ORDER"}
      BY <1>1, <1>5 DEF ownStreams
<1> QED
    BY <1>3, <1>4, <1>5

LEMMA OwnColumns ==
    ASSUME NEW t \in Tables
    PROVE  /\ columnsOf[t] \subseteq Columns
           /\ ownStreams(t) \subseteq UNION {columnsOf[f] : f \in Family(t)}
           /\ UNION {columnsOf[f] : f \in Family(t)} \subseteq Columns
<1>1. \A u \in Tables : columnsOf[u] \subseteq Columns
      BY DEF columnsOf, Columns
<1>2. \A f \in Family(t) : f \in Tables
      BY FamilyInTables
<1>3. t \in Family(t)
      BY DEF Family
<1>4. t \in {"S_PURCHASE", "S_WEB_ORDER"} => getSimpleTdefsByNumber(t).nParam \in Family(t)
      BY OwnStreams DEF Family
<1>5. ownStreams(t) \subseteq UNION {columnsOf[f] : f \in Family(t)}
      BY <1>3, <1>4, OwnStreams
<1> QED
    BY <1>1, <1>2, <1>5


(***************************************************************************)
(* What the rows of a table may rely on.                                   *)
(***************************************************************************)
Sales == {"CATALOG_SALES", "STORE_SALES", "WEB_SALES"}

\* A table's own streams are those of the columns of its family, in the refresh set of two
\* orders and the inventory.
LEMMA OwnTables ==
    ASSUME NEW t \in builders, NEW c \in ownStreams(t)
    PROVE  /\ c \in Columns /\ \E f \in Family(t) \cap Random : c \in randomColumns[f]
           /\ t \in Refresh => /\ \E f \in Relied : c \in randomColumns[f]
                               /\ \/ t = "S_PURCHASE" /\ c \in randomColumns[t] \cup randomColumns["S_PURCHASE_LINEITEM"]
                                  \/ t = "S_WEB_ORDER" /\ c \in randomColumns[t] \cup randomColumns["S_WEB_ORDER_LINEITEM"]
                                  \/ t = "S_INVENTORY" /\ c \in randomColumns[t]
<1>1. t \in Tables /\ Family(t) \subseteq Tables
      BY FamilyInTables DEF builders
<1>2. c \in Columns /\ c \in UNION {columnsOf[f] : f \in Family(t)}
      BY <1>1, OwnColumns
<1>3. \A f \in Tables : columnsOf[f] = IF f \in Random THEN randomColumns[f] ELSE {}
      BY DEF columnsOf
<1>4. \E f \in Family(t) \cap Random : c \in randomColumns[f]
      BY <1>1, <1>2, <1>3
<1>5. ASSUME t \in Refresh
      PROVE  /\ \E f \in Relied : c \in randomColumns[f]
             /\ \/ t = "S_PURCHASE" /\ c \in randomColumns[t] \cup randomColumns["S_PURCHASE_LINEITEM"]
                \/ t = "S_WEB_ORDER" /\ c \in randomColumns[t] \cup randomColumns["S_WEB_ORDER_LINEITEM"]
                \/ t = "S_INVENTORY" /\ c \in randomColumns[t]
  <2>1. t \notin Warehouse
        BY <1>5 DEF Refresh, Warehouse, s_tdefs, w_tdefs
  <2>2. /\ getSimpleTdefsByNumber("S_PURCHASE").nParam = "S_PURCHASE_LINEITEM"
        /\ getSimpleTdefsByNumber("S_WEB_ORDER").nParam = "S_WEB_ORDER_LINEITEM"
        /\ {"S_PURCHASE_LINEITEM", "S_WEB_ORDER_LINEITEM"} \subseteq Tables
        BY DEF getSimpleTdefsByNumber, Tables, Refresh, s_tdefs, s_tdef, tdef
  <2> HIDE DEF Warehouse, Refresh
  <2>3. \/ t = "S_PURCHASE" /\ c \in columnsOf[t] \cup columnsOf["S_PURCHASE_LINEITEM"]
        \/ t = "S_WEB_ORDER" /\ c \in columnsOf[t] \cup columnsOf["S_WEB_ORDER_LINEITEM"]
        \/ t = "S_INVENTORY" /\ c \in columnsOf[t]
        BY <2>1, <2>2 DEF ownStreams
  <2> QED
      BY <1>1, <1>3, <2>2, <2>3 DEF Relied
<1> HIDE DEF Refresh
<1> QED
    BY <1>2, <1>4, <1>5

\* A builder of a warehouse table draws from its own streams; that of the items from one more.
LEMMA WarehouseDraw ==
    ASSUME NEW t \in builders \cap Warehouse, NEW k \in Nat \ {0}, NEW first \in BOOLEAN, NEW c \in Columns
    PROVE  Within(getTdefFunctionsByNumber(t, k, first), c,
                  ownStreams(t) \cup (IF t = "ITEM" THEN {"CC_HOURS"} ELSE {}), first)
<1> DEFINE reach == ownStreams(t) \cup (IF t = "ITEM" THEN {"CC_HOURS"} ELSE {})
           dims1 == {"CALL_CENTER", "CATALOG_PAGE", "CUSTOMER", "CUSTOMER_ADDRESS", "CUSTOMER_DEMOGRAPHICS", "DATE",
                     "HOUSEHOLD_DEMOGRAPHICS", "INCOME_BAND", "INVENTORY"}
           dims2 == {"PROMOTION", "REASON", "SHIP_MODE", "STORE", "TIME", "WAREHOUSE", "WEB_PAGE", "WEB_SITE"}
<1>1. getTdefFunctionsByNumber(t, k, first) = w_tdef_funcs(t, k, first)
  <2>1. t \notin Refresh
        BY DEF Refresh, Warehouse, s_tdefs, w_tdefs
  <2> QED
      BY <2>1 DEF getTdefFunctionsByNumber
<1>2. t \in dims1 \cup dims2 \cup Sales \cup {"ITEM", "DBGEN_VERSION"}
  <2>1. t \notin {"CATALOG_RETURNS", "STORE_RETURNS", "WEB_RETURNS"}
        BY DEF builders, IsFlagSet, getSimpleTdefsByNumber, Refresh, s_tdefs, w_tdefs, tdef
  <2> QED
      BY <2>1 DEF Warehouse, w_tdefs, Sales
<1>3. /\ t \in Random => randomColumns[t] \subseteq ownStreams(t)
      /\ t = "CATALOG_SALES" => randomColumns["CATALOG_RETURNS"] \subseteq ownStreams(t)
      /\ t = "STORE_SALES" => randomColumns["STORE_RETURNS"] \subseteq ownStreams(t)
      /\ t = "WEB_SALES" => randomColumns["WEB_RETURNS"] \subseteq ownStreams(t)
  <2>1. ownStreams(t) = UNION {columnsOf[f] : f \in Family(t)} /\ t \in Tables
        BY OwnStreams DEF Tables
  <2>2. \A f \in Family(t) \cap Random : randomColumns[f] \subseteq ownStreams(t)
    <3>1. \A f \in Family(t) : f \in Tables
          BY <2>1, FamilyInTables
    <3> QED
        BY <2>1, <3>1 DEF columnsOf
  <2>3. {"CATALOG_RETURNS", "STORE_RETURNS", "WEB_RETURNS"} \subseteq Random
        BY DEF Random, randomColumns
  <2>4. /\ t \in Family(t)
        /\ t = "CATALOG_SALES" => "CATALOG_RETURNS" \in Family(t)
        /\ t = "STORE_SALES" => "STORE_RETURNS" \in Family(t)
        /\ t = "WEB_SALES" => "WEB_RETURNS" \in Family(t)
        BY WarehouseFamily
  <2> QED
      BY <2>2, <2>3, <2>4
<1>4. dims1 \cup dims2 \cup Sales \cup {"ITEM"} \subseteq Random
      BY DEF Random, randomColumns, Sales
<1>5. \A d, A, B : Within(d, c, A, first) /\ A \subseteq B => Within(d, c, B, first)
      BY DEF Within
<1> HIDE DEF reach
<1>6. CASE t \in dims1
  <2>1. Within(w_tdef_funcs(t, k, first), c, randomColumns[t], first)
        BY <1>6, DimensionsDraw DEF w_tdef_funcs
  <2> QED
      BY <1>1, <1>3, <1>4, <1>5, <1>6, <2>1 DEF reach
<1>7. CASE t \in dims2
  <2>1. Within(w_tdef_funcs(t, k, first), c, randomColumns[t], first)
        BY <1>7, DimensionsDraw DEF w_tdef_funcs
  <2> QED
      BY <1>1, <1>3, <1>4, <1>5, <1>7, <2>1 DEF reach
<1>8. CASE t = "CATALOG_SALES"
  <2>1. w_tdef_funcs(t, k, first) = mk_w_catalog_sales(k, first)
        BY <1>8 DEF w_tdef_funcs
  <2>2. Within(w_tdef_funcs(t, k, first), c, randomColumns["CATALOG_SALES"] \cup randomColumns["CATALOG_RETURNS"], first)
        BY <2>1, SalesDraw
  <2> QED
      BY <1>1, <1>3, <1>4, <1>5, <1>8, <2>2 DEF reach, Sales
<1>9. CASE t = "STORE_SALES"
  <2>1. w_tdef_funcs(t, k, first) = mk_w_store_sales(k, first)
        BY <1>9 DEF w_tdef_funcs
  <2>2. Within(w_tdef_funcs(t, k, first), c, randomColumns["STORE_SALES"] \cup randomColumns["STORE_RETURNS"], first)
        BY <2>1, SalesDraw
  <2> QED
      BY <1>1, <1>3, <1>4, <1>5, <1>9, <2>2 DEF reach, Sales
<1>10. CASE t = "WEB_SALES"
  <2>1. w_tdef_funcs(t, k, first) = mk_w_web_sales(k, first)
        BY <1>10 DEF w_tdef_funcs
  <2>2. Within(w_tdef_funcs(t, k, first), c, randomColumns["WEB_SALES"] \cup randomColumns["WEB_RETURNS"], first)
        BY <2>1, SalesDraw
  <2> QED
      BY <1>1, <1>3, <1>4, <1>5, <1>10, <2>2 DEF reach, Sales
<1>11. CASE t = "ITEM"
  <2>1. w_tdef_funcs(t, k, first) = mk_w_item(k, first)
        BY <1>11 DEF w_tdef_funcs
  <2>2. Within(w_tdef_funcs(t, k, first), c, randomColumns["ITEM"] \cup {"CC_HOURS"}, first)
        BY <2>1, DimensionsDraw
  <2> QED
      BY <1>1, <1>3, <1>4, <1>5, <1>11, <2>2 DEF reach
<1>12. CASE t = "DBGEN_VERSION"
  <2>1. w_tdef_funcs(t, k, first) = mk_dbgen_version(k, first)
        BY <1>12 DEF w_tdef_funcs
  <2>2. Within(w_tdef_funcs(t, k, first), c, {}, first)
        BY <2>1, DimensionsDraw
  <2> QED
      BY <1>1, <1>5, <2>2
<1> QED
    BY <1>2, <1>6, <1>7, <1>8, <1>9, <1>10, <1>11, <1>12 DEF reach, Sales

\* A builder of the refresh set draws from the streams that are relied on only as their table.
LEMMA RefreshDraw ==
    ASSUME NEW t \in builders \cap Refresh, NEW k \in Nat \ {0}, NEW first \in BOOLEAN, NEW c \in Columns
    PROVE  /\ c \in ownStreams(t) => Within(getTdefFunctionsByNumber(t, k, first), c, Columns, first)
           /\ (\E f \in Relied : c \in randomColumns[f]) /\ c \in DOMAIN getTdefFunctionsByNumber(t, k, first) =>
                  c \in ownStreams(t)
<1>1. getTdefFunctionsByNumber(t, k, first) = s_tdef_funcs(t, k, first)
      BY DEF getTdefFunctionsByNumber
<1>2. \A d, A : Within(d, c, A, first) => Within(d, c, Columns, first)
      BY DEF Within
<1>3. /\ s_tdef_funcs("S_PURCHASE", k, first) = mk_s_purchase(k, first)
      /\ s_tdef_funcs("S_WEB_ORDER", k, first) = mk_s_web_order(k, first)
      /\ s_tdef_funcs("S_INVENTORY", k, first) = mk_s_inventory(k, first)
      BY DEF s_tdef_funcs
<1>4. ASSUME c \in ownStreams(t) PROVE Within(s_tdef_funcs(t, k, first), c, Columns, first)
  <2>1. \/ t = "S_PURCHASE" /\ c \in randomColumns[t] \cup randomColumns["S_PURCHASE_LINEITEM"]
        \/ t = "S_WEB_ORDER" /\ c \in randomColumns[t] \cup randomColumns["S_WEB_ORDER_LINEITEM"]
        \/ t = "S_INVENTORY" /\ c \in randomColumns[t]
        BY <1>4, OwnTables
  <2> QED
      BY <1>2, <1>3, <2>1, RefreshOrdersDraw, RefreshHeadsDraw
<1>5. ASSUME NEW f \in Relied, c \in randomColumns[f], c \in DOMAIN s_tdef_funcs(t, k, first)
      PROVE  c \in ownStreams(t)
  <2>1. t \in {"S_PURCHASE", "S_WEB_ORDER", "S_INVENTORY"}
    <3>1. t \in {"S_CUSTOMER_ADDRESS", "S_CALL_CENTER", "S_CATALOG_ORDER", "S_CATALOG_PAGE", "S_CUSTOMER", "S_ITEM",
                 "S_PROMOTION", "S_STORE", "S_WAREHOUSE", "S_WEB_PAGE", "S_WEB_SITE", "S_ZIPG"} =>
              c \notin DOMAIN s_tdef_funcs(t, k, first)
          BY <1>5, RefreshApart DEF s_tdef_funcs
    <3>2. t \notin {"S_CATALOG_ORDER_LINEITEM", "S_CATALOG_RETURNS", "S_PURCHASE_LINEITEM", "S_STORE_RETURNS",
                    "S_WEB_ORDER_LINEITEM", "S_WEB_RETURNS"}
          BY DEF builders, IsFlagSet, getSimpleTdefsByNumber, Refresh, s_tdefs, s_tdef, tdef
    <3> QED
        BY <1>5, <3>1, <3>2 DEF Refresh, s_tdefs
  <2>2. \/ t = "S_PURCHASE" /\ c \in randomColumns[t] \cup randomColumns["S_PURCHASE_LINEITEM"]
        \/ t = "S_WEB_ORDER" /\ c \in randomColumns[t] \cup randomColumns["S_WEB_ORDER_LINEITEM"]
        \/ t = "S_INVENTORY" /\ c \in randomColumns[t]
        BY <1>3, <1>5, <2>1, RefreshApart
  <2>3. {"S_PURCHASE", "S_PURCHASE_LINEITEM", "S_WEB_ORDER", "S_WEB_ORDER_LINEITEM", "S_INVENTORY"}
            \subseteq Random \cap Tables
        BY DEF Random, randomColumns, Tables, Refresh, s_tdefs
  <2>4. t \notin Warehouse
        BY DEF Refresh, Warehouse, s_tdefs, w_tdefs
  <2>5. /\ getSimpleTdefsByNumber("S_PURCHASE").nParam = "S_PURCHASE_LINEITEM"
        /\ getSimpleTdefsByNumber("S_WEB_ORDER").nParam = "S_WEB_ORDER_LINEITEM"
        BY DEF getSimpleTdefsByNumber, Refresh, s_tdefs, s_tdef, tdef
  <2> HIDE DEF Warehouse
  <2> QED
      BY <2>2, <2>3, <2>4, <2>5 DEF ownStreams, columnsOf
<1> QED
    BY <1>1, <1>4, <1>5


\* No row draws more often from a stream its table relies on than the stream has seeds for it.
LEMMA EnoughSeeds == SeedsSuffice(Nat \ {0})
<1> SUFFICES ASSUME NEW t \in builders, NEW k \in Nat \ {0}, NEW first \in BOOLEAN,
                    NEW c \in DOMAIN getTdefFunctionsByNumber(t, k, first) \cap ownStreams(t)
             PROVE  /\ getTdefFunctionsByNumber(t, k, first)[c] \in Nat
                    /\ IF nUsedPerRow[c] = 0 THEN first
                       ELSE getTdefFunctionsByNumber(t, k, first)[c] <= nUsedPerRow[c]
    BY SeedsNat DEF SeedsSuffice
<1>1. t \in Warehouse \/ t \in Refresh
      BY DEF builders, Tables
<1>2. c \in Columns
      BY OwnTables
<1>3. \E A : Within(getTdefFunctionsByNumber(t, k, first), c, A, first)
      BY <1>1, <1>2, WarehouseDraw, RefreshDraw
<1> QED
    BY <1>3 DEF Within, drawnFrom

\* The streams of two tables are apart.
LEMMA OwnApart ==
    ASSUME NEW t \in builders, NEW u \in builders, NEW c \in ownStreams(t), c \in ownStreams(u)
    PROVE  t = u
<1>1. PICK f \in Family(t) \cap Random : c \in randomColumns[f]
      BY OwnTables
<1>2. PICK g \in Family(u) \cap Random : c \in randomColumns[g]
      BY OwnTables
<1>3. f = g
      BY <1>1, <1>2, ColumnsApart
<1> QED
    BY <1>3, OneBuilder

LEMMA WalkLengths == \A tables \in {warehouseOrder, refreshOrder} : Len(tables) \in Nat /\ DOMAIN tables = 1 .. Len(tables)
<1>1. /\ Len(warehouseOrder) = 25 /\ DOMAIN warehouseOrder = 1..25
      /\ Len(refreshOrder) = 21 /\ DOMAIN refreshOrder = 1..21
      BY DEF warehouseOrder, refreshOrder
<1> QED
    BY <1>1

\* The walk over the tables comes to each of them once, and to the call centers first.
LEMMA Walks ==
    /\ \A i \in DOMAIN warehouseOrder : \A j \in (i + 1)..Len(warehouseOrder) :
           /\ warehouseOrder[i] # warehouseOrder[j] /\ warehouseOrder[j] # "CALL_CENTER"
           /\ warehouseOrder[i] \in Warehouse /\ warehouseOrder[j] \in Warehouse
    /\ \A i \in DOMAIN refreshOrder : \A j \in (i + 1)..Len(refreshOrder) :
           /\ refreshOrder[i] # refreshOrder[j] /\ refreshOrder[j] # "CALL_CENTER"
           /\ refreshOrder[i] \in Refresh /\ refreshOrder[j] \in Refresh
<1>1. /\ Len(warehouseOrder) = 25 /\ DOMAIN warehouseOrder = 1..25
      /\ Len(refreshOrder) = 21 /\ DOMAIN refreshOrder = 1..21
      BY DEF warehouseOrder, refreshOrder
<1>2. \A a \in 1..25 : warehouseOrder[a] \in Warehouse
      BY DEF warehouseOrder, Warehouse, w_tdefs
<1>3. \A a \in 1..21 : refreshOrder[a] \in Refresh
      BY DEF refreshOrder, Refresh, s_tdefs
<1>4. \A a \in 1..25 : warehouseOrder[a] = "CALL_CENTER" => a = 1
      BY DEF warehouseOrder
<1>5. \A a \in 1..21 : refreshOrder[a] # "CALL_CENTER"
      BY DEF refreshOrder
<1>6. \A a \in 1..25, b \in 1..25 : warehouseOrder[a] = warehouseOrder[b] => a = b
      BY DEF warehouseOrder
<1>7. \A a \in 1..21, b \in 1..21 : refreshOrder[a] = refreshOrder[b] => a = b
      BY DEF refreshOrder
<1>8. \A n \in Nat : \A i \in 1..n : \A j \in (i + 1)..n : i \in 1..n /\ j \in 1..n /\ i # j /\ j # 1
      OBVIOUS
<1>9. ASSUME NEW i \in DOMAIN warehouseOrder, NEW j \in (i + 1)..Len(warehouseOrder)
      PROVE  /\ warehouseOrder[i] # warehouseOrder[j] /\ warehouseOrder[j] # "CALL_CENTER"
             /\ warehouseOrder[i] \in Warehouse /\ warehouseOrder[j] \in Warehouse
      BY <1>1, <1>2, <1>4, <1>6, <1>8
<1>10. ASSUME NEW i \in DOMAIN refreshOrder, NEW j \in (i + 1)..Len(refreshOrder)
       PROVE  /\ refreshOrder[i] # refreshOrder[j] /\ refreshOrder[j] # "CALL_CENTER"
              /\ refreshOrder[i] \in Refresh /\ refreshOrder[j] \in Refresh
       BY <1>1, <1>3, <1>5, <1>7, <1>8
<1> QED
    BY <1>9, <1>10

\* No table changes a stream that a table after it relies on.
LEMMA LaterApart == LaterUntouched(Nat \ {0})
<1> SUFFICES ASSUME NEW tables \in {warehouseOrder, refreshOrder}, NEW i \in DOMAIN tables,
                    tables[i] \in builders, NEW c \in changedBy(tables[i], Nat \ {0}),
                    NEW j \in (i + 1)..Len(tables), tables[j] \in builders, c \in ownStreams(tables[j])
             PROVE  FALSE
    BY DEF LaterUntouched
<1> DEFINE t == tables[i]
           u == tables[j]
<1>1. /\ t # u /\ u # "CALL_CENTER"
      /\ (t \in Warehouse /\ u \in Warehouse) \/ (t \in Refresh /\ u \in Refresh)
  <2>1. CASE tables = warehouseOrder
        BY <2>1, Walks
  <2>2. CASE tables = refreshOrder
        BY <2>2, Walks
  <2> QED
      BY <2>1, <2>2
<1> HIDE DEF t, u
<1>3. t \in builders /\ u \in builders /\ c \in ownStreams(u) /\ c \in Columns
      BY OwnTables DEF t, u
<1>4. c \notin ownStreams(t)
      BY <1>1, <1>3, OwnApart
<1>5. PICK g \in Family(u) \cap Random : c \in randomColumns[g]
      BY <1>3, OwnTables
<1>6. \A k \in Nat \ {0}, first \in BOOLEAN : c \notin DOMAIN getTdefFunctionsByNumber(t, k, first)
  <2> SUFFICES ASSUME NEW k \in Nat \ {0}, NEW first \in BOOLEAN,
                      c \in DOMAIN getTdefFunctionsByNumber(t, k, first)
               PROVE  FALSE
      OBVIOUS
  <2>1. CASE t \in Warehouse
    <3>1. t = "ITEM" /\ c = "CC_HOURS"
      <4>1. Within(getTdefFunctionsByNumber(t, k, first), c,
                   ownStreams(t) \cup (IF t = "ITEM" THEN {"CC_HOURS"} ELSE {}), first)
            BY <1>3, <2>1, WarehouseDraw
      <4> QED
          BY <1>4, <4>1 DEF Within
    <3>2. "CALL_CENTER" \in Random /\ "CC_HOURS" \in randomColumns["CALL_CENTER"]
          BY DEF Random, randomColumns
    <3>3. g = "CALL_CENTER"
          BY <1>5, <3>1, <3>2, ColumnsApart
    <3>4. u = "CALL_CENTER"
          BY <1>3, <1>5, <3>3, BuilderFamilies
    <3> QED
        BY <1>1, <3>1, <3>4
  <2>2. CASE t \in Refresh
    <3>1. u \in Refresh
          BY <1>1, <2>2 DEF Refresh, Warehouse, s_tdefs, w_tdefs
    <3>2. \E f \in Relied : c \in randomColumns[f]
          BY <1>3, <3>1, OwnTables
    <3> QED
        BY <1>3, <1>4, <2>2, <3>2, RefreshDraw
  <2> QED
      BY <1>1, <2>1, <2>2
<1>7. \A v \in {t} \cup ownRowStop(t) : c \notin UNION {columnsOf[f] : f \in Family(v)}
  <2> SUFFICES ASSUME NEW v \in {t} \cup ownRowStop(t), NEW f \in Family(v), c \in columnsOf[f]
               PROVE  FALSE
      OBVIOUS
  <2>1. v \in builders
    <3>1. ownRowStop(t) \subseteq {"ITEM", "PROMOTION", "CATALOG_PAGE"}
          BY SMTT(60) DEF ownRowStop
    <3>2. {"ITEM", "PROMOTION", "CATALOG_PAGE"} \subseteq builders
          BY DEF builders, Tables, Warehouse, IsFlagSet, getSimpleTdefsByNumber, Refresh, s_tdefs, w_tdefs, tdef
    <3> QED
        BY <1>3, <3>1, <3>2
  <2>2. f \in Random /\ c \in randomColumns[f]
    <3>1. f \in Tables
          BY <2>1, FamilyInTables DEF builders
    <3> QED
        BY <3>1 DEF columnsOf
  <2>3. f = g
        BY <1>5, <2>2, ColumnsApart
  <2>4. v = u
        BY <1>3, <1>5, <2>1, <2>3, OneBuilder
  <2>5. v \in {"ITEM", "PROMOTION", "CATALOG_PAGE"} /\ t \in {"S_ITEM", "S_PROMOTION", "S_CATALOG_PAGE"}
        BY <1>1, <2>4 DEF ownRowStop
  <2>6. t \notin Warehouse /\ u \notin Refresh
        BY <2>4, <2>5 DEF Refresh, Warehouse, s_tdefs, w_tdefs
  <2> QED
      BY <1>1, <2>6
<1> QED
    BY <1>6, <1>7 DEF changedBy, t

(***************************************************************************)
(* The streams of a table.                                                 *)
(***************************************************************************)
IsStreams(s) == DOMAIN s.pos = Columns /\ DOMAIN s.used = Columns

\* The columns are where n rows leave them.
Placed(s, columns, n) == \A c \in columns : s.pos[c] = n * nUsedPerRow[c] /\ s.used[c] = 0

\* What main() and the validation skip to come to the row after row n of a table.
skippedTo(s, t, n) ==
    IF IsFlagSet(t, "PARENT") THEN row_skip(row_skip(s, t, n), getSimpleTdefsByNumber(t).nParam, n)
    ELSE row_skip(s, t, n)

LEMMA SkipPlaces ==
    ASSUME NEW s, IsStreams(s), NEW t, NEW n
    PROVE  /\ IsStreams(row_skip(s, t, n))
           /\ \A c \in Columns : c \in columnsOf[t] \/ Placed(s, {c}, n) => Placed(row_skip(s, t, n), {c}, n)
BY DEF IsStreams, Placed, row_skip, skip_random, restarted

\* Skipping brings the streams a table relies on to the row after row n.
LEMMA SkippedOwn ==
    ASSUME NEW s, IsStreams(s), NEW t \in Tables, NEW n
    PROVE  IsStreams(skippedTo(s, t, n)) /\ Placed(skippedTo(s, t, n), ownStreams(t), n)
<1> DEFINE child == getSimpleTdefsByNumber(t).nParam
           one   == row_skip(s, t, n)
<1>1. IsStreams(one) /\ IsStreams(row_skip(one, child, n))
      BY SkipPlaces
<1>2. ASSUME NEW c \in ownStreams(t), c \in columnsOf[t] \/ (IsFlagSet(t, "PARENT") /\ c \in columnsOf[child])
      PROVE  Placed(skippedTo(s, t, n), {c}, n)
  <2>1. c \in Columns
        BY OwnColumns
  <2>2. c \in columnsOf[t] => Placed(one, {c}, n)
        BY <2>1, SkipPlaces
  <2>3. c \in columnsOf[child] \/ Placed(one, {c}, n) => Placed(row_skip(one, child, n), {c}, n)
        BY <1>1, <2>1, SkipPlaces
  <2> QED
      BY <1>2, <2>2, <2>3 DEF skippedTo
<1>3. \A c \in ownStreams(t) : c \in columnsOf[t] \/ (IsFlagSet(t, "PARENT") /\ c \in columnsOf[child])
  <2> HIDE DEF child
  <2>1. CASE t \in Warehouse
    <3>1. Family(t) = {t} \cup (IF IsFlagSet(t, "PARENT") THEN {child} ELSE {})
          BY <2>1, WarehouseFamily DEF child
    <3>2. ownStreams(t) = UNION {columnsOf[f] : f \in Family(t)}
          BY <2>1, OwnStreams
    <3> QED
        BY <3>1, <3>2
  <2>2. CASE t \in {"S_PURCHASE", "S_WEB_ORDER"}
    <3>1. ownStreams(t) = columnsOf[t] \cup columnsOf[child] /\ IsFlagSet(t, "PARENT")
          BY <2>2, OwnStreams DEF child
    <3> QED
        BY <3>1
  <2>3. CASE t \notin Warehouse \cup {"S_PURCHASE", "S_WEB_ORDER"}
    <3>1. ownStreams(t) \subseteq columnsOf[t]
          BY <2>3, OwnStreams
    <3> QED
        BY <3>1
  <2> QED
      BY <2>1, <2>2, <2>3
<1>4. IsStreams(skippedTo(s, t, n))
      BY <1>1 DEF skippedTo
<1> QED
    BY <1>2, <1>3, <1>4 DEF Placed

LEMMA ValidationSkips ==
    ASSUME NEW s, NEW t \in Warehouse \ {"DATE"}, NEW k
    PROVE  vldSkip(s, t, k) = skippedTo(s, t, k - 1)
BY WarehouseFamily
   DEF vldSkip, skippedTo, vld_w_catalog_sales, vld_w_store_sales, vld_web_sales, validateGeneric

LEMMA DrawnStreams ==
    ASSUME NEW s, IsStreams(s), NEW draws, NEW t
    PROVE  IsStreams(next_random(s, draws)) /\ IsStreams(row_stop(s, t)) /\ IsStreams(row_stops(s, t))
<1>1. \A x : IsStreams(x) => \A u : IsStreams(row_stop(x, u))
      BY DEF IsStreams, row_stop, checkSeeds, counted, restarted
<1> QED
    BY <1>1 DEF IsStreams, next_random, counted, row_stops

\* A builder that stops the streams of another table relies on none.
LEMMA OwnStop ==
    ASSUME NEW t \in Tables
    PROVE  /\ ownRowStop(t) = {} \/ ownStreams(t) = {}
           /\ ownRowStop(t) # {} => \E own \in Tables : own \in ownRowStop(t)
<1>1. ownRowStop(t) # {} => t \in {"S_ITEM", "S_PROMOTION", "S_CATALOG_PAGE"}
      BY DEF ownRowStop
<1>2. ownRowStop(t) \subseteq {"ITEM", "PROMOTION", "CATALOG_PAGE"}
      BY DEF ownRowStop
<1>3. {"ITEM", "PROMOTION", "CATALOG_PAGE"} \subseteq Tables
      BY DEF Tables, Warehouse, w_tdefs
<1>4. ASSUME t \in {"S_ITEM", "S_PROMOTION", "S_CATALOG_PAGE"} PROVE ownStreams(t) = {}
  <2>1. t \notin Warehouse
        BY <1>4 DEF Warehouse, w_tdefs
  <2> HIDE DEF Warehouse
  <2> QED
      BY <1>4, <2>1 DEF ownStreams
<1> QED
    BY <1>1, <1>2, <1>3, <1>4

LEMMA StopsStreams ==
    ASSUME NEW s, IsStreams(s), NEW t, NEW c \in Columns
    PROVE  /\ c \notin UNION {columnsOf[f] : f \in Family(t)} =>
                  row_stop(s, t).pos[c] = s.pos[c] /\ row_stop(s, t).used[c] = s.used[c]
           /\ c \in UNION {columnsOf[f] : f \in Family(t)} =>
                  /\ row_stop(s, t).pos[c] = s.pos[c] + unused(s.used[c], nUsedPerRow[c])
                  /\ row_stop(s, t).used[c] = 0
<1> DEFINE columns == UNION {columnsOf[f] : f \in Family(t)}
<1>1. row_stop(s, t) = checkSeeds(s, columns)
      BY DEF row_stop
<1> HIDE DEF columns
<1>2. /\ c \notin columns => checkSeeds(s, columns).pos[c] = s.pos[c] /\ checkSeeds(s, columns).used[c] = s.used[c]
      /\ c \in columns => /\ checkSeeds(s, columns).pos[c] = s.pos[c] + unused(s.used[c], nUsedPerRow[c])
                          /\ checkSeeds(s, columns).used[c] = 0
      BY DEF IsStreams, checkSeeds, counted, restarted
<1> QED
    BY <1>1, <1>2 DEF columns

LEMMA DrawsStreams ==
    ASSUME NEW s, IsStreams(s), NEW draws, NEW c \in Columns
    PROVE  /\ c \notin DOMAIN draws =>
                  next_random(s, draws).pos[c] = s.pos[c] /\ next_random(s, draws).used[c] = s.used[c]
           /\ c \in DOMAIN draws =>
                  /\ next_random(s, draws).pos[c] = s.pos[c] + draws[c]
                  /\ next_random(s, draws).used[c] = s.used[c] + draws[c]
BY DEF IsStreams, next_random, counted

\* A row brings the streams its table relies on to the next row.
LEMMA BuiltOwn ==
    ASSUME NEW t \in builders, NEW k \in Nat \ {0}, NEW first \in BOOLEAN,
           NEW s, IsStreams(s), NEW c \in ownStreams(t), nUsedPerRow[c] # 0, Placed(s, {c}, k - 1)
    PROVE  Placed(row_stops(next_random(s, getTdefFunctionsByNumber(t, k, first)), t), {c}, k)
<1> DEFINE draws == getTdefFunctionsByNumber(t, k, first)
           drawn == next_random(s, draws)
           n     == nUsedPerRow[c]
<1>1. t \in Tables /\ c \in Columns /\ c \in UNION {columnsOf[f] : f \in Family(t)}
      BY OwnColumns DEF builders
<1>2. n \in Nat /\ (c \in DOMAIN draws => draws[c] \in Nat /\ draws[c] <= n)
      BY <1>1, EnoughSeeds DEF SeedsSuffice
<1>3. s.pos[c] = (k - 1) * n /\ s.used[c] = 0
      BY DEF Placed
<1>4. row_stops(drawn, t) = row_stop(drawn, t)
      BY <1>1, OwnStop DEF row_stops
<1> HIDE DEF draws
<1>5. IsStreams(drawn)
      BY DrawnStreams
<1> HIDE DEF drawn
<1>6. row_stop(drawn, t).pos[c] = drawn.pos[c] + unused(drawn.used[c], n) /\ row_stop(drawn, t).used[c] = 0
      BY <1>1, <1>5, StopsStreams
<1>7. PICK d \in Nat : d <= n /\ drawn.pos[c] = (k - 1) * n + d /\ drawn.used[c] = d
  <2>1. CASE c \in DOMAIN draws
    <3>1. drawn.pos[c] = (k - 1) * n + draws[c] /\ drawn.used[c] = 0 + draws[c]
          BY <1>1, <1>3, <2>1, DrawsStreams DEF drawn
    <3> QED
        BY <1>2, <2>1, <3>1
  <2>2. CASE c \notin DOMAIN draws
    <3>1. drawn.pos[c] = (k - 1) * n /\ drawn.used[c] = 0
          BY <1>1, <1>3, <2>2, DrawsStreams DEF drawn
    <3>2. (k - 1) * n = (k - 1) * n + 0 /\ 0 <= n
          BY <1>2
    <3> HIDE DEF n
    <3> QED
        BY <1>2, <3>1, <3>2
  <2> QED
      BY <2>1, <2>2
<1> HIDE DEF n
<1>8. row_stop(drawn, t).pos[c] = k * n
  <2>1. d + unused(d, n) = n
        BY <1>2, <1>7 DEF unused
  <2>2. (k - 1) * n + n = k * n /\ (k - 1) * n \in Int
        BY <1>2
  <2>3. unused(d, n) \in Int
        BY <1>2 DEF unused
  <2> HIDE DEF unused
  <2> QED
      BY <1>2, <1>6, <1>7, <2>1, <2>2, <2>3
<1> QED
    BY <1>4, <1>6, <1>8 DEF Placed, n, drawn, draws

\* It leaves those alone that it neither draws from nor brings to the next row.
LEMMA BuiltOthers ==
    ASSUME NEW t \in Tables, NEW k \in Nat \ {0}, NEW first \in BOOLEAN, NEW s, IsStreams(s),
           NEW c \in Columns, c \notin changedBy(t, Nat \ {0}), NEW n, Placed(s, {c}, n)
    PROVE  Placed(row_stops(next_random(s, getTdefFunctionsByNumber(t, k, first)), t), {c}, n)
<1> DEFINE draws == getTdefFunctionsByNumber(t, k, first)
           drawn == next_random(s, draws)
<1>1. c \notin DOMAIN draws
      BY DEF changedBy
<1>2. \A u \in {t} \cup ownRowStop(t) : c \notin UNION {columnsOf[f] : f \in Family(u)}
      BY DEF changedBy
<1> HIDE DEF draws
<1>3. IsStreams(drawn) /\ Placed(drawn, {c}, n)
      BY <1>1, DrawnStreams, DrawsStreams DEF Placed
<1> HIDE DEF drawn
<1>4. ASSUME NEW x, IsStreams(x), Placed(x, {c}, n), NEW u \in {t} \cup ownRowStop(t)
      PROVE  IsStreams(row_stop(x, u)) /\ Placed(row_stop(x, u), {c}, n)
  <2>1. IsStreams(row_stop(x, u))
        BY <1>4, DrawnStreams
  <2>2. row_stop(x, u).pos[c] = x.pos[c] /\ row_stop(x, u).used[c] = x.used[c]
        BY <1>2, <1>4, StopsStreams
  <2> QED
      BY <1>4, <2>1, <2>2 DEF Placed
<1>5. CASE ownRowStop(t) = {}
      BY <1>3, <1>4, <1>5 DEF row_stops, drawn, draws
<1>6. CASE ownRowStop(t) # {}
  <2> DEFINE own == CHOOSE u \in Tables : u \in ownRowStop(t)
  <2>1. own \in ownRowStop(t)
        BY <1>6, OwnStop
  <2>2. row_stops(drawn, t) = row_stop(row_stop(drawn, own), t)
        BY <1>6 DEF row_stops
  <2> HIDE DEF own
  <2>3. IsStreams(row_stop(drawn, own)) /\ Placed(row_stop(drawn, own), {c}, n)
        BY <1>3, <1>4, <2>1
  <2>4. Placed(row_stop(row_stop(drawn, own), t), {c}, n)
        BY <1>4, <2>3
  <2> QED
      BY <2>2, <2>4 DEF drawn, draws
<1> QED
    BY <1>5, <1>6

\* The streams of the tables that are left have not moved, and those of the table that is
\* built are where a serial build has them before its row.
StreamsOf(p) ==
    /\ IsStreams(rng[p])
    /\ todo[p] \cap init[p] = {}
    /\ pc[p] = "idle" => rng[p] = init_rand /\ init[p] = {}
    /\ pc[p] \in {"main", "rows"} /\ ~ inv(p).validate /\ inv(p).child = 1 =>
           \A t \in todo[p] \cap builders : Placed(rng[p], ownStreams(t), 0)
    /\ pc[p] = "rows" /\ left[p] > 0 =>
           \A c \in ownStreams(table[p]) :
               nUsedPerRow[c] # 0 \/ table[p] \notin init[p] => Placed(rng[p], {c}, row[p] - 1)

SerialRow(p) ==
    \A c \in DOMAIN line[p].at \cap ownStreams(line[p].table) :
        \/ line[p].table = "DATE" /\ inv(p).validate
        \/ line[p].at[c] = (line[p].row - 1) * nUsedPerRow[c]

StreamsInv ==
    /\ init \in [Procs -> SUBSET Tables]
    /\ rng = [p \in Procs |-> rng[p]] /\ line = [p \in Procs |-> line[p]]
    /\ \A p \in Procs : StreamsOf(p) /\ SerialRow(p)

LEMMA StreamsInit == Init => StreamsInv
<1> SUFFICES ASSUME Init PROVE StreamsInv
    OBVIOUS
<1>1. \A p \in Procs : pc[p] \in {"idle", "done"} /\ rng[p] = init_rand /\ init[p] = {} /\ line[p] = NoLine
                       /\ todo[p] = {}
      BY DEF Init
<1>2. IsStreams(init_rand)
      BY DEF IsStreams, init_rand, Each
<1>3. DOMAIN NoLine.at = {}
      BY DEF NoLine
<1> QED
    BY <1>1, <1>2, <1>3 DEF Init, StreamsInv, StreamsOf, SerialRow

\* A step that draws nothing.
LEMMA QuietStreams ==
    ASSUME FilesInv, WalkInv, StreamsInv, UNCHANGED <<plan, table, row, left, values>>, NEW p \in Procs,
           NEW at \in Ended \cup {"main"}, pc' = [pc EXCEPT ![p] = at],
           at = "main" => pc[p] \in AtWork /\ todo' = todo, at # "main" => todo' = todo
    PROVE  StreamsInv'
<1>1. pc \in [Procs -> At]
      BY DEF FilesInv, RunsPlan, At
<1>2. ASSUME NEW q \in Procs PROVE StreamsOf(q)' /\ SerialRow(q)'
  <2>1. /\ inv(q)' = inv(q) /\ rng'[q] = rng[q] /\ init'[q] = init[q] /\ line'[q] = line[q] /\ todo'[q] = todo[q]
        /\ table'[q] = table[q] /\ row'[q] = row[q] /\ left'[q] = left[q]
        BY DEF inv, values
  <2>2. \/ pc'[q] = pc[q]
        \/ pc'[q] \in Ended
        \/ pc'[q] = "main" /\ pc[q] \in AtWork
        BY <1>1
  <2>3. pc[q] = "validate" => inv(q).validate
        BY DEF WalkInv, Building, AtWork
  <2>4. StreamsOf(q) /\ SerialRow(q)
        BY DEF StreamsInv
  <2>5. SerialRow(q)'
        BY <2>1, <2>4 DEF SerialRow
  <2>6. CASE pc'[q] = pc[q]
        BY <2>1, <2>4, <2>5, <2>6 DEF StreamsOf
  <2>7. CASE pc'[q] \in Ended
        BY <2>1, <2>4, <2>5, <2>7 DEF StreamsOf, Ended
  <2>8. CASE pc'[q] = "main" /\ pc[q] \in AtWork
        BY <2>1, <2>3, <2>4, <2>5, <2>8 DEF StreamsOf, AtWork
  <2> QED
      BY <2>2, <2>6, <2>7, <2>8
<1> QED
    BY <1>2 DEF StreamsInv, values

LEMMA BeginStreams ==
    ASSUME FilesInv, WalkInv, StreamsInv, NEW p \in Procs, Begin(p)
    PROVE  StreamsInv'
<1>1. /\ UNCHANGED <<plan, table, row, left, values>> /\ todo' = [todo EXCEPT ![p] = tablesOf(p)]
      /\ pc[p] = "idle" /\ pc' = [pc EXCEPT ![p] = "main"]
      BY DEF Begin
<1>2. pc \in [Procs -> At] /\ todo \in [Procs -> SUBSET Tables]
      BY DEF FilesInv, RunsPlan, At, WalkInv
<1>3. ASSUME NEW q \in Procs PROVE StreamsOf(q)' /\ SerialRow(q)'
  <2>1. /\ inv(q)' = inv(q) /\ rng'[q] = rng[q] /\ init'[q] = init[q] /\ line'[q] = line[q]
        /\ table'[q] = table[q] /\ row'[q] = row[q] /\ left'[q] = left[q]
        BY <1>1 DEF inv, values
  <2>2. CASE q # p
    <3>1. todo'[q] = todo[q] /\ pc'[q] = pc[q]
          BY <1>1, <1>2, <2>2
    <3> QED
        BY <2>1, <3>1, ZenonT(60) DEF StreamsInv, StreamsOf, SerialRow
  <2>3. CASE q = p
    <3>1. pc'[p] = "main" /\ rng[p] = init_rand /\ init[p] = {}
          BY <1>1, <1>2 DEF StreamsInv, StreamsOf
    <3>2. \A t \in Tables : Placed(init_rand, ownStreams(t), 0)
      <4>1. \A c \in Columns : init_rand.pos[c] = 0 /\ init_rand.used[c] = 0
            BY DEF init_rand, Each
      <4>2. \A c \in Columns : 0 * nUsedPerRow[c] = 0
            BY EnoughSeeds DEF SeedsSuffice
      <4> QED
          BY <4>1, <4>2, OwnColumns DEF Placed
    <3> QED
        BY <2>1, <2>3, <3>1, <3>2 DEF StreamsInv, StreamsOf, SerialRow, builders
  <2> QED
      BY <2>2, <2>3
<1> QED
    BY <1>1, <1>3 DEF StreamsInv, values

LEMMA StartStreams ==
    ASSUME FilesInv, WalkInv, StreamsInv, NEW p \in Procs, StartTable(p)
    PROVE  StreamsInv'
<1>1. PICK t \in Tables :
          /\ AtTable(p, t) /\ ~ IsFlagSet(t, "CHILD") /\ ~ inv(p).validate
          /\ pc' = [pc EXCEPT ![p] = "rows"] /\ todo' = [todo EXCEPT ![p] = @ \ {t}]
          /\ table' = [table EXCEPT ![p] = t] /\ row' = [row EXCEPT ![p] = share(p, t).first]
          /\ left' = [left EXCEPT ![p] = share(p, t).count] /\ UNCHANGED <<plan, init, line>>
          /\ rng' = [rng EXCEPT ![p] = IF share(p, t).first = 1 THEN @
                                       ELSE skippedTo(@, t, share(p, t).first - 1)]
      BY DEF StartTable, share, parallelism, skippedTo
<1>2. /\ pc \in [Procs -> At] /\ todo \in [Procs -> SUBSET Tables] /\ left \in [Procs -> Int]
      /\ row \in [Procs -> Int] /\ table \in [Procs -> Tables \cup {NoTable}]
      BY DEF FilesInv, RunsPlan, At, WalkInv
<1>3. /\ rng = [q \in Procs |-> rng[q]] /\ \A q \in Procs : StreamsOf(q) /\ SerialRow(q)
      BY DEF StreamsInv
<1>4. rng' = [q \in Procs |-> rng'[q]] /\ \A q \in Procs \ {p} : rng'[q] = rng[q]
      BY <1>1, <1>3
<1>5. ASSUME NEW q \in Procs, q # p PROVE StreamsOf(q)' /\ SerialRow(q)'
  <2>1. /\ inv(q)' = inv(q) /\ rng'[q] = rng[q] /\ init'[q] = init[q] /\ line'[q] = line[q] /\ todo'[q] = todo[q]
        /\ table'[q] = table[q] /\ row'[q] = row[q] /\ left'[q] = left[q] /\ pc'[q] = pc[q]
        BY <1>1, <1>2, <1>4, <1>5 DEF inv
  <2> QED
      BY <1>3, <2>1 DEF StreamsOf, SerialRow
<1>6. SerialRow(p)'
      BY <1>1, <1>3 DEF SerialRow, inv
<1>7. StreamsOf(p)'
  <2> DEFINE first == share(p, t).first
             count == share(p, t).count
  <2>1. /\ first \in Nat \ {0} /\ count \in Nat /\ inv(p).child \in Nat \ {0}
        /\ inv(p).child = 1 => first = 1
        /\ inv(p).child > 1 /\ first = 1 => count = 0
    <3>1. pc[p] \notin Ended /\ ~ usage(p)
          BY <1>1 DEF AtTable, Ended, WalkInv
    <3> QED
        BY <3>1, ShareOf
  <2> HIDE DEF first, count
  <2>2. /\ pc'[p] = "rows" /\ todo'[p] = todo[p] \ {t} /\ table'[p] = t /\ row'[p] = first /\ left'[p] = count
        /\ inv(p)' = inv(p) /\ init'[p] = init[p]
        BY <1>1, <1>2 DEF first, count, inv
  <2>3. rng'[p] = IF first = 1 THEN rng[p] ELSE skippedTo(rng[p], t, first - 1)
        BY <1>1, <1>3 DEF first
  <2>4. IsStreams(rng[p]) /\ IsStreams(rng'[p])
        BY <1>3, <2>3, SkippedOwn DEF StreamsOf
  <2>5. /\ pc[p] = "main" /\ t \in todo[p] \cap builders /\ ~ inv(p).validate
        BY <1>1 DEF AtTable, builders
  <2>6. inv(p).child = 1 => \A u \in todo[p] \cap builders : Placed(rng'[p], ownStreams(u), 0)
        BY <1>3, <2>1, <2>3, <2>5 DEF StreamsOf
  <2>7. count > 0 => \A c \in ownStreams(t) : Placed(rng'[p], {c}, first - 1)
    <3> SUFFICES ASSUME count > 0 PROVE Placed(rng'[p], ownStreams(t), first - 1)
        BY DEF Placed
    <3>1. CASE first = 1
      <4>1. inv(p).child = 1
            BY <2>1, <3>1
      <4> QED
          BY <2>5, <2>6, <3>1, <4>1
    <3>2. CASE first # 1
          BY <2>3, <2>4, <3>2, SkippedOwn
    <3> QED
        BY <3>1, <3>2
  <2>8. todo'[p] \cap init'[p] = {}
        BY <1>3, <2>2 DEF StreamsOf
  <2> QED
      BY <2>2, <2>4, <2>6, <2>7, <2>8 DEF StreamsOf
<1> QED
    BY <1>1, <1>4, <1>5, <1>6, <1>7 DEF StreamsInv

LEMMA StartValidationStreams ==
    ASSUME FilesInv, WalkInv, StreamsInv, NEW p \in Procs, StartValidation(p)
    PROVE  StreamsInv'
<1>1. PICK t \in Tables :
          /\ pc' = [pc EXCEPT ![p] = "validate"] /\ todo' = [todo EXCEPT ![p] = @ \ {t}]
          /\ table' = [table EXCEPT ![p] = t] /\ UNCHANGED <<plan, row, values>>
          /\ \A q \in Procs \ {p} : left'[q] = left[q]
      BY DEF StartValidation, WalkInv
<1>2. pc \in [Procs -> At] /\ todo \in [Procs -> SUBSET Tables] /\ table \in [Procs -> Tables \cup {NoTable}]
      BY DEF FilesInv, RunsPlan, At, WalkInv
<1>3. ASSUME NEW q \in Procs PROVE StreamsOf(q)' /\ SerialRow(q)'
  <2>1. StreamsOf(q) /\ SerialRow(q)
        BY DEF StreamsInv
  <2>2. inv(q)' = inv(q) /\ rng'[q] = rng[q] /\ init'[q] = init[q] /\ line'[q] = line[q] /\ row'[q] = row[q]
        BY <1>1 DEF inv, values
  <2>3. CASE q # p
    <3>1. todo'[q] = todo[q] /\ table'[q] = table[q] /\ left'[q] = left[q] /\ pc'[q] = pc[q]
          BY <1>1, <1>2, <2>3
    <3> QED
        BY <2>1, <2>2, <3>1 DEF StreamsOf, SerialRow
  <2>4. CASE q = p
    <3>1. pc'[q] = "validate" /\ todo'[q] \subseteq todo[q]
          BY <1>1, <1>2, <2>4
    <3> QED
        BY <2>1, <2>2, <3>1 DEF StreamsOf, SerialRow
  <2> QED
      BY <2>3, <2>4
<1> QED
    BY <1>1, <1>3 DEF StreamsInv, values

\* A row is built where a serial build has it, and leaves the streams where the next one is.
LEMMA BuildStreams ==
    ASSUME FilesInv, WalkInv, StreamsInv,
           NEW p \in Procs, BuildRow(p)
    PROVE  StreamsInv'
<1> DEFINE t     == table[p]
           k     == row[p]
           draws == drawsOf(p, k)
<1>1. /\ pc[p] = "rows" /\ left[p] > 0 /\ UNCHANGED <<plan, pc, todo, table>>
      /\ rng' = [rng EXCEPT ![p] = row_stops(next_random(rng[p], draws), t)]
      /\ init' = [init EXCEPT ![p] = @ \cup {t}] /\ left' = [left EXCEPT ![p] = @ - 1]
      /\ row' = [row EXCEPT ![p] = @ + 1]
      /\ \E day, old : line' = [line EXCEPT ![p] = builtLine(rng[p], draws, t, k, day, old)]
  <2> DEFINE old == oldValues(p, t, k)
             seen == IF Revised(t) THEN old[t] ELSE 0
  <2>1. /\ pc[p] = "rows" /\ left[p] > 0 /\ UNCHANGED <<plan, pc, todo, table>>
        /\ row' = [row EXCEPT ![p] = @ + 1]
        /\ Write(p, k, rng[p], draws, daySold(p, k), old)
        /\ rng' = [rng EXCEPT ![p] = row_stops(next_random(rng[p], draws), t)]
        BY DEF BuildRow
  <2> HIDE DEF draws, old
  <2>2. /\ init' = [init EXCEPT ![p] = @ \cup {t}] /\ left' = [left EXCEPT ![p] = @ - 1]
        /\ line' = [line EXCEPT ![p] = builtLine(rng[p], draws, t, k, daySold(p, k).jDate, seen)]
        BY <2>1 DEF Write
  <2> QED
      BY <2>1, <2>2
<1>2. /\ rng = [q \in Procs |-> rng[q]] /\ line = [q \in Procs |-> line[q]] /\ init \in [Procs -> SUBSET Tables]
      /\ \A q \in Procs : StreamsOf(q) /\ SerialRow(q)
      BY DEF StreamsInv
<1>3. left \in [Procs -> Int] /\ row \in [Procs -> Int]
      BY DEF WalkInv
<1>4. /\ t \in builders /\ t \in Tables /\ t \notin todo[p] /\ todo[p] \subseteq Tables
      /\ \A u \in todo[p] : Before(p, t, u)
      BY <1>1 DEF WalkInv, AtWork, Building, builders
<1>5. k \in Nat \ {0}
  <2>1. share(p, t).first \in Nat \ {0} /\ share(p, t).count \in Nat
        BY <1>1, <1>4, ShareOf DEF WalkInv, AtWork, Ended
  <2>2. InShare(p)
        BY <1>1 DEF WalkInv
  <2> HIDE DEF share
  <2> QED
      BY <1>3, <2>1, <2>2 DEF InShare
<1>6. draws = getTdefFunctionsByNumber(t, k, t \notin init[p])
      BY DEF drawsOf
<1>7. \A c \in ownStreams(t) : nUsedPerRow[c] # 0 \/ t \notin init[p] => Placed(rng[p], {c}, k - 1)
      BY <1>1, <1>2 DEF StreamsOf
<1> HIDE DEF draws, t, k
<1>8. ASSUME NEW q \in Procs, q # p PROVE StreamsOf(q)' /\ SerialRow(q)'
  <2>1. /\ inv(q)' = inv(q) /\ rng'[q] = rng[q] /\ init'[q] = init[q] /\ line'[q] = line[q] /\ todo'[q] = todo[q]
        /\ table'[q] = table[q] /\ row'[q] = row[q] /\ left'[q] = left[q] /\ pc'[q] = pc[q]
        BY <1>1, <1>2, <1>3, <1>8 DEF inv
  <2> QED
      BY <1>2, <2>1, ZenonT(60) DEF StreamsOf, SerialRow
<1>9. SerialRow(p)'
  <2>1. \A day, old : LET l == builtLine(rng[p], draws, t, k, day, old)
                      IN  /\ l.table = t /\ l.row = k /\ DOMAIN l.at = DOMAIN draws
                          /\ \A c \in DOMAIN draws : l.at[c] = rng[p].pos[c]
        BY DEF builtLine
  <2>2. line'[p].table = t /\ line'[p].row = k /\ DOMAIN line'[p].at = DOMAIN draws
        /\ \A c \in DOMAIN draws : line'[p].at[c] = rng[p].pos[c]
        BY <1>1, <1>2, <2>1
  <2>3. ASSUME NEW c \in DOMAIN draws \cap ownStreams(t) PROVE rng[p].pos[c] = (k - 1) * nUsedPerRow[c]
    <3>1. nUsedPerRow[c] = 0 => t \notin init[p]
          BY <1>4, <1>5, <1>6, <2>3, EnoughSeeds DEF SeedsSuffice
    <3> QED
        BY <1>7, <3>1 DEF Placed
  <2> QED
      BY <2>2, <2>3 DEF SerialRow
<1>10. StreamsOf(p)'
  <2>1. IsStreams(rng[p])
        BY <1>2 DEF StreamsOf
  <2>2. /\ rng'[p] = row_stops(next_random(rng[p], draws), t) /\ init'[p] = init[p] \cup {t}
        /\ pc'[p] = "rows" /\ todo'[p] = todo[p] /\ table'[p] = t /\ row'[p] = k + 1 /\ inv(p)' = inv(p)
        BY <1>1, <1>2, <1>3 DEF t, k, inv
  <2>3. IsStreams(rng'[p])
        BY <2>1, <2>2, DrawnStreams
  <2>4. todo'[p] \cap init'[p] = {}
        BY <1>2, <1>4, <2>2 DEF StreamsOf
  <2>5. ASSUME NEW c \in ownStreams(t), nUsedPerRow[c] # 0 PROVE Placed(rng'[p], {c}, k)
    <3>1. Placed(rng[p], {c}, k - 1)
          BY <1>7, <2>5
    <3>2. (t \notin init[p]) \in BOOLEAN
          OBVIOUS
    <3>3. Placed(row_stops(next_random(rng[p], getTdefFunctionsByNumber(t, k, t \notin init[p])), t), {c}, k)
          BY <1>4, <1>5, <2>1, <2>5, <3>1, <3>2, BuiltOwn
    <3> QED
        BY <1>6, <2>2, <3>3
  <2>6. ASSUME NEW u \in todo[p] \cap builders, Placed(rng[p], ownStreams(u), 0)
        PROVE  Placed(rng'[p], ownStreams(u), 0)
    <3> SUFFICES ASSUME NEW c \in ownStreams(u) PROVE Placed(rng'[p], {c}, 0)
        BY DEF Placed
    <3>1. c \in Columns
          BY OwnColumns DEF builders
    <3>2. c \notin changedBy(t, Nat \ {0})
      <4>1. PICK i, j \in DOMAIN order(p) : i < j /\ t = order(p)[i] /\ u = order(p)[j]
            BY <1>4 DEF Before
      <4>2. order(p) \in {warehouseOrder, refreshOrder}
            BY DEF order
      <4>3. \A s \in {warehouseOrder, refreshOrder} : \A m \in DOMAIN s : m \in Nat /\ m <= Len(s)
            BY WalkLengths
      <4>4. j \in (i + 1) .. Len(order(p))
            BY <4>1, <4>2, <4>3
      <4> QED
          BY <1>4, <4>1, <4>2, <4>4, LaterApart DEF LaterUntouched
    <3>3. Placed(rng[p], {c}, 0)
          BY <2>6 DEF Placed
    <3>4. (t \notin init[p]) \in BOOLEAN /\ 0 \in Int
          OBVIOUS
    <3>5. Placed(row_stops(next_random(rng[p], getTdefFunctionsByNumber(t, k, t \notin init[p])), t), {c}, 0)
          BY <1>4, <1>5, <2>1, <3>1, <3>2, <3>3, <3>4, BuiltOthers
    <3> QED
        BY <1>6, <2>2, <3>5
  <2>7. row'[p] - 1 = k
        BY <1>5, <2>2
  <2>8. \A c \in ownStreams(t) : nUsedPerRow[c] # 0 \/ t \notin init'[p] => Placed(rng'[p], {c}, row'[p] - 1)
        BY <2>2, <2>5, <2>7
  <2>9. pc'[p] \in {"main", "rows"} /\ ~ inv(p)'.validate /\ inv(p)'.child = 1 =>
            \A u \in todo'[p] \cap builders : Placed(rng'[p], ownStreams(u), 0)
        BY <1>1, <1>2, <2>2, <2>6 DEF StreamsOf
  <2>10. pc'[p] # "idle" /\ table'[p] = t
         BY <2>2
  <2> QED
      BY <2>3, <2>4, <2>8, <2>9, <2>10 DEF StreamsOf
<1>11. /\ init' \in [Procs -> SUBSET Tables] /\ rng' = [q \in Procs |-> rng'[q]]
       /\ line' = [q \in Procs |-> line'[q]]
       BY <1>1, <1>2, <1>4
<1> QED
    BY <1>8, <1>9, <1>10, <1>11 DEF StreamsInv

\* A row that is validated is drawn where a serial build draws it, dates apart.
LEMMA ValidateStreams ==
    ASSUME FilesInv, WalkInv, StreamsInv, NEW p \in Procs, ValidateRow(p)
    PROVE  StreamsInv'
<1> DEFINE t == table[p]
<1>1. PICK k \in 1 .. get_rowcount(t) :
          /\ rng' = [rng EXCEPT ![p] = next_random(skipped(p, k), drawsOf(p, k))]
          /\ Write(p, k, skipped(p, k), drawsOf(p, k), validatedDay(p, k), oldValues(p, t, rebuilt(t, k)))
      BY DEF ValidateRow
<1> DEFINE old   == oldValues(p, t, rebuilt(t, k))
           seen  == IF Revised(t) THEN old[t] ELSE 0
           draws == drawsOf(p, k)
           at    == skipped(p, k)
<1>2. /\ pc[p] = "validate" /\ UNCHANGED <<plan, pc, todo, table, row>> /\ rng' = [rng EXCEPT ![p] = next_random(at, draws)]
      /\ init' = [init EXCEPT ![p] = @ \cup {t}] /\ left' = [left EXCEPT ![p] = @ - 1]
      /\ line' = [line EXCEPT ![p] = builtLine(at, draws, t, k, validatedDay(p, k).jDate, seen)]
  <2>1. pc[p] = "validate" /\ UNCHANGED <<plan, pc, todo, table, row>>
        BY DEF ValidateRow
  <2>2. Write(p, k, at, draws, validatedDay(p, k), old)
        BY <1>1
  <2>3. rng' = [rng EXCEPT ![p] = next_random(at, draws)]
        BY <1>1
  <2> HIDE DEF draws, old, at
  <2> QED
      BY <2>1, <2>2, <2>3 DEF Write
<1>3. /\ rng = [q \in Procs |-> rng[q]] /\ line = [q \in Procs |-> line[q]] /\ init \in [Procs -> SUBSET Tables]
      /\ \A q \in Procs : StreamsOf(q) /\ SerialRow(q)
      BY DEF StreamsInv
<1>4. left \in [Procs -> Int] /\ row \in [Procs -> Int]
      BY DEF WalkInv
<1>5. t \in Tables /\ t \notin todo[p] /\ t \in tablesOf(p) /\ inv(p).validate
      BY <1>2 DEF WalkInv, AtWork, Building, builders
<1>6. t \in Warehouse
  <2>1. inv(p).update = 0
        BY <1>2, <1>5, PlansAssumption DEF FilesInv, RunsPlan, inv, Ended
  <2>2. order(p) = warehouseOrder
        BY <2>1 DEF order
  <2>3. ToSet(warehouseOrder) \subseteq Warehouse
        BY DEF ToSet, warehouseOrder, Warehouse, w_tdefs
  <2> QED
      BY <1>5, <2>2, <2>3 DEF tablesOf
<1>7. \A s : IsStreams(s) => \A j : IsStreams(vldSkip(s, t, j))
  <2>1. CASE t = "DATE"
        BY <2>1 DEF vldSkip
  <2>2. CASE t # "DATE"
        BY <1>5, <1>6, <2>2, ValidationSkips, SkippedOwn
  <2> QED
      BY <2>1, <2>2
<1>8. PICK s : IsStreams(s) /\ at = vldSkip(s, t, k)
  <2>1. \A x : IsStreams(x) => \A j : IsStreams(vldRow(p, x, j))
        BY <1>7, DrawnStreams DEF vldRow
  <2>2. IsStreams(rng[p])
        BY <1>3 DEF StreamsOf
  <2> DEFINE one == vldRow(p, rng[p], k - 1)
             two == vldRow(p, vldRow(p, rng[p], k - 2), k - 1)
  <2>3. IsStreams(one) /\ IsStreams(two)
        BY <2>1, <2>2
  <2>4. at \in {vldSkip(x, t, k) : x \in {rng[p], one, two}}
    <3> HIDE DEF one, two
    <3> QED
        BY DEF skipped, one, two
  <2> QED
      BY <2>2, <2>3, <2>4
<1> HIDE DEF t, draws, at, old
<1>9. IsStreams(at) /\ (t # "DATE" => Placed(at, ownStreams(t), k - 1))
  <2>1. t # "DATE" => at = skippedTo(s, t, k - 1)
        BY <1>6, <1>8, ValidationSkips
  <2> QED
      BY <1>5, <1>7, <1>8, <2>1, SkippedOwn
<1>10. ASSUME NEW q \in Procs, q # p PROVE StreamsOf(q)' /\ SerialRow(q)'
  <2>1. /\ inv(q)' = inv(q) /\ rng'[q] = rng[q] /\ init'[q] = init[q] /\ line'[q] = line[q] /\ todo'[q] = todo[q]
        /\ table'[q] = table[q] /\ row'[q] = row[q] /\ left'[q] = left[q] /\ pc'[q] = pc[q]
        BY <1>2, <1>3, <1>4, <1>10 DEF inv
  <2> QED
      BY <1>3, <2>1, ZenonT(60) DEF StreamsOf, SerialRow
<1>11. SerialRow(p)'
  <2>1. \A day, b : LET l == builtLine(at, draws, t, k, day, b)
                    IN  /\ l.table = t /\ l.row = k /\ DOMAIN l.at = DOMAIN draws
                        /\ \A c \in DOMAIN draws : l.at[c] = at.pos[c]
        BY DEF builtLine
  <2>2. line'[p] = builtLine(at, draws, t, k, validatedDay(p, k).jDate, seen) /\ inv(p)' = inv(p)
        BY <1>2, <1>3 DEF inv
  <2> HIDE DEF seen
  <2>3. line'[p].table = t /\ line'[p].row = k /\ DOMAIN line'[p].at = DOMAIN draws
        /\ \A c \in DOMAIN draws : line'[p].at[c] = at.pos[c]
        BY <2>1, <2>2
  <2> QED
      BY <1>5, <1>9, <2>2, <2>3 DEF SerialRow, Placed
<1>12. StreamsOf(p)'
  <2>1. /\ rng'[p] = next_random(at, draws) /\ init'[p] = init[p] \cup {t} /\ pc'[p] = "validate"
        /\ todo'[p] = todo[p]
        BY <1>2, <1>3
  <2>2. IsStreams(rng'[p])
        BY <1>9, <2>1, DrawnStreams
  <2> QED
      BY <1>3, <1>5, <2>1, <2>2 DEF StreamsOf
<1>13. /\ init' \in [Procs -> SUBSET Tables] /\ rng' = [q \in Procs |-> rng'[q]]
       /\ line' = [q \in Procs |-> line'[q]]
       BY <1>2, <1>3, <1>5
<1> QED
    BY <1>10, <1>11, <1>12, <1>13 DEF StreamsInv

LEMMA StreamsNext ==
    FilesInv /\ WalkInv /\ StreamsInv /\ [Next]_vars => StreamsInv'
<1> SUFFICES ASSUME FilesInv, WalkInv, StreamsInv, [Next]_vars PROVE StreamsInv'
    OBVIOUS
<1>1. ASSUME NEW p \in Procs,
             \/ validate_options(p) \/ DeleteFilesInTheWay(p) \/ NamedChild(p) \/ ValidationInTheWay(p)
             \/ FileInTheWay(p) \/ CloseTable(p) \/ Finish(p) \/ Kill(p)
      PROVE  StreamsInv'
  <2>1. UNCHANGED <<plan, todo, table, row, left, values>>
        BY <1>1 DEF validate_options, DeleteFilesInTheWay, NamedChild, ValidationInTheWay, FileInTheWay,
                    CloseTable, Finish, Kill, walk, files
  <2>2. CASE CloseTable(p)
    <3>1. pc[p] \in AtWork /\ pc' = [pc EXCEPT ![p] = "main"]
          BY <2>2 DEF CloseTable, AtWork
    <3> QED
        BY <2>1, <3>1, QuietStreams
  <2>3. CASE ~ CloseTable(p)
    <3>1. PICK at \in Ended : pc' = [pc EXCEPT ![p] = at]
          BY <1>1, <2>3 DEF validate_options, DeleteFilesInTheWay, NamedChild, ValidationInTheWay, FileInTheWay,
                            Finish, Kill, Ended
    <3>2. at # "main"
          BY DEF Ended
    <3> QED
        BY <2>1, <3>1, <3>2, QuietStreams
  <2> QED
      BY <2>2, <2>3
<1>2. CASE UNCHANGED vars
  <2>1. UNCHANGED <<plan, pc, todo, table, row, left, rng, init, line>>
        BY <1>2 DEF vars, walk, values
  <2> QED
      BY <2>1 DEF StreamsInv, StreamsOf, SerialRow, inv
<1> QED
    BY <1>1, <1>2, BeginStreams, StartStreams, StartValidationStreams, BuildStreams, ValidateStreams
    DEF Next, main, AllEnded

\* Every row is built from the streams at the places a serial build has them at, by whatever
\* process and with whatever other tables.
THEOREM RowsLikeSerial == Spec => []RowsAsSerial
<1>1. Init => FilesInv /\ WalkInv /\ StreamsInv
      BY FilesInit, WalkInit, StreamsInit
<1>2. FilesInv /\ WalkInv /\ StreamsInv /\ [Next]_vars => (FilesInv /\ WalkInv /\ StreamsInv)'
      BY FilesNext, WalkNext, StreamsNext
<1>3. StreamsInv => RowsAsSerial
      BY DEF StreamsInv, SerialRow, RowsAsSerial
<1> QED
    BY <1>1, <1>2, <1>3, PTL DEF Spec

(***************************************************************************)
(* The day of a catalog order.  What is computed day by day is known by    *)
(* induction: a set of numbers that is not empty has a least number.       *)
(***************************************************************************)

\* A set of numbers that is not empty has a least one.
LEMMA LeastNumber ==
    ASSUME NEW T \in SUBSET Nat, T # {}
    PROVE  \E m \in T : \A n \in T : m <= n
<1> DEFINE R == OpToRel(<, Nat)
<1>1. IsWellFoundedOn(R, Nat)
      BY NatLessThanWellFounded
<1>2. \A m, n \in Nat : <<m, n>> \in R <=> m < n
      BY DEF OpToRel
<1> HIDE DEF R
<1>3. PICK m \in T : \A n \in T : <<n, m>> \notin R
      BY <1>1, WFMin
<1>4. ASSUME NEW n \in T PROVE m <= n
  <2>1. m \in Nat /\ n \in Nat /\ ~ (n < m)
        BY <1>2, <1>3
  <2> QED
      BY <2>1
<1> QED
    BY <1>4

\* A set of numbers with 0, and with the next of each of its numbers, has them all.
LEMMA Induction ==
    ASSUME NEW T \in SUBSET Nat, 0 \in T, \A n \in T : n + 1 \in T
    PROVE  T = Nat
<1> SUFFICES ASSUME Nat \ T # {} PROVE FALSE
    OBVIOUS
<1>1. PICK m \in Nat \ T : \A n \in Nat \ T : m <= n
      BY LeastNumber
<1>2. m # 0
      OBVIOUS
<1>3. m - 1 \in Nat /\ m - 1 < m /\ m - 1 + 1 = m
      BY <1>2
<1>4. m - 1 \in T
      BY <1>1, <1>3
<1> QED
    BY <1>3, <1>4

\* What the first n equations say that define a sum of z.
IsPart(g, z, n) == g \in [0 .. n -> Nat] /\ g[0] = 1 /\ \A d \in 1 .. n : g[d] = g[d - 1] + z[d - 1]

\* For any number of them there is a function that satisfies them,
LEMMA Parts ==
    ASSUME NEW z \in [Nat -> Nat]
    PROVE  \A n \in Nat : \E g : IsPart(g, z, n)
<1> DEFINE T == {n \in Nat : \E g : IsPart(g, z, n)}
<1>1. 0 \in T
  <2>1. IsPart([d \in 0 .. 0 |-> 1], z, 0)
        BY DEF IsPart
  <2> QED
      BY <2>1
<1>2. ASSUME NEW n \in T PROVE n + 1 \in T
  <2>1. PICK g : IsPart(g, z, n)
        OBVIOUS
  <2> DEFINE h == [d \in 0 .. n + 1 |-> IF d = n + 1 THEN g[n] + z[n] ELSE g[d]]
  <2>2. IsPart(h, z, n + 1)
    <3>1. h \in [0 .. n + 1 -> Nat] /\ h[0] = 1
      <4>1. \A d \in 0 .. n : g[d] \in Nat
            BY <2>1 DEF IsPart
      <4>2. \A d \in 0 .. n + 1 : d # n + 1 => d \in 0 .. n
            OBVIOUS
      <4>3. n \in 0 .. n /\ 0 \in 0 .. n + 1 /\ n + 1 # 0 /\ z[n] \in Nat
            OBVIOUS
      <4>4. h[0] = 1
            BY <2>1, <4>3 DEF IsPart
      <4>5. \A d \in 0 .. n + 1 : h[d] \in Nat
            BY <4>1, <4>2, <4>3
      <4> QED
          BY <4>4, <4>5
    <3>2. ASSUME NEW d \in 1 .. n + 1 PROVE h[d] = h[d - 1] + z[d - 1]
      <4>1. CASE d = n + 1
            BY <2>1, <4>1 DEF IsPart
      <4>2. CASE d # n + 1
            BY <2>1, <4>2 DEF IsPart
      <4> QED
          BY <4>1, <4>2
    <3> QED
        BY <3>1, <3>2 DEF IsPart
  <2> QED
      BY <2>2
<1> HIDE DEF T
<1>3. T = Nat
  <2>1. T \in SUBSET Nat
        BY DEF T
  <2> QED
      BY <1>1, <1>2, <2>1, Induction
<1> QED
    BY <1>3 DEF T

\* two such functions agree on what they both define,
LEMMA SameParts ==
    ASSUME NEW z \in [Nat -> Nat], NEW m \in Nat, NEW n \in Nat, NEW g, NEW h, IsPart(g, z, m), IsPart(h, z, n)
    PROVE  \A d \in 0 .. m : d <= n => g[d] = h[d]
<1> DEFINE T == {d \in Nat : d <= m /\ d <= n => g[d] = h[d]}
<1>1. 0 \in T
      BY DEF IsPart
<1>2. ASSUME NEW d \in T PROVE d + 1 \in T
  <2> SUFFICES ASSUME d + 1 <= m, d + 1 <= n PROVE g[d + 1] = h[d + 1]
      OBVIOUS
  <2>1. d + 1 \in 1 .. m /\ d + 1 \in 1 .. n /\ d + 1 - 1 = d /\ d <= m /\ d <= n
        OBVIOUS
  <2>2. g[d + 1] = g[d] + z[d] /\ h[d + 1] = h[d] + z[d]
    <3>1. \A e \in 1 .. m : g[e] = g[e - 1] + z[e - 1]
          BY DEF IsPart
    <3>2. \A e \in 1 .. n : h[e] = h[e - 1] + z[e - 1]
          BY DEF IsPart
    <3> QED
        BY <2>1, <3>1, <3>2
  <2> QED
      BY <2>1, <2>2
<1> HIDE DEF T
<1>3. T = Nat
  <2>1. T \in SUBSET Nat
        BY DEF T
  <2> QED
      BY <1>1, <1>2, <2>1, Induction
<1> QED
    BY <1>3 DEF T

\* and together they are the function that satisfies all.
LEMMA SumExists ==
    ASSUME NEW z \in [Nat -> Nat]
    PROVE  \E f : f = [d \in Nat |-> IF d = 0 THEN 1 ELSE f[d - 1] + z[d - 1]]
<1> DEFINE part(n) == CHOOSE g : IsPart(g, z, n)
           f == [n \in Nat |-> part(n)[n]]
<1>1. \A n \in Nat : IsPart(part(n), z, n)
      BY Parts
<1> HIDE DEF part
<1>2. f[0] = 1
      BY <1>1 DEF IsPart
<1>3. ASSUME NEW d \in Nat \ {0} PROVE f[d] = f[d - 1] + z[d - 1]
  <2>1. part(d)[d] = part(d)[d - 1] + z[d - 1]
        BY <1>1 DEF IsPart
  <2>2. part(d)[d - 1] = part(d - 1)[d - 1]
    <3>1. IsPart(part(d), z, d) /\ IsPart(part(d - 1), z, d - 1)
          BY <1>1
    <3> QED
        BY <3>1, SameParts
  <2> QED
      BY <2>1, <2>2
<1> HIDE DEF f
<1>4. \A d \in Nat : f[d] = IF d = 0 THEN 1 ELSE f[d - 1] + z[d - 1]
      BY <1>2, <1>3
<1>5. f = [d \in Nat |-> f[d]]
      BY DEF f
<1>6. f = [d \in Nat |-> IF d = 0 THEN 1 ELSE f[d - 1] + z[d - 1]]
      BY <1>4, <1>5
<1> QED
    BY <1>6

\* Every day has orders.
LEMMA SizeOfDay == \A d \in Nat : dateScaling(d) \in Nat \ {0}
<1> SUFFICES ASSUME NEW d \in Nat PROVE dateScaling(d) \in Nat \ {0}
    OBVIOUS
<1>1. DaySize \in Seq(Nat \ {0}) /\ Len(DaySize) \in Nat \ {0}
      BY ScalingAssumption
<1>2. (d % Len(DaySize)) + 1 \in 1 .. Len(DaySize)
      BY <1>1
<1> QED
    BY <1>1, <1>2 DEF dateScaling

\* Where a day begins satisfies the equations that define it,
LEMMA DayStarts ==
    /\ dayStart[0] = 1
    /\ \A d \in Nat : dayStart[d + 1] = dayStart[d] + dateScaling(d)
<1> DEFINE z == [d \in Nat |-> dateScaling(d)]
<1>1. z \in [Nat -> Nat]
      BY SizeOfDay
<1>2. \E f : f = [d \in Nat |-> IF d = 0 THEN 1 ELSE f[d - 1] + z[d - 1]]
      BY <1>1, SumExists
<1>3. PICK f : f = [d \in Nat |-> IF d = 0 THEN 1 ELSE f[d - 1] + dateScaling(d - 1)]
  <2>1. PICK f : f = [d \in Nat |-> IF d = 0 THEN 1 ELSE f[d - 1] + z[d - 1]]
        BY <1>2
  <2>2. \A d \in Nat : d # 0 => z[d - 1] = dateScaling(d - 1)
        OBVIOUS
  <2> HIDE DEF z
  <2>3. f = [d \in Nat |-> IF d = 0 THEN 1 ELSE f[d - 1] + dateScaling(d - 1)]
        BY <2>1, <2>2
  <2> QED
      BY <2>3
<1>4. dayStart = [d \in Nat |-> IF d = 0 THEN 1 ELSE dayStart[d - 1] + dateScaling(d - 1)]
      BY <1>3 DEF dayStart
<1> QED
    BY <1>4

\* and is later than where the days before begin.
LEMMA StartsGrow ==
    /\ \A d \in Nat : dayStart[d] \in Nat /\ dayStart[d] >= d + 1
    /\ \A d, e \in Nat : d < e => dayStart[d] + (e - d) <= dayStart[e]
<1> DEFINE T == {d \in Nat : dayStart[d] \in Nat /\ dayStart[d] >= d + 1}
<1>1. 0 \in T
      BY DayStarts
<1>2. ASSUME NEW d \in T PROVE d + 1 \in T
      BY DayStarts, SizeOfDay
<1> HIDE DEF T
<1>3. T = Nat
  <2>1. T \in SUBSET Nat
        BY DEF T
  <2> QED
      BY <1>1, <1>2, <2>1, Induction
<1>4. ASSUME NEW d \in Nat PROVE \A e \in Nat : d < e => dayStart[d] + (e - d) <= dayStart[e]
  <2> DEFINE Grows == {e \in Nat : d < e => dayStart[d] + (e - d) <= dayStart[e]}
  <2>1. 0 \in Grows
        OBVIOUS
  <2>2. ASSUME NEW e \in Grows PROVE e + 1 \in Grows
    <3>1. dayStart[e + 1] = dayStart[e] + dateScaling(e) /\ dateScaling(e) \in Nat \ {0}
          BY DayStarts, SizeOfDay
    <3>2. dayStart[d] \in Nat /\ dayStart[e] \in Nat
          BY <1>3 DEF T
    <3> QED
        BY <3>1, <3>2
  <2> HIDE DEF Grows
  <2>3. Grows = Nat
    <3>1. Grows \in SUBSET Nat
          BY DEF Grows
    <3> QED
        BY <2>1, <2>2, <3>1, Induction
  <2> QED
      BY <2>3 DEF Grows
<1> QED
    BY <1>3, <1>4 DEF T

\* Order n of a serial build is on day e.
OnDay(n, e) == e \in Nat /\ n <= dayStart[e + 1] /\ \A x \in 0 .. (e - 1) : dayStart[x + 1] < n

\* How a process enters the days.
LEMMA EntersDays ==
    ASSUME NEW first \in Nat \ {0}
    PROVE  LET cursor == skipDays(first)
           IN  /\ lateBy(first) \in Nat
               /\ OnDay(first + lateBy(first), cursor.jDate)
               /\ cursor = [jDate |-> cursor.jDate, remainder |-> dayStart[cursor.jDate + 1] - lateBy(first)]
<1> DEFINE Comes(d) == dayStart[d] >= first /\ \A e \in 0 .. (d - 1) : dayStart[e] < first
           d  == CHOOSE d \in 0 .. first : Comes(d)
           to == {e \in Nat : dayStart[e] >= first}
<1>1. \A e \in Nat : dayStart[e] \in Nat /\ dayStart[e] >= e + 1
      BY StartsGrow
<1>2. PICK m \in to : \A e \in to : m <= e
  <2>1. first \in to
        BY <1>1
  <2> QED
      BY <2>1, LeastNumber
<1>3. m \in 0 .. first /\ Comes(m)
  <2>1. first \in to
        BY <1>1
  <2>2. m <= first
        BY <1>2, <2>1
  <2>3. \A e \in 0 .. (m - 1) : dayStart[e] < first
        BY <1>1, <1>2
  <2> QED
      BY <1>2, <2>2, <2>3
<1>4. d \in 0 .. first /\ Comes(d)
  <2> HIDE DEF Comes
  <2> QED
      BY <1>3
<1>5. skipDays(first) = [jDate     |-> IF dayStart[d] > first THEN d - 1 ELSE d,
                         remainder |-> IF d = 0 THEN dayStart[1] ELSE dayStart[d]]
      BY DEF skipDays
<1> HIDE DEF d
<1>6. \A e \in 0 .. first : dayStart[e] = first /\ first > 1 => e = d
  <2> SUFFICES ASSUME NEW e \in 0 .. first, dayStart[e] = first PROVE e = d
      OBVIOUS
  <2>1. e < d => dayStart[e] < first
        BY <1>4
  <2>2. e > d => dayStart[d] < dayStart[e]
        BY <1>1, <1>4, StartsGrow
  <2> QED
      BY <1>1, <1>4, <2>1, <2>2
<1> DEFINE days == {e \in 1 .. first : first > 1 /\ dayStart[e] = first}
<1>7. lateBy(first) = IF days = {} THEN 0 ELSE dateScaling(CHOOSE e \in days : TRUE)
      BY DEF lateBy
<1>8. dayStart[0] = 1 /\ \A e \in Nat : dayStart[e + 1] = dayStart[e] + dateScaling(e) /\ dateScaling(e) \in Nat \ {0}
      BY DayStarts, SizeOfDay
<1>9. CASE first = 1
  <2>1. d = 0
        BY <1>4, <1>8, <1>9
  <2>2. lateBy(first) = 0
        BY <1>7, <1>9
  <2>3. skipDays(first) = [jDate |-> 0, remainder |-> dayStart[1]]
        BY <1>5, <1>8, <1>9, <2>1
  <2> QED
      BY <1>1, <1>8, <1>9, <2>2, <2>3 DEF OnDay
<1>10. CASE first > 1 /\ dayStart[d] = first
  <2>1. d \in 1 .. first
        BY <1>4, <1>8, <1>10
  <2>2. days = {d}
        BY <1>6, <1>10, <2>1
  <2>3. lateBy(first) = dateScaling(d)
        BY <1>7, <2>2
  <2>4. skipDays(first) = [jDate |-> d, remainder |-> dayStart[d]]
        BY <1>5, <1>10, <2>1
  <2>5. dayStart[d + 1] = dayStart[d] + dateScaling(d) /\ dateScaling(d) \in Nat \ {0}
        BY <1>8, <2>1
  <2>6. \A x \in 0 .. (d - 1) : dayStart[x + 1] <= first
    <3> SUFFICES ASSUME NEW x \in 0 .. (d - 1) PROVE dayStart[x + 1] <= first
        OBVIOUS
    <3>1. x + 1 \in 0 .. (d - 1) \/ x + 1 = d
          BY <2>1
    <3> QED
        BY <1>1, <1>4, <1>10, <2>1, <3>1
  <2>7. OnDay(first + dateScaling(d), d)
    <3>1. \A x \in 0 .. (d - 1) : dayStart[x + 1] < first + dateScaling(d)
      <4> SUFFICES ASSUME NEW x \in 0 .. (d - 1) PROVE dayStart[x + 1] < first + dateScaling(d)
          OBVIOUS
      <4>1. x + 1 \in Nat /\ dayStart[x + 1] \in Nat /\ dayStart[x + 1] <= first
            BY <1>1, <2>1, <2>6
      <4> QED
          BY <2>5, <4>1
    <3> QED
        BY <1>10, <2>1, <2>5, <3>1 DEF OnDay
  <2>8. dayStart[d] = dayStart[d + 1] - dateScaling(d)
        BY <1>1, <2>1, <2>5
  <2> QED
      BY <2>3, <2>4, <2>5, <2>7, <2>8
<1>11. CASE first > 1 /\ dayStart[d] > first
  <2>1. d \in 1 .. first
        BY <1>4, <1>8, <1>11
  <2>2. days = {}
    <3> SUFFICES ASSUME NEW e \in 1 .. first, dayStart[e] = first PROVE FALSE
        OBVIOUS
    <3>1. e = d
          BY <1>6, <1>11
    <3> QED
        BY <1>1, <1>11, <3>1
  <2>3. lateBy(first) = 0
        BY <1>7, <2>2
  <2>4. skipDays(first) = [jDate |-> d - 1, remainder |-> dayStart[d]] /\ d - 1 + 1 = d
        BY <1>5, <1>11, <2>1
  <2>5. \A x \in 0 .. (d - 2) : dayStart[x + 1] < first
    <3> SUFFICES ASSUME NEW x \in 0 .. (d - 2) PROVE dayStart[x + 1] < first
        OBVIOUS
    <3>1. x + 1 \in 0 .. (d - 1)
          BY <2>1
    <3> QED
        BY <1>4, <3>1
  <2>6. OnDay(first, d - 1)
    <3>1. d - 1 \in Nat /\ d - 1 - 1 = d - 2 /\ d - 1 + 1 = d
          BY <2>1
    <3> QED
        BY <1>1, <1>11, <2>1, <2>5, <3>1 DEF OnDay
  <2>7. dayStart[d] - 0 = dayStart[d] /\ first + 0 = first
        BY <1>1, <2>1
  <2> QED
      BY <2>3, <2>4, <2>6, <2>7
<1> QED
    BY <1>1, <1>4, <1>9, <1>10, <1>11

\* How a process that is this late moves from day to day.
LEMMA MovesDays ==
    ASSUME NEW late \in Nat, NEW j \in Nat, late <= dayStart[j + 1],
           NEW cursor, cursor = [jDate |-> j, remainder |-> dayStart[j + 1] - late],
           NEW k \in Nat
    PROVE  /\ (\A x \in 0 .. (j - 1) : dayStart[x + 1] < k + late) =>
                  \E e : OnDay(k + late, e) /\ soldDay(cursor, k) = [jDate |-> e, remainder |-> dayStart[e + 1] - late]
           /\ k + late <= dayStart[j + 1] => soldDay(cursor, k) = cursor
<1> DEFINE end(e)   == cursor.remainder + dayStart[e + 1] - dayStart[cursor.jDate + 1]
           Comes(e) == end(e) >= k /\ \A x \in cursor.jDate .. (e - 1) : end(x) < k
           day      == CHOOSE e \in cursor.jDate .. (cursor.jDate + k) : Comes(e)
<1>1. soldDay(cursor, k) = [jDate |-> day, remainder |-> end(day)]
      BY DEF soldDay
<1>2. /\ \A e \in Nat : dayStart[e] \in Nat
      /\ \A d, e \in Nat : d < e => dayStart[d] + (e - d) <= dayStart[e]
      BY StartsGrow
<1>3. \A e \in Nat : end(e) = dayStart[e + 1] - late /\ end(e) \in Int
  <2>1. \A e \in Nat : dayStart[e + 1] \in Nat
        BY <1>2
  <2>2. cursor.jDate = j /\ cursor.remainder = dayStart[j + 1] - late
        OBVIOUS
  <2> QED
      BY <2>1, <2>2
<1>4. cursor.jDate = j
      OBVIOUS
<1> HIDE DEF end
<1>5. \A e \in j .. (j + k) : Comes(e) <=> dayStart[e + 1] >= k + late /\ \A x \in j .. (e - 1) : dayStart[x + 1] < k + late
  <2>1. \A e \in Nat : dayStart[e + 1] \in Nat /\ (end(e) >= k <=> dayStart[e + 1] >= k + late) /\ (end(e) < k <=> dayStart[e + 1] < k + late)
        BY <1>2, <1>3
  <2> SUFFICES ASSUME NEW e \in j .. (j + k)
               PROVE  Comes(e) <=> dayStart[e + 1] >= k + late /\ \A x \in j .. (e - 1) : dayStart[x + 1] < k + late
      OBVIOUS
  <2>2. Comes(e) <=> end(e) >= k /\ \A x \in j .. (e - 1) : end(x) < k
        BY <1>4
  <2>3. e \in Nat /\ \A x \in j .. (e - 1) : x \in Nat
        OBVIOUS
  <2> HIDE DEF Comes
  <2> QED
      BY <2>1, <2>2, <2>3
<1>6. day \in j .. (j + k) /\ Comes(day)
  <2> DEFINE to == {e \in Nat : j <= e /\ dayStart[e + 1] >= k + late}
  <2>1. j + k \in to
    <3>1. dayStart[j + 1] + k <= dayStart[j + k + 1]
          BY <1>2
    <3>2. dayStart[j + 1] \in Nat /\ dayStart[j + k + 1] \in Nat
          BY <1>2
    <3> QED
        BY <3>1, <3>2
  <2>2. PICK e \in to : \A x \in to : e <= x
        BY <2>1, LeastNumber
  <2>3. e \in j .. (j + k)
        BY <2>1, <2>2
  <2>4. \A x \in j .. (e - 1) : dayStart[x + 1] < k + late
    <3> SUFFICES ASSUME NEW x \in j .. (e - 1) PROVE dayStart[x + 1] < k + late
        OBVIOUS
    <3>1. x \in Nat /\ j <= x /\ x < e /\ dayStart[x + 1] \in Nat
          BY <1>2, <2>3
    <3> QED
        BY <2>2, <2>3, <3>1
  <2>5. Comes(e)
        BY <1>5, <2>2, <2>3, <2>4
  <2> HIDE DEF Comes
  <2> QED
      BY <1>4, <2>3, <2>5
<1> HIDE DEF day
<1>7. day \in Nat /\ dayStart[day + 1] >= k + late /\ \A x \in j .. (day - 1) : dayStart[x + 1] < k + late
      BY <1>5, <1>6
<1> HIDE DEF Comes
<1>8. soldDay(cursor, k) = [jDate |-> day, remainder |-> dayStart[day + 1] - late]
      BY <1>1, <1>3, <1>7
<1>9. ASSUME \A x \in 0 .. (j - 1) : dayStart[x + 1] < k + late
      PROVE  OnDay(k + late, day)
  <2>1. \A x \in 0 .. (day - 1) : x \in 0 .. (j - 1) \/ x \in j .. (day - 1)
        BY <1>7
  <2>2. dayStart[day + 1] \in Nat
        BY <1>2, <1>7
  <2> QED
      BY <1>7, <1>9, <2>1, <2>2 DEF OnDay
<1>10. ASSUME k + late <= dayStart[j + 1] PROVE day = j
  <2>1. j < day => dayStart[j + 1] < k + late
        BY <1>7
  <2>2. dayStart[j + 1] \in Nat
        BY <1>2
  <2> QED
      BY <1>6, <1>10, <2>1, <2>2
<1> QED
    BY <1>8, <1>9, <1>10

\* The day of an order is one.
LEMMA OneDay ==
    ASSUME NEW n \in Nat \ {0}, NEW e, OnDay(n, e)
    PROVE  serialDay(n) = e
<1>1. \A d \in Nat : dayStart[d] \in Nat
      BY StartsGrow
<1>2. lateBy(1) = 0
      BY DEF lateBy
<1> DEFINE cursor == skipDays(1)
<1>3. /\ OnDay(1, cursor.jDate)
      /\ cursor = [jDate |-> cursor.jDate, remainder |-> dayStart[cursor.jDate + 1] - 0]
      BY <1>2, EntersDays
<1> HIDE DEF cursor
<1>4. cursor.jDate \in Nat /\ \A x \in 0 .. (cursor.jDate - 1) : dayStart[x + 1] < n
  <2>1. \A x \in 0 .. (cursor.jDate - 1) : dayStart[x + 1] < 1 /\ dayStart[x + 1] \in Nat
        BY <1>1, <1>3 DEF OnDay
  <2> QED
      BY <1>3, <2>1 DEF OnDay
<1>5. 0 <= dayStart[cursor.jDate + 1] /\ n + 0 = n
      BY <1>1, <1>4
<1>6. PICK d : OnDay(n, d) /\ soldDay(cursor, n) = [jDate |-> d, remainder |-> dayStart[d + 1] - 0]
      BY <1>3, <1>4, <1>5, MovesDays
<1>7. d = e
  <2>1. d < e => dayStart[d + 1] < n
        BY <1>6 DEF OnDay
  <2>2. e < d => dayStart[e + 1] < n
        BY <1>6 DEF OnDay
  <2>3. d \in Nat /\ e \in Nat /\ dayStart[d + 1] \in Nat /\ dayStart[e + 1] \in Nat
        BY <1>1, <1>6 DEF OnDay
  <2> QED
      BY <1>6, <2>1, <2>2, <2>3 DEF OnDay
<1>8. serialDay(n) = soldDay(cursor, n).jDate
      BY DEF serialDay, cursor
<1> QED
    BY <1>6, <1>7, <1>8

\* The day that is due for order k of a process whose first row this is, and a cursor that has
\* come to the order.
DueDay(first, k) == serialDay((IF k < first THEN first ELSE k) + lateBy(first))
AtOrder(first, k, cursor) ==
    \E e : /\ OnDay(k + lateBy(first), e)
          /\ cursor = [jDate |-> e, remainder |-> dayStart[e + 1] - lateBy(first)]

\* The line of process p has the day that is due, and the cursor has come to the order of the line.
LineDay(p) == line[p].table = "CATALOG_SALES" => line[p].day = DueDay(firstChunkRow(p), line[p].row)
CursorDay(p) ==
    pc[p] = "rows" /\ table[p] = "CATALOG_SALES" /\ "CATALOG_SALES" \in init[p] =>
        row[p] - 1 >= firstChunkRow(p) /\ AtOrder(firstChunkRow(p), row[p] - 1, sold[p])

DaysInv == sold = [p \in Procs |-> sold[p]] /\ \A p \in Procs : LineDay(p) /\ CursorDay(p)

LEMMA DaysInit == Init => DaysInv
<1> SUFFICES ASSUME Init PROVE DaysInv
    OBVIOUS
<1>1. sold = [p \in Procs |-> sold[p]] /\ \A p \in Procs : pc[p] \in {"idle", "done"} /\ line[p] = NoLine
      BY DEF Init
<1>2. NoLine.table # "CATALOG_SALES"
      BY DEF NoLine, NoTable
<1> QED
    BY <1>1, <1>2 DEF DaysInv, LineDay, CursorDay

\* The day an order is given, by a process that enters the days with it or goes on from the
\* day of the order before.
LEMMA DayOfOrder ==
    ASSUME NEW first \in Nat \ {0}, NEW k \in Nat \ {0}, NEW cursor,
           cursor = skipDays(first) \/ (k - 1 >= first /\ AtOrder(first, k - 1, cursor))
    PROVE  /\ k >= first => AtOrder(first, k, soldDay(cursor, k))
           /\ soldDay(cursor, k).jDate = DueDay(first, k)
<1> DEFINE late == lateBy(first)
<1>1. late \in Nat
      BY EntersDays
<1>2. PICK n \in Nat \ {0} : (n = first \/ (n = k - 1 /\ k - 1 >= first)) /\ AtOrder(first, n, cursor)
  <2>1. CASE cursor = skipDays(first)
    <3>1. OnDay(first + late, cursor.jDate) /\ cursor = [jDate |-> cursor.jDate, remainder |-> dayStart[cursor.jDate + 1] - late]
          BY <2>1, EntersDays
    <3>2. AtOrder(first, first, cursor)
          BY <3>1 DEF AtOrder
    <3> QED
        BY <3>2
  <2>2. CASE ~ (cursor = skipDays(first))
    <3>1. k - 1 \in Nat \ {0}
          BY <2>2
    <3> QED
        BY <2>2, <3>1
  <2> QED
      BY <2>1, <2>2
<1>3. PICK j : OnDay(n + late, j) /\ cursor = [jDate |-> j, remainder |-> dayStart[j + 1] - late]
      BY <1>2 DEF AtOrder
<1> HIDE DEF late
<1>4. j \in Nat /\ dayStart[j + 1] \in Nat /\ n + late <= dayStart[j + 1] /\ late <= dayStart[j + 1]
      BY <1>1, <1>3, StartsGrow DEF OnDay
<1>5. /\ (\A x \in 0 .. (j - 1) : dayStart[x + 1] < k + late) =>
            \E e : OnDay(k + late, e) /\ soldDay(cursor, k) = [jDate |-> e, remainder |-> dayStart[e + 1] - late]
      /\ k + late <= dayStart[j + 1] => soldDay(cursor, k) = cursor
      BY <1>1, <1>3, <1>4, MovesDays, SMTT(60)
<1>6. ASSUME k >= first PROVE AtOrder(first, k, soldDay(cursor, k))
  <2>1. n + late <= k + late
        BY <1>1, <1>2, <1>6
  <2>2. \A x \in 0 .. (j - 1) : dayStart[x + 1] < n + late
        BY <1>3 DEF OnDay
  <2>3. \A x \in 0 .. (j - 1) : dayStart[x + 1] \in Nat
        BY <1>4, StartsGrow
  <2>4. \A x \in 0 .. (j - 1) : dayStart[x + 1] < k + late
        BY <1>1, <2>1, <2>2, <2>3
  <2> QED
      BY <1>5, <2>4 DEF AtOrder, late
<1>7. ASSUME k >= first PROVE soldDay(cursor, k).jDate = serialDay(k + late)
  <2>1. PICK e : OnDay(k + late, e) /\ soldDay(cursor, k) = [jDate |-> e, remainder |-> dayStart[e + 1] - late]
        BY <1>6, <1>7 DEF AtOrder, late
  <2>2. k + late \in Nat \ {0}
        BY <1>1
  <2> QED
      BY <2>1, <2>2, OneDay
<1>8. ASSUME k < first PROVE soldDay(cursor, k).jDate = serialDay(first + late)
  <2>1. n = first
        BY <1>2, <1>8
  <2>2. first + late \in Nat \ {0} /\ k + late <= dayStart[j + 1]
        BY <1>1, <1>4, <1>8, <2>1
  <2>3. soldDay(cursor, k).jDate = j
        BY <1>3, <1>5, <2>2
  <2> QED
      BY <1>3, <2>1, <2>2, <2>3, OneDay
<1> QED
    BY <1>6, <1>7, <1>8 DEF DueDay, late

\* A step that builds no row.
LEMMA QuietDays ==
    ASSUME FilesInv, StreamsInv, DaysInv, UNCHANGED <<plan, init, sold, line>>, NEW p \in Procs,
           NEW at \in At, pc' = [pc EXCEPT ![p] = at], at = "rows" => table'[p] \notin init[p],
           \A q \in Procs \ {p} : table'[q] = table[q] /\ row'[q] = row[q]
    PROVE  DaysInv'
<1>1. pc \in [Procs -> At]
      BY DEF FilesInv, RunsPlan, At
<1>2. ASSUME NEW q \in Procs PROVE LineDay(q)' /\ CursorDay(q)'
  <2>1. LineDay(q) /\ CursorDay(q) /\ firstChunkRow(q)' = firstChunkRow(q)
        BY DEF DaysInv, firstChunkRow, inv
  <2>2. CASE q # p
        BY <1>1, <2>1, <2>2 DEF LineDay, CursorDay
  <2>3. CASE q = p
    <3>1. pc'[q] = "rows" => table'[q] \notin init'[q]
          BY <1>1, <2>3
    <3> QED
        BY <2>1, <2>3, <3>1 DEF LineDay, CursorDay
  <2> QED
      BY <2>2, <2>3
<1> QED
    BY <1>2 DEF DaysInv

\* The first row of the chunk of a process that runs is the number of a row.
LEMMA FirstOfChunk ==
    ASSUME FilesInv, WalkInv, NEW p \in Procs, pc[p] \in AtWork
    PROVE  /\ firstChunkRow(p) \in Nat \ {0}
           /\ pc[p] = "rows" => row[p] \in Nat \ {0}
           /\ pc[p] = "rows" /\ table[p] = "CATALOG_SALES" => row[p] >= firstChunkRow(p)
<1>1. pc[p] \notin Ended /\ ~ usage(p) /\ table[p] \in Tables
      BY DEF WalkInv, AtWork, Ended, Building, builders
<1>2. "CATALOG_SALES" \in Tables
      BY DEF Tables, Warehouse, w_tdefs
<1>3. firstChunkRow(p) = share(p, "CATALOG_SALES").first
      BY DEF firstChunkRow, share, parallelism
<1>4. \A t \in Tables : share(p, t).first \in Nat \ {0} /\ share(p, t).count \in Nat
      BY <1>1, ShareOf
<1>5. pc[p] = "rows" => InShare(p) /\ row[p] \in Int
      BY DEF WalkInv
<1> HIDE DEF share
<1> QED
    BY <1>1, <1>2, <1>3, <1>4, <1>5 DEF InShare

\* A row that is built, or validated, from this cursor.
LEMMA WrittenDay ==
    ASSUME FilesInv, WalkInv, StreamsInv, DaysInv, NEW p \in Procs, pc[p] \in AtWork, UNCHANGED <<plan, pc, table>>,
           NEW k \in Nat \ {0}, NEW streams, NEW draws, NEW day, NEW olds, Write(p, k, streams, draws, day, olds),
           \A q \in Procs \ {p} : row'[q] = row[q],
           pc[p] = "rows" => k = row[p] /\ row'[p] = row[p] + 1,
           NEW cursor, table[p] = "CATALOG_SALES" => day = soldDay(cursor, k),
           \/ cursor = skipDays(firstChunkRow(p))
           \/ cursor = sold[p] /\ pc[p] = "rows" /\ table[p] \in init[p]
    PROVE  DaysInv'
<1> DEFINE t    == table[p]
           seen == IF Revised(t) THEN olds[t] ELSE 0
           first == firstChunkRow(p)
<1>1. /\ sold' = [sold EXCEPT ![p] = day] /\ init' = [init EXCEPT ![p] = @ \cup {t}]
      /\ line' = [line EXCEPT ![p] = builtLine(streams, draws, t, k, day.jDate, seen)]
      BY DEF Write
<1>2. /\ sold = [q \in Procs |-> sold[q]] /\ line = [q \in Procs |-> line[q]] /\ init \in [Procs -> SUBSET Tables]
      /\ \A q \in Procs : LineDay(q) /\ CursorDay(q) /\ firstChunkRow(q)' = firstChunkRow(q)
      BY DEF DaysInv, StreamsInv, firstChunkRow, inv
<1>3. ASSUME NEW q \in Procs, q # p PROVE LineDay(q)' /\ CursorDay(q)'
      BY <1>1, <1>2, <1>3 DEF LineDay, CursorDay
<1> HIDE DEF seen
<1>4. line'[p].table = t /\ line'[p].row = k /\ line'[p].day = day.jDate /\ sold'[p] = day
      BY <1>1, <1>2 DEF builtLine
<1>5. ASSUME t # "CATALOG_SALES" PROVE LineDay(p)' /\ CursorDay(p)'
  <2>1. line'[p].table # "CATALOG_SALES" /\ table'[p] # "CATALOG_SALES"
        BY <1>4, <1>5
  <2> QED
      BY <2>1 DEF LineDay, CursorDay
<1>6. ASSUME t = "CATALOG_SALES" PROVE LineDay(p)' /\ CursorDay(p)'
  <2>1. first \in Nat \ {0} /\ (pc[p] = "rows" => k >= first)
        BY <1>6, FirstOfChunk
  <2>2. cursor = skipDays(first) \/ (k - 1 >= first /\ AtOrder(first, k - 1, cursor))
        BY <1>2, <1>6 DEF CursorDay
  <2> HIDE DEF first
  <2>3. (k >= first => AtOrder(first, k, day)) /\ day.jDate = DueDay(first, k)
        BY <1>6, <2>1, <2>2, DayOfOrder
  <2>4. pc'[p] = "rows" => row'[p] - 1 = k /\ k >= first
        BY <2>1
  <2>5. firstChunkRow(p)' = first
        BY <1>2 DEF first
  <2>6. LineDay(p)'
        BY <1>4, <2>3, <2>5 DEF LineDay
  <2>7. CursorDay(p)'
        BY <1>4, <2>3, <2>4, <2>5 DEF CursorDay
  <2> QED
      BY <2>6, <2>7
<1> QED
    BY <1>1, <1>2, <1>3, <1>5, <1>6 DEF DaysInv

LEMMA DaysNext == FilesInv /\ WalkInv /\ StreamsInv /\ DaysInv /\ [Next]_vars => DaysInv'
<1> SUFFICES ASSUME FilesInv, WalkInv, StreamsInv, DaysInv, [Next]_vars PROVE DaysInv'
    OBVIOUS
<1>1. /\ todo \in [Procs -> SUBSET Tables] /\ left \in [Procs -> Int] /\ row \in [Procs -> Int]
      /\ table \in [Procs -> Tables \cup {NoTable}]
      BY DEF WalkInv
<1>2. ASSUME NEW p \in Procs,
             \/ validate_options(p) \/ DeleteFilesInTheWay(p) \/ NamedChild(p) \/ ValidationInTheWay(p)
             \/ FileInTheWay(p) \/ CloseTable(p) \/ Finish(p) \/ Kill(p) \/ Begin(p)
      PROVE  DaysInv'
  <2>1. UNCHANGED <<plan, table, row, values>>
        BY <1>2 DEF validate_options, DeleteFilesInTheWay, NamedChild, ValidationInTheWay, FileInTheWay,
                    CloseTable, Finish, Kill, Begin, walk, files
  <2>2. PICK at \in Ended \cup {"main"} : pc' = [pc EXCEPT ![p] = at]
        BY <1>2 DEF validate_options, DeleteFilesInTheWay, NamedChild, ValidationInTheWay, FileInTheWay,
                    CloseTable, Finish, Kill, Begin, Ended
  <2>3. at \in At /\ at # "rows"
        BY DEF At, Ended
  <2> QED
      BY <2>1, <2>2, <2>3, QuietDays DEF values
<1>3. ASSUME NEW p \in Procs, StartTable(p) PROVE DaysInv'
  <2>1. PICK t \in Tables :
            /\ AtTable(p, t) /\ pc' = [pc EXCEPT ![p] = "rows"] /\ table' = [table EXCEPT ![p] = t]
            /\ UNCHANGED <<plan, init, sold, line>> /\ \A q \in Procs \ {p} : row'[q] = row[q]
        BY <1>1, <1>3 DEF StartTable
  <2>2. t \notin init[p]
        BY <2>1 DEF AtTable, StreamsInv, StreamsOf
  <2>3. table'[p] = t /\ "rows" \in At /\ \A q \in Procs \ {p} : table'[q] = table[q]
        BY <1>1, <2>1 DEF At
  <2> QED
      BY <2>1, <2>2, <2>3, QuietDays
<1>4. ASSUME NEW p \in Procs, StartValidation(p) PROVE DaysInv'
  <2>1. PICK t \in Tables :
            /\ pc' = [pc EXCEPT ![p] = "validate"] /\ table' = [table EXCEPT ![p] = t]
            /\ UNCHANGED <<plan, row, values>>
        BY <1>4 DEF StartValidation
  <2>2. "validate" \in At /\ "validate" # "rows" /\ \A q \in Procs \ {p} : table'[q] = table[q] /\ row'[q] = row[q]
        BY <1>1, <2>1 DEF At
  <2> QED
      BY <2>1, <2>2, QuietDays DEF values
<1>5. ASSUME NEW p \in Procs, BuildRow(p) PROVE DaysInv'
  <2> DEFINE k == row[p]
             cursor == IF table[p] \in init[p] THEN sold[p] ELSE skipDays(firstChunkRow(p))
  <2>1. /\ pc[p] = "rows" /\ pc[p] \in AtWork /\ UNCHANGED <<plan, pc, table>> /\ row' = [row EXCEPT ![p] = @ + 1]
        /\ Write(p, k, rng[p], drawsOf(p, k), daySold(p, k), oldValues(p, table[p], k))
        BY <1>5 DEF BuildRow, AtWork
  <2>2. k \in Nat \ {0}
        BY <2>1, FirstOfChunk
  <2>3. table[p] = "CATALOG_SALES" => daySold(p, k) = soldDay(cursor, k)
        BY DEF daySold
  <2>4. row'[p] = k + 1 /\ \A q \in Procs \ {p} : row'[q] = row[q]
        BY <1>1, <2>1
  <2>8. pc[p] \in AtWork /\ UNCHANGED <<plan, pc, table>> /\ \A q \in Procs \ {p} : row'[q] = row[q]
        BY <2>1, <2>4
  <2>5. \/ cursor = skipDays(firstChunkRow(p))
        \/ cursor = sold[p] /\ pc[p] = "rows" /\ table[p] \in init[p]
        BY <2>1
  <2>6. pc[p] = "rows" => k = row[p] /\ row'[p] = row[p] + 1
        BY <2>4
  <2> DEFINE draws == drawsOf(p, k)
             day   == daySold(p, k)
             olds  == oldValues(p, table[p], k)
  <2>7. Write(p, k, rng[p], draws, day, olds) /\ (table[p] = "CATALOG_SALES" => day = soldDay(cursor, k))
        BY <2>1, <2>3
  <2> HIDE DEF cursor, k, draws, day, olds
  <2> DEFINE streams == rng[p]
  <2> HIDE DEF streams
  <2>9. Write(p, k, streams, draws, day, olds)
        BY <2>7 DEF streams
  <2> QED
      BY <2>2, <2>5, <2>6, <2>7, <2>8, <2>9, WrittenDay
<1>6. ASSUME NEW p \in Procs, ValidateRow(p) PROVE DaysInv'
  <2>1. PICK k \in 1 .. get_rowcount(table[p]) :
            Write(p, k, skipped(p, k), drawsOf(p, k), validatedDay(p, k), oldValues(p, table[p], rebuilt(table[p], k)))
        BY <1>6 DEF ValidateRow
  <2>2. pc[p] = "validate" /\ pc[p] \in AtWork /\ UNCHANGED <<plan, pc, table, row>>
        BY <1>6 DEF ValidateRow, AtWork
  <2>3. table[p] = "CATALOG_SALES" => validatedDay(p, k) = soldDay(skipDays(firstChunkRow(p)), k)
        BY DEF validatedDay
  <2>4. k \in Nat \ {0}
        OBVIOUS
  <2> QED
      BY <2>1, <2>2, <2>3, <2>4, WrittenDay
<1>7. CASE UNCHANGED vars
  <2>1. UNCHANGED <<plan, pc, table, row, init, sold, line>>
        BY <1>7 DEF vars, walk, values
  <2> QED
      BY <2>1 DEF DaysInv, LineDay, CursorDay, firstChunkRow, inv
<1> QED
    BY <1>2, <1>3, <1>4, <1>5, <1>6, <1>7 DEF Next, main, AllEnded

\* Whatever the plan, the scale and the orders of a day, a process is late by the orders of one
\* day when its chunk begins with the last order of the day before, and is not late otherwise.
THEOREM LateAtBoundary == Spec => []LateOnlyAtDayBoundary
<1>1. Init => FilesInv /\ WalkInv /\ StreamsInv /\ DaysInv
      BY FilesInit, WalkInit, StreamsInit, DaysInit
<1>2. FilesInv /\ WalkInv /\ StreamsInv /\ DaysInv /\ [Next]_vars => (FilesInv /\ WalkInv /\ StreamsInv /\ DaysInv)'
      BY FilesNext, WalkNext, StreamsNext, DaysNext
<1>3. DaysInv => LateOnlyAtDayBoundary
      BY DEF DaysInv, LineDay, DueDay, LateOnlyAtDayBoundary
<1> QED
    BY <1>1, <1>2, <1>3, PTL DEF Spec

================================================================================
