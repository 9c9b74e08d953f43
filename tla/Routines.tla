------------------------------- MODULE Routines -------------------------------
(***************************************************************************)
(* The routines of the toolkit against what they are for.  A sample is the *)
(* input of one kind of routine; a property says what comes of it, by a    *)
(* definition of its own, and names the inputs for which it does not.      *)
(***************************************************************************)
EXTENDS Integers, SequencesExt, FiniteSetsExt, TLC

CONSTANT OptionFiles   \* name -> the lines of a parameter file

VARIABLE sample  \* a record with the kind of the routine

NoSample == [kind |-> "none"]

DataStart == 2450815   \* January 1, 1998
DataEnd   == 2453005   \* December 31, 2003

U  == INSTANCE UpdateSet
O  == INSTANCE Options
P  == INSTANCE Pricing
K  == INSTANCE Keys WITH DATA_START_DATE <- DataStart, DATA_END_DATE <- DataEnd

dateText(j) == U!jtodt(j)
L == INSTANCE Lines
         WITH dttostr <- LAMBDA j : LET d == dateText(j)
                                    IN  <<ToString(d.year), "/", ToString(d.month), "/", ToString(d.day)>>

(***************************************************************************)
(* The calendar.                                                           *)
(***************************************************************************)
leap(y)      == IF y % 4 = 0 /\ (y % 100 # 0 \/ y % 400 = 0) THEN 1 ELSE 0
length(y, m) == CASE m = 2 -> 28 + leap(y) [] m \in {4, 6, 9, 11} -> 30 [] OTHER -> 31

\* Days counted one by one from January 1, 1900, the day 2415021.
yearStart[y \in 1900..2101] == IF y = 1900 THEN 2415021 ELSE yearStart[y - 1] + 365 + leap(y - 1)
julian(y, m, d) == yearStart[y] + MapThenSumSet(LAMBDA i : length(y, i), 1..(m - 1)) + d - 1

\* Dates are right; weekdays are, but for January and February of 1900 and 2100, which
\* are taken for leap years.  A day is looked up in the calendar under its own month and
\* day of the month in a leap year; in other years, from March on, under those of the day
\* before.  The rows of the date dimension say so, and one that is validated says the same
\* as the one that was built, but for what is current.
DaysInOrder(s) ==
    LET j     == julian(s.y, s.m, s.d)
        row   == U!mk_w_date(j - U!base_date)
        entry == U!calendar[U!day_number(j)]
        prior == U!jtodt(julian(2000, s.m, s.d) - 1)
    IN  /\ U!jtodt(j) = [year |-> s.y, month |-> s.m, day |-> s.d]
        /\ U!strtodt(s.y, s.m, s.d) = j
        /\ (leap(s.y) = U!is_leap(s.y) \/ s.m > 2) => U!set_dow(j) = (j + 1) % 7
        /\ [month |-> entry.month_num, day |-> entry.date] =
               IF U!is_leap(s.y) = 1 \/ s.m <= 2 THEN [month |-> s.m, day |-> s.d]
               ELSE [month |-> prior.month, day |-> prior.day]
        /\ row.d_date_sk = j /\ <<row.d_year, row.d_moy, row.d_dom>> = <<s.y, s.m, s.d>>
        /\ row.d_first_dom = julian(s.y, s.m, 1)
        /\ s.y > 1900 => row.d_same_day_ly =
               julian(s.y - 1, s.m, IF s.d > length(s.y - 1, s.m) THEN 28 ELSE s.d)
        /\ [U!vld_w_date(j - U!base_date) EXCEPT !.d_current = row.d_current] = row

\* The weights of the days of a year add up to the weight of all entries: every order has
\* a day.  In a year that is no leap year the last entry is the weight no day has.
WeightsOfYear(s) ==
    LET set == U!setOf("calendar_sales", s.y)
        ofMonth(m) == MapThenSumSet(LAMBDA d : U!getDateWeightFromJulian(julian(s.y, m, d), "calendar_sales"),
                                    1..length(s.y, m))
    IN  MapThenSumSet(ofMonth, 1..12)
            = U!dist_max(set) - (IF leap(s.y) = 1 THEN 0 ELSE U!weight(set, 366))

\* date.c, calendar.dst and the rows of the date dimension (w_datetbl.c).
CalendarSound ==
    /\ sample.kind = "day"  => DaysInOrder(sample)
    /\ sample.kind = "year" => WeightsOfYear(sample)

(***************************************************************************)
(* The days of a refresh set.                                              *)
(***************************************************************************)
\* The zones are January to July, August to October, and November and December.
zoneOf(j) == LET m == U!jtodt(j).month IN IF m <= 7 THEN 1 ELSE IF m <= 10 THEN 2 ELSE 3

\* The entries whose next day is looked up one entry too early, or beyond the last.
Leaves(pick, beyond) ==
    \/ U!is_leap(pick.year) = 0 /\ pick.entry \in {213, 305, 366}
    \/ U!is_leap(pick.year) = 1 /\ pick.entry = 366 /\ beyond > 0

ordersOf(t, dates, scaled) ==
    [k \in 1..scaled.kBaseRowcount |-> U!getUpdateDate(t, scaled, dates, k)]

\* The days of each zone are next to each other and the Thursdays a week apart.
ZonesKept(s, u, v) ==
    \A z \in 1..3 :
        /\ zoneOf(u[2 * z - 1]) = z /\ u[2 * z] \in {u[2 * z - 1] + 1, u[2 * z - 1] - 1}
        /\ zoneOf(u[2 * z]) = z \/ Leaves(s.picks[z], s.beyond)
        /\ v[2 * z] \in {v[2 * z - 1] + 7, v[2 * z - 1] - 7}
        /\ \A i \in {2 * z - 1, 2 * z} : (v[i] + 1) % 7 = 4

\* Each day gets the orders its weight calls for, and is deleted again.
OrdersKept(s, days, orders) ==
    /\ \A day \in ToSet(days) :
           Cardinality({k \in DOMAIN orders : orders[k] = day})
               = U!dateScaling(U!baseOf(s.table), s.rows, day) * Cardinality({i \in 1..6 : days[i] = day})
    /\ \A k \in DOMAIN orders : \E pair \in U!print_delete(days) :
           orders[k] \in (pair.from..pair.to) \cup (pair.to..pair.from)

DaysOfSet(s, dates) ==
    LET days == IF s.table = "S_INVENTORY" THEN dates.arInventoryUpdateDates ELSE dates.arUpdateDates
    IN  /\ ZonesKept(s, dates.arUpdateDates, dates.arInventoryUpdateDates)
        /\ OrdersKept(s, days, ordersOf(s.table, dates, U!setUpdateScaling(s.table, s.rows, days)))

\* setUpdateDates(), setUpdateScaling() and getUpdateDate(): the two days of a zone are
\* next to each other and in the zone, except after the last days of a zone; inventory is
\* counted on Thursdays a week apart; each day gets the orders its weight calls for, none
\* is lost between the days; every day with orders is one of the days to delete, though a
\* pair of them may be the wrong way round.
RefreshDays ==
    sample.kind = "refresh" => DaysOfSet(sample, U!setUpdateDates(sample.picks, sample.beyond))

(***************************************************************************)
(* Options.                                                                *)
(***************************************************************************)
word(o)  == [dash |-> TRUE, matches |-> {o}, text |-> o]
value(x) == [dash |-> FALSE, matches |-> {}, text |-> x]
NoValue  == "no value"

\* A name that is short for two options.
Ambiguous == [dash |-> TRUE, matches |-> {"PARALLEL", "PARAMS"}, text |-> "PARA"]

wordsOf(items) ==
    FlattenSeq([i \in DOMAIN items |->
        CASE items[i].o = "PARA"       -> <<Ambiguous, value(items[i].x)>>
          [] items[i].o # "PARA" /\ items[i].x = NoValue -> <<word(items[i].o)>>
          [] OTHER -> <<word(items[i].o), value(items[i].x)>>])

bandOf == [x \in {"1", "10", "100", "1000"} |->
              CASE x = "1" -> "1" [] x = "10" -> "2" [] x = "100" -> "3" [] x = "1000" -> "4"]

settingOf(x) == IF x = NoValue THEN "Y" ELSE x

\* What option o was given: last on the line, or else first in the first file that names it.
given(items, o) ==
    LET onLine == {i \in DOMAIN items : items[i].o = o}
        linesOf(i) == OptionFiles[items[i].x]
        inFile == {at \in (DOMAIN items) \X (1..3) :
                      /\ items[at[1]].o = "PARAMS" /\ at[2] \in DOMAIN linesOf(at[1])
                      /\ linesOf(at[1])[at[2]].matches = {o}}
        first  == CHOOSE at \in inFile : \A e \in inFile : at[1] < e[1] \/ (at[1] = e[1] /\ at[2] <= e[2])
    IN  CASE onLine # {} -> settingOf(items[Max(onLine)].x)
          [] onLine = {} /\ inFile # {} -> linesOf(first[1])[first[2]].value.text
          [] OTHER -> O!dsdgen_options[o].dflt

\* process_options(), set_option() and read_file() of r_params.c: an option has the value
\* it was given last on the command line, wherever the parameter files stand in it, or
\* else the first in a file; the band of the scale follows the scale; a short name that
\* stands for two options ends the program.
OptionsAsGiven ==
    sample.kind = "options" =>
        LET s     == O!process_options("dsdgen", OptionFiles, wordsOf(sample.items))
            scale == s.params["SCALE"]
        IN  IF \E i \in DOMAIN sample.items : sample.items[i].o = "PARA" THEN s.status = "usage"
            ELSE /\ s.status = O!Going
                 /\ \A o \in DOMAIN O!dsdgen_options \ {"_SCALE_INDEX", "PROG"} :
                        O!get_str(s, o) = given(sample.items, o)
                 /\ O!get_str(s, "_SCALE_INDEX") = bandOf[scale]

(***************************************************************************)
(* Amounts.                                                                *)
(***************************************************************************)
SaleAndReturn(s, sale, back) ==
    LET n(d) == d.number
        given_back == n(back.refunded_cash) + n(back.reversed_charge) + n(back.store_credit)
    IN  /\ 0 <= n(sale.coupon_amt) /\ n(sale.coupon_amt) <= n(sale.ext_sales_price)
        /\ n(sale.ext_sales_price) <= n(sale.ext_list_price)
        /\ n(sale.net_paid) >= 0 /\ n(sale.ext_discount_amt) >= 0
        /\ n(sale.net_paid_inc_ship_tax) = n(sale.net_paid) + n(sale.ext_ship_cost) + n(sale.ext_tax)
        /\ IF s.return \in P!ofReturns
           THEN /\ given_back = n(back.net_paid)
                /\ \A part \in {back.refunded_cash, back.reversed_charge, back.store_credit} : n(part) >= 0
                /\ n(back.net_paid) <= n(sale.net_paid) + n(sale.coupon_amt)
                /\ n(back.net_loss) = n(back.ext_ship_cost) + n(back.ext_tax) + n(back.fee)
           ELSE back = sale /\ given_back = 0

SaleReturned(s, sale) == SaleAndReturn(s, sale, P!set_pricing(s.return, sale, s.back))

\* set_pricing(): the amounts of a sale follow from each other, a coupon is never worth
\* more than the price.  "See to it that the returned amounts add up to the total
\* returned" says pricing.c: cash, reversed charge and credit are what was paid for the
\* quantity that comes back, and none is below zero.  That may be more than was paid with
\* a coupon.  The loss is what was spent on the return beside that.  A return of a refresh
\* set has the amounts of the sale and gives nothing back.
AmountsAddUp ==
    sample.kind = "amounts" => SaleReturned(sample, P!set_pricing(sample.of, [none |-> 0], sample.sale))

(***************************************************************************)
(* Keys and lines.                                                         *)
(***************************************************************************)
\* The row of id kID is in force on a day, by the dates the rows of the table are given.
InForce(nTable, row, day) ==
    LET dates == K!setSCDKeys(nTable, row)
    IN  dates.begin <= day /\ (dates.end = -1 \/ day <= dates.end)

\* The days on which the dates of a table have changed revision and the join has not.
Shifted(nTable, day) ==
    \E limit \in {K!jH1DataDate, K!jT1DataDate, K!jT2DataDate} : day \in (limit - 6 * nTable + 1)..limit

\* scd.c: the revisions of an id are the rows a join, getFirstSK() and getSKFromID() give
\* it, their periods follow one another, and the row joined for a day is the revision in
\* force on it, but for the days by which the dates of the table are shifted.
RevisionsMatch(s) ==
    LET last   == 2 * s.id + 6   \* the rows of three more ids and their revisions
        joined == K!matchSCDSK(s.id, s.day, last)
        first  == K!getFirstSK(s.id)
        rows   == K!getSKFromID(s.id)
        of     == {r \in 1..last : K!setSCDKeys(s.table, r).of = first}
    IN  /\ rows = of /\ joined \in of /\ K!setSCDKeys(s.table, first).bNewBKey
        /\ Cardinality({r \in of : InForce(s.table, r, s.day)}) = 1
        /\ InForce(s.table, joined, s.day) \/ Shifted(s.table, s.day)
        /\ \A r \in of : r + 1 \in of => K!setSCDKeys(s.table, r + 1).begin = K!setSCDKeys(s.table, r).end + 1

\* Fields of a line that is read back at its delimiter.
fieldsOf(line) ==
    LET bars == {i \in DOMAIN line : line[i] = "|"}
        next(i) == Min({e \in bars \cup {Len(line)} : e > i})
    IN  {<<Cardinality({e \in bars : e <= i}), SubSeq(line, i + 1, next(i) - 1)>> : i \in bars \cup {0}}

\* print.c, mk_bkey() and decimal.c: a line gives its values back at the delimiter, a
\* decimal the number it was printed from, a key of eight digits the number it was made
\* from; strtodec() reads a number that is below zero and has a whole part differently.
LineReadBack(s) ==
    LET text     == L!print_decimal(FALSE, [number |-> s.number, precision |-> 2])
        point    == SelectInSeq(text, LAMBDA c : c = ".")
        figure(c) == SelectInSeq(L!Figures, LAMBDA d : d = c) - 1
        worth(t) == FoldLeft(LAMBDA sum, c : IF c = "-" THEN sum ELSE 10 * sum + figure(c), 0, t)
        read     == P!strtodec(s.number < 0, worth(SubSeq(text, 1, point - 1)),
                               worth(SubSeq(text, point + 1, Len(text))), 2)
        letter(c) == SelectInSeq(L!szXlate, LAMBDA x : x = c) - 1
        key      == L!print_id(FALSE, s.key)
        line     == L!print_line(<<"|">>, s.terminate,
                        <<L!print_key(FALSE, s.key), text, key, L!print_integer(s.null, s.number)>>)
    IN  /\ read.number = s.number \/ s.number <= -100
        /\ Len(key) = 16 /\ FoldRight(LAMBDA c, sum : 16 * sum + letter(c), SubSeq(key, 9, 14), 0) = s.key
        /\ {<<0, L!number(s.key)>>, <<1, text>>, <<2, key>>,
            <<3, IF s.null THEN << >> ELSE L!number(s.number)>>} \subseteq fieldsOf(line)
        /\ Cardinality(fieldsOf(line)) = IF s.terminate THEN 5 ELSE 4

\* Rows whose number stands for the entries of distributions have all combinations, each
\* once.
EntriesCombined(s) ==
    LET all == {K!entriesOf(k, s.sizes) : k \in 1..(s.sizes[1] * s.sizes[2] * s.sizes[3])}
    IN  all = {<<a, b, c>> : a \in 1..s.sizes[1], b \in 1..s.sizes[2], c \in 1..s.sizes[3]}

KeysAndLines ==
    /\ sample.kind = "revision" => RevisionsMatch(sample)
    /\ sample.kind = "line"     => LineReadBack(sample)
    /\ sample.kind = "entries"  => EntriesCombined(sample)
==============================================================================
