------------------------------- MODULE Calendar -------------------------------
(***************************************************************************)
(* Dates (date.c), the calendar distribution they are looked up in         *)
(* (calendar.dst), and the rows of the date and the time dimension.  A day *)
(* is a Julian day number; years are those of the data, from 1800 on.      *)
(***************************************************************************)
EXTENDS Integers, Sequences, FiniteSets

m_days == <<<<0, 31, 59, 90, 120, 151, 181, 212, 243, 273, 304, 334>>,
            <<0, 31, 60, 91, 121, 152, 182, 213, 244, 274, 305, 335>>>>

\* 1 for a leap year, 0 for another. A year of a century is one when year % 400 is even:
\* always.
is_leap(year) ==
    IF year % 100 = 0 THEN (IF (year % 400) % 2 = 0 THEN 1 ELSE 0)
    ELSE IF year % 4 = 0 THEN 1 ELSE 0

daysBefore_Common(year, month) == m_days[1][month]

daysBefore(year, month) == m_days[is_leap(year) + 1][month]

dttoj(d) ==
    LET m == IF d.month <= 2 THEN d.month + 12 ELSE d.month
        y == IF d.month <= 2 THEN d.year - 1 ELSE d.year
    IN  d.day + (153 * m - 457) \div 5 + 365 * y + y \div 4 - y \div 100 + y \div 400 + 1721119

strtodt(y, m, d) == dttoj([year |-> y, month |-> m, day |-> d])

\* After Fliegel and Van Flandern.
jtodt(j) ==
    LET l0 == j + 68569
        n  == (4 * l0) \div 146097
        l1 == l0 - (146097 * n + 3) \div 4
        i  == (4000 * (l1 + 1)) \div 1461001
        l2 == l1 - (1461 * i) \div 4 + 31
        m  == (80 * l2) \div 2447
    IN  [year  |-> 100 * (n - 49) + i + m \div 11,
         month |-> m + 2 - 12 * (m \div 11),
         day   |-> l2 - (2447 * m) \div 80]

\* Seconds since midnight; -1 where the code stops with an error.
strtotime(hour, min, sec) ==
    IF hour \in 0..23 /\ min \in 0..59 /\ sec \in 0..59 THEN hour * 3600 + min * 60 + sec ELSE -1

date_t_op_FIRST_DOM(j) == j - jtodt(j).day + 1

\* The day of the month is replaced by the days before the month, not by its length.
date_t_op_LAST_DOM(j) == LET d == jtodt(j) IN j - d.day + daysBefore(d.year, d.month)

date_t_op_SAME_LY(j) ==
    LET d == jtodt(j)
    IN  IF is_leap(d.year) = 1 /\ d.month = 2 /\ d.day = 29
        THEN strtodt(d.year - 1, 2, 28) ELSE strtodt(d.year - 1, d.month, d.day)

qtr_start(year, quarter) == strtodt(year, 3 * quarter - 2, 1)

\* As far into the quarter before as the day is into its own.
date_t_op_SAME_LQ(j) ==
    LET d == jtodt(j)
        q == (d.month + 2) \div 3
    IN  j - qtr_start(d.year, q)
          + (IF q = 1 THEN qtr_start(d.year - 1, 4) ELSE qtr_start(d.year, q - 1))

(***************************************************************************)
(* The day of the week, 0 for Sunday, by the doomsday rule.                *)
(***************************************************************************)
doomsday == <<3, 2, 0, 5>>

known(year) ==
    <<IF is_leap(year) = 1 THEN 4 ELSE 3, IF is_leap(year) = 1 THEN 1 ELSE 0,
      0, 4, 9, 6, 11, 8, 5, 10, 7, 12>>

set_dow(j) ==
    LET d    == jtodt(j)
        q    == d.year % 100
        dday == (doomsday[((d.year \div 100 - 15) % 4) + 1]
                 + q \div 12 + (q % 12) + (q % 12) \div 4) % 7
    IN  (((d.day - known(d.year)[d.month]) % 7) + dday) % 7

(***************************************************************************)
(* The calendar distribution: an entry for every day of a leap year, and   *)
(* weights.  The sets with _leap are those of the leap years.              *)
(***************************************************************************)
calendar ==
    [i \in 1..366 |->
        LET month == CHOOSE m \in 1..12 :
                         /\ m_days[2][m] < i
                         /\ m = 12 \/ i <= m_days[2][m + 1]
        IN  [month_num |-> month, date |-> i - m_days[2][month], quarter |-> (month + 2) \div 3,
             fom |-> m_days[2][month] + 1, holiday |-> i \in {1, 186, 360, 366}]]

\* The index of a day's entry.
day_number(j) == LET d == jtodt(j) IN daysBefore(d.year, d.month) + d.day

Low    == 1..213 \ {60}
Medium == 214..305
High   == 306..366

weight(set, i) ==
    CASE set = "calendar_uniform" -> IF i = 60 THEN 0 ELSE 1
      [] set = "calendar_uniform_leap" -> 1
      [] set = "calendar_sales" -> IF i = 60 THEN 0 ELSE IF i < 214 THEN 29 ELSE IF i < 306 THEN 66 ELSE 100
      [] set = "calendar_sales_leap" -> IF i < 214 THEN 29 ELSE IF i < 306 THEN 66 ELSE 100
      [] set = "calendar_low"    -> IF i \in Low THEN 1 ELSE 0
      [] set = "calendar_medium" -> IF i \in Medium THEN 1 ELSE 0
      [] set = "calendar_high"   -> IF i \in High THEN 1 ELSE 0

dist_max(set) ==
    CASE set = "calendar_uniform" -> 365 [] set = "calendar_uniform_leap" -> 366
      [] set = "calendar_sales" -> 18320 [] set = "calendar_sales_leap" -> 18349

\* The set of weights of a year.
setOf(name, year) ==
    IF is_leap(year) = 0 THEN name
    ELSE CASE name = "calendar_sales"   -> "calendar_sales_leap"
           [] name = "calendar_uniform" -> "calendar_uniform_leap"

getDateWeightFromJulian(j, name) == weight(setOf(name, jtodt(j).year), day_number(j))

(***************************************************************************)
(* The date and the time dimension: row k, from 1.                         *)
(***************************************************************************)
base_date       == 2415021
CURRENT_YEAR    == 2003
CURRENT_MONTH   == 1
CURRENT_QUARTER == 1
CURRENT_WEEK    == 2

\* What the row of day j says of the current month, quarter and week; only rows of the
\* current year set it.
currentFlags(k) ==
    LET d == jtodt(base_date + k)
    IN  [month   |-> d.month = CURRENT_MONTH,
         quarter |-> calendar[day_number(base_date + k)].quarter = CURRENT_QUARTER,
         week    |-> (k + 6) \div 7 = CURRENT_WEEK]

NotCurrent == [month |-> FALSE, quarter |-> FALSE, week |-> FALSE]

\* Row k, when the row built before it left the flags before.
dateRow(k, before) ==
    LET j == base_date + k
        d == jtodt(j)
        i == day_number(j)
    IN  [d_date_sk |-> j, d_year |-> d.year, d_moy |-> d.month, d_dom |-> d.day,
         d_dow |-> set_dow(j), d_weekend |-> set_dow(j) \in {5, 6},
         d_week_seq |-> (k + 6) \div 7,
         d_month_seq |-> (d.year - 1900) * 12 + d.month - 1,
         d_quarter_seq |-> (d.year - 1900) * 4 + d.month \div 3 + 1,
         d_qoy |-> calendar[i].quarter, d_holiday |-> calendar[i].holiday,
         d_following_holiday |->
             calendar[IF i = 1 THEN 365 + is_leap(d.year - 1) ELSE i - 1].holiday,
         d_first_dom |-> date_t_op_FIRST_DOM(j), d_last_dom |-> date_t_op_LAST_DOM(j),
         d_same_day_ly |-> date_t_op_SAME_LY(j), d_same_day_lq |-> date_t_op_SAME_LQ(j),
         d_current |-> IF d.year = CURRENT_YEAR THEN currentFlags(k) ELSE before]

\* Rows are built in order, so the flags before a row are those of the last day of the
\* current year once that has gone by.
lastOfCurrentYear == strtodt(CURRENT_YEAR, 12, 31) - base_date

mk_w_date(k) ==
    dateRow(k, IF k <= lastOfCurrentYear THEN NotCurrent ELSE currentFlags(lastOfCurrentYear))

\* A row that is validated starts from cleared flags.
vld_w_date(k) == dateRow(k, NotCurrent)

mk_w_time(k) ==
    [t_time_sk |-> k - 1, t_time |-> k - 1, t_second |-> (k - 1) % 60,
     t_minute |-> ((k - 1) \div 60) % 60, t_hour |-> (((k - 1) \div 60) \div 60) % 24]
==============================================================================
