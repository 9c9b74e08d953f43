------------------------------ MODULE UpdateSet ------------------------------
(***************************************************************************)
(* The days of a refresh set (scaling.c): six days its orders are made on, *)
(* a pair of each zone of the calendar, and six Thursdays its inventory is *)
(* counted on.  What is drawn is the parameter: picks[z] is the entry and  *)
(* the year picked for zone z.  beyond is what a weight read after the     *)
(* last entry of the calendar comes to.                                    *)
(***************************************************************************)
EXTENDS Calendar

zones == <<"calendar_low", "calendar_medium", "calendar_high">>

\* February 29, which has no weight, is never picked.
picksOf(z, years) ==
    {[entry |-> i, year |-> y] : i \in {e \in 1..366 : weight(zones[z], e) > 0}, y \in years}

getSkewedJulianDate(pick) ==
    strtodt(pick.year, calendar[pick.entry].month_num, calendar[pick.entry].date)

weightAt(z, i, beyond) == IF i \in 1..366 THEN weight(zones[z], i) ELSE beyond

pairOf_NextDay(z, j, beyond) == <<j, j + 1>>

\* The day after, or the day before when the entry after the day's is not in the zone.
pairOf(z, j, beyond) ==
    <<j, IF weightAt(z, day_number(j) + 1, beyond) > 0 THEN j + 1 ELSE j - 1>>

\* The Thursday of the week, or one a week before or after it that is in the zone; and a
\* Thursday next to it. The low zone looks up the second by the entry after its own.
thursdaysOf(z, j, beyond) ==
    LET inZone(day, shift) == weightAt(z, day_number(day) + shift, beyond) > 0
        this  == j + (4 - set_dow(j))
        first == CASE inZone(this, 0)     -> this
                   [] ~inZone(this, 0) /\ inZone(this - 7, 0) -> this - 7
                   [] OTHER               -> this + 7
    IN  <<first, IF inZone(first + 7, IF z = 1 THEN 1 ELSE 0) THEN first + 7 ELSE first - 7>>

setUpdateDates(picks, beyond) ==
    LET day(z) == getSkewedJulianDate(picks[z])
    IN  [arUpdateDates |-> pairOf(1, day(1), beyond) \o pairOf(2, day(2), beyond)
                              \o pairOf(3, day(3), beyond),
         arInventoryUpdateDates |-> thursdaysOf(1, day(1), beyond)
                              \o thursdaysOf(2, day(2), beyond) \o thursdaysOf(3, day(3), beyond)]

\* The lines of a file of days to delete: the first and the second of each pair.
print_delete(days) == {[from |-> days[i], to |-> days[i + 1]] : i \in {1, 3, 5}}

(***************************************************************************)
(* How many rows of a table a day has; rows is its row count.              *)
(***************************************************************************)
baseOf(t) ==
    CASE t = "S_PURCHASE" -> "STORE_SALES" [] t = "S_CATALOG_ORDER" -> "CATALOG_SALES"
      [] t = "S_WEB_ORDER" -> "WEB_SALES" [] t = "S_INVENTORY" -> "INVENTORY"

dateScaling(base, rows, j) ==
    IF base = "INVENTORY" THEN rows
    ELSE LET total == dist_max(setOf("calendar_sales", jtodt(j).year)) * 5
         IN  (rows * getDateWeightFromJulian(j, "calendar_sales") + total \div 2) \div total

\* kDayRowcount: the rows up to and with day i.
kDayRowcount(t, rows, days) ==
    LET upTo[i \in 0..6] == IF i = 0 THEN 0 ELSE upTo[i - 1] + dateScaling(baseOf(t), rows, days[i])
    IN  [i \in 1..6 |-> upTo[i]]

setUpdateScaling(t, rows, days) ==
    [kDayRowcount |-> kDayRowcount(t, rows, days), kBaseRowcount |-> kDayRowcount(t, rows, days)[6]]

\* The day of order k: the first the rows up to which are k or more, and the last for
\* the orders after them.
getUpdateDate(t, scaled, dates, k) ==
    LET index == CHOOSE i \in 1..6 : /\ i = 6 \/ k <= scaled.kDayRowcount[i]
                                     /\ \A e \in 1..(i - 1) : k > scaled.kDayRowcount[e]
    IN  IF t = "S_INVENTORY" THEN dates.arInventoryUpdateDates[index] ELSE dates.arUpdateDates[index]
==============================================================================
