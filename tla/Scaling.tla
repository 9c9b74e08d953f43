------------------------------- MODULE Scaling -------------------------------
(***************************************************************************)
(* How many rows a table has (scaling.c), how many of them a child process *)
(* builds (parallel.c) and how many orders a day has (scaling.c).          *)
(***************************************************************************)
EXTENDS Tdefs, Integers

CONSTANTS Rowcount,   \* rows of every table at the scale of the run
          Threshold,  \* rows a table needs before its work is split; 1,000,000 in the code
          DaySize     \* orders of a day, by table and weight of the day

ASSUME ScalingAssumption ==
    /\ Rowcount \in [Tables -> Nat \ {0}]
    /\ Threshold \in Nat
    /\ DaySize \in Seq(Nat \ {0}) /\ DaySize # << >>

arScaleVolume == <<1, 10, 100, 300, 1000, 3000, 10000, 30000, 100000>>

\* Slots count from 0 in the code, from 1 here.
getScaleSlot(GB) == SelectInSeq(arScaleVolume, LAMBDA volume : volume >= GB)

\* Between two volumes, a share of the difference of their row counts; the base
\* is the row count of the smallest volume, whatever the slot.
LogScale(weights, GB) ==
    LET i == getScaleSlot(GB)
        nDelta == weights[i] - weights[i - 1]
    IN  weights[1] + ((GB - arScaleVolume[i - 1]) * nDelta)
                     \div (arScaleVolume[i] - arScaleVolume[i - 1])

StaticScale(weights) == weights[1]

\* As many of every volume, from the largest, as fit into the rest.
LinearScale(weights, GB) ==
    LET take(rest, i) == [GB   |-> rest.GB % arScaleVolume[i],
                          rows |-> rest.rows + weights[i] * (rest.GB \div arScaleVolume[i])]
    IN  FoldLeft(take, [GB |-> GB, rows |-> 0], <<9, 8, 7, 6, 5, 4, 3, 2, 1>>).rows

\* The row count of an official volume is in the table, others are interpolated.
kBaseRowcount(weights, method, GB) ==
    CASE \E i \in 1..9 : arScaleVolume[i] = GB -> weights[getScaleSlot(GB)]
      [] method = "linear" -> LinearScale(weights, GB)
      [] method = "static" -> StaticScale(weights)
      [] OTHER             -> LogScale(weights, GB)

get_rowcount(t) == Rowcount[t]

\* Six rows of a table with history have three business keys.
IDsOf(rows) ==
    (rows \div 6) * 3
    + CASE rows % 6 = 0 -> 0
        [] rows % 6 = 1 -> 1
        [] rows % 6 \in {2, 3} -> 2
        [] OTHER -> 3

getIDCount(t) ==
    IF IsFlagSet(t, "TYPE_2") THEN IDsOf(get_rowcount(t)) ELSE get_rowcount(t)

(***************************************************************************)
(* The chunk of child nChild of nTotal: its first row and its length.      *)
(***************************************************************************)
Chunk_NotMoved(total, nTotal, nChild) ==
    LET size == total \div nTotal
    IN  [first |-> 1 + (nChild - 1) * size,
         count |-> size + (IF nChild <= total % nTotal THEN 1 ELSE 0)]

Chunk(total, nTotal, nChild) ==
    LET size  == total \div nTotal
        extra == total % nTotal
        least(a, b) == IF a < b THEN a ELSE b
    IN  [first |-> 1 + (nChild - 1) * size + least(nChild - 1, extra),
         count |-> size + (IF nChild <= extra THEN 1 ELSE 0)]

\* Small tables are all the work of the first child.
split_work(total, nTotal, nChild) ==
    CASE total < Threshold /\ nChild > 1 -> [first |-> 1, count |-> 0]
      [] total < Threshold /\ nChild = 1 -> [first |-> 1, count |-> total]
      [] OTHER                           -> Chunk(total, nTotal, nChild)

(***************************************************************************)
(* The day of an order.  Days are counted from the first date of the data. *)
(***************************************************************************)
dateScaling(day) == DaySize[(day % Len(DaySize)) + 1]

\* The row after which day d begins.
dayStart[d \in Nat] == IF d = 0 THEN 1 ELSE dayStart[d - 1] + dateScaling(d - 1)

skipDays_NextDay(kFirstRow) ==
    LET d == CHOOSE d \in 0..kFirstRow :
                 dayStart[d] >= kFirstRow /\ \A e \in 0..(d - 1) : dayStart[e] < kFirstRow
    IN  [jDate |-> d, remainder |-> IF d = 0 THEN dayStart[1] ELSE dayStart[d]]

\* Where a process that starts with row kFirstRow enters the days: it goes forward a
\* day at a time until the days before have kFirstRow orders, and one day back when
\* they have more.  remainder is the last row of the day.
skipDays(kFirstRow) ==
    LET d == CHOOSE d \in 0..kFirstRow :
                 dayStart[d] >= kFirstRow /\ \A e \in 0..(d - 1) : dayStart[e] < kFirstRow
    IN  [jDate     |-> IF dayStart[d] > kFirstRow THEN d - 1 ELSE d,
         remainder |-> IF d = 0 THEN dayStart[1] ELSE dayStart[d]]
==============================================================================
