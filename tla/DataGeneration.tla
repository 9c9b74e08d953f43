---------------------------- MODULE DataGeneration ----------------------------
(***************************************************************************)
(* What the processes of dsdgen promise together: wherever the rows of a   *)
(* table are built, by one process or by many, in one run or in another,   *)
(* alone or with other tables, they are the same rows, and the files hold  *)
(* each of them once.                                                      *)
(***************************************************************************)
EXTENDS Dsdgen

\* The parallelism of process p: one process without PARALLEL.
parallelism(p) == IF inv(p).parallel > 0 THEN inv(p).parallel ELSE 1

(***************************************************************************)
(* The same rows.                                                          *)
(***************************************************************************)

\* The streams a table's rows may rely on: those main() skips to the first row of a
\* chunk and row_stop() brings to the next row.  The streams of a returned line of the
\* refresh set are not skipped, those of a line of a catalog order are drawn nine times
\* a row and are given seeds for one, and other tables of the refresh set draw from
\* streams of the warehouse tables.
ownStreams(t) ==
    CASE t \in Warehouse -> UNION {columnsOf[f] : f \in Family(t)}
      [] t \in {"S_PURCHASE", "S_WEB_ORDER"} -> columnsOf[t] \cup columnsOf[getSimpleTdefsByNumber(t).nParam]
      [] t = "S_INVENTORY" -> columnsOf[t]
      [] OTHER -> {}

\* Row k draws from its own streams at the places a serial build would: after the
\* seeds of k - 1 rows.  So a chunk of a table, a table built alone, and a row that is
\* validated have the values of the table built as a whole.  Validated dates are left
\* out: vld_w_date() does not skip to its row, and their nulls are not those of the row.
RowsAsSerial ==
    \A p \in Procs : \A c \in DOMAIN line[p].at \cap ownStreams(line[p].table) :
        \/ line[p].table = "DATE" /\ inv(p).validate
        \/ line[p].at[c] = (line[p].row - 1) * nUsedPerRow[c]

(***************************************************************************)
(* What RowsAsSerial asks of the builders, in the rows given.              *)
(***************************************************************************)
builders == {t \in Tables : ~IsFlagSet(t, "CHILD")}

\* No row draws more often from a stream its table relies on than the stream has seeds
\* for a row.  The streams of permutations have none: the first row of a process draws them.
SeedsSuffice(rows) ==
    /\ \A c \in Columns : nUsedPerRow[c] \in Nat
    /\ \A t \in builders, k \in rows, first \in BOOLEAN :
           \E draws \in {getTdefFunctionsByNumber(t, k, first)} :
               \A c \in DOMAIN draws \cap ownStreams(t) :
                   /\ draws[c] \in Nat
                   /\ IF nUsedPerRow[c] = 0 THEN first ELSE draws[c] <= nUsedPerRow[c]

\* The streams that rows of table t draw from or that are brought to the next row.
changedBy(t, rows) ==
    (UNION {DOMAIN getTdefFunctionsByNumber(t, k, first) : k \in rows, first \in BOOLEAN})
    \cup (UNION {columnsOf[f] : f \in UNION {Family(u) : u \in {t} \cup ownRowStop(t)}})

\* No table changes a stream that a table after it relies on.
LaterUntouched(rows) ==
    \A tables \in {warehouseOrder, refreshOrder} : \A i \in DOMAIN tables :
        tables[i] \in builders =>
            \A c \in changedBy(tables[i], rows) : \A j \in (i + 1)..Len(tables) :
                tables[j] \in builders => c \notin ownStreams(tables[j])

\* The day a serial build sells catalog order k on.
serialDay(k) == soldDay(skipDays(1), k).jDate

\* A process gives the catalog orders it builds the day a serial build gives them.
SoldDayAsSerial ==
    \A p \in Procs : line[p].table = "CATALOG_SALES" /\ ~inv(p).validate =>
        line[p].day = serialDay(line[p].row)

\* How many orders a process that starts with this row is late: as many as the day has
\* that skipDays() starts with, when the days before have just as many orders as are skipped.
lateBy(first) ==
    LET days == {d \in 1..first : first > 1 /\ dayStart[d] = first}
    IN  IF days = {} THEN 0 ELSE dateScaling(CHOOSE d \in days : TRUE)

\* The orders of a chunk are late when its first row is the first number after the
\* orders of some days, and only then: skipDays() starts the chunk with the next day,
\* where a serial build has one more order of the day before.  Every order of the chunk
\* then has the day that is due as many orders later as that next day has.  mk_master()
\* does not go back: a row before the chunk, which only a validation comes to, has the
\* day of the first row of the chunk.
LateOnlyAtDayBoundary ==
    \A p \in Procs : line[p].table = "CATALOG_SALES" =>
        LET first == firstChunkRow(p)
            from  == IF line[p].row < first THEN first ELSE line[p].row
        IN  line[p].day = serialDay(from + lateBy(first))

\* No table whose rows are revisions is split between children; the largest of them has less
\* than half of the 1,000,000 rows at the largest scale.
RevisedNotSplit == \A t \in Warehouse : Revised(t) => get_rowcount(t) < Threshold

\* A later revision of a business key takes over what did not change from the first
\* revision of the same key, built by the same process just before: also when the row
\* is only validated.
OwnRevision ==
    \A p \in Procs : Revised(line[p].table) => line[p].base = firstRevision(line[p].row)

(***************************************************************************)
(* Each of them once.                                                      *)
(***************************************************************************)
rowsIn(f) == IF f \in DOMAIN disk THEN disk[f] ELSE << >>

Mate(p, q, c) ==
    /\ q \in DOMAIN plan /\ pc[q] = "done" /\ inv(q).child = c
    /\ [inv(q) EXCEPT !.child = 0, !.after = {}] = [inv(p) EXCEPT !.child = 0, !.after = {}]

\* No process started after p is about to replace its files.
Settled(p) == \A q \in DOMAIN plan : p \in inv(q).after => pc[q] \in {"idle", "refused", "done"}

Increasing(s) == \A i, j \in DOMAIN s : i < j => s[i] < s[j]

\* Once all children of a build are done, their files of a table, one after the other,
\* hold the rows of the table from the first to the last: no row is lost between the
\* chunks, none is built twice, and a later run that is refused has changed nothing.
NothingLostOrTwice ==
    \A p \in DOMAIN plan :
        LET children == 1..parallelism(p)
            mates(c) == {q \in DOMAIN plan : Mate(p, q, c)}
            rows(x, c) == rowsIn(print_start(x, [inv(p) EXCEPT !.child = c]))
        IN  (/\ ~inv(p).validate
             /\ \A c \in children : mates(c) # {} /\ \A q \in mates(c) : Settled(q))
            => \A t \in tablesOf(p) : \A x \in Family(t) :
                   /\ UNION {ToSet(rows(x, c)) : c \in children} = {k \in 1..get_rowcount(t) : x \in Written(t, k)}
                   /\ \A c \in children : Increasing(rows(x, c))
                   /\ \A c, d \in children : c < d =>
                          \A k \in ToSet(rows(x, c)), l \in ToSet(rows(x, d)) : k < l

\* What is in a file stays there, and rows only come after it, unless a process that
\* was told to FORCE is running.
NoOverwrite ==
    [][\/ \E p \in DOMAIN plan : inv(p).force /\ pc[p] \notin Ended
       \/ \A f \in DOMAIN disk : f \in DOMAIN disk' /\ IsPrefix(disk[f], disk'[f])]_vars

(***************************************************************************)
(* Lines and the schema they are loaded into (tpcds.sql, tpcds_source.sql). *)
(***************************************************************************)
relation(n, notNull) == [fields |-> n, notNull |-> notNull]

schema ==
    [CALL_CENTER |-> relation(31, {0, 1}), CATALOG_PAGE |-> relation(9, {0, 1}),
     CATALOG_RETURNS |-> relation(27, {2, 16}), CATALOG_SALES |-> relation(34, {15, 17}),
     CUSTOMER |-> relation(18, {0, 1}), CUSTOMER_ADDRESS |-> relation(13, {0, 1}),
     CUSTOMER_DEMOGRAPHICS |-> relation(9, {0}), DATE |-> relation(28, {0, 1, 2}),
     HOUSEHOLD_DEMOGRAPHICS |-> relation(5, {0}), INCOME_BAND |-> relation(3, {0}),
     INVENTORY |-> relation(4, {0, 1, 2}), ITEM |-> relation(22, {0, 1}),
     PROMOTION |-> relation(19, {0, 1}), REASON |-> relation(3, {0, 1}),
     SHIP_MODE |-> relation(6, {0, 1}), STORE |-> relation(29, {0, 1}),
     STORE_RETURNS |-> relation(20, {2, 9}), STORE_SALES |-> relation(23, {2, 9}),
     TIME |-> relation(10, {0, 1, 2}), WAREHOUSE |-> relation(14, {0, 1}),
     WEB_PAGE |-> relation(14, {0, 1}), WEB_RETURNS |-> relation(24, {2, 13}),
     WEB_SALES |-> relation(34, {3, 17}), WEB_SITE |-> relation(26, {0, 1}),
     DBGEN_VERSION |-> relation(4, {}), S_CATALOG_ORDER |-> relation(8, {0}),
     S_CATALOG_ORDER_LINEITEM |-> relation(12, {0, 1}),
     S_CATALOG_RETURNS |-> relation(20, {1, 2, 3}), S_INVENTORY |-> relation(4, {0, 1, 2}),
     S_PURCHASE |-> relation(8, {0}), S_PURCHASE_LINEITEM |-> relation(8, {0, 1}),
     S_STORE_RETURNS |-> relation(17, {1, 2, 3}), S_WEB_ORDER |-> relation(8, {0}),
     S_WEB_ORDER_LINEITEM |-> relation(11, {0, 1})]

\* Every line that is written has a field for every column of its relation, and no bit
\* map of nulls leaves a field empty that the relation declares NOT NULL.  The loaders
\* name a field by its column and the bit map by positions in columns of a table, and
\* neither is derived from the schema.
LinesFitSchema ==
    \A p \in Procs : line[p] # NoLine =>
        \A t \in Written(line[p].table, line[p].row) \cap DOMAIN schema :
            /\ Len(fields(t)) = schema[t].fields
            /\ \A i \in schema[t].notNull : ~nullCheck(t, fields(t)[i + 1])

(***************************************************************************)
(* Every process comes to an end, and the files behave as DataSet says.    *)
(***************************************************************************)

\* No process hangs: each ends, by itself or killed.
AlwaysEnds == <>(\A p \in Procs : pc[p] \in Ended)

\* The command lines write to a file of the same name.
sharesFiles(f, g) == \E t \in Tables : print_start(t, f) = print_start(t, g)

\* A process that is forced does not run together with another one that writes to its
\* files: fopen() would empty what that one goes on writing.
ForcedApart ==
    \A commands \in Plans : \A p, q \in DOMAIN commands :
        p # q /\ commands[p].force /\ sharesFiles(commands[p], commands[q]) =>
            p \in commands[q].after \/ q \in commands[p].after

holdsSample(f) == f.validate

Files == INSTANCE DataSet
             WITH Process <- Procs,
                  Sampled <- holdsSample,
                  force   <- {p \in DOMAIN plan : inv(p).force}

\* The processes write files the way DataSet lets them: one writer, rows in order,
\* the lines of one row at a time, nothing replaced without FORCE, nothing removed.
ImplementsDataSet == Files!Spec
==============================================================================
