-------------------------------- MODULE Dsdgen --------------------------------
(***************************************************************************)
(* The data generator: main() of driver.c and what it calls, for a plan of *)
(* command lines.  A process walks the tables in the order of the arrays,  *)
(* builds its chunk of each row by row and writes the rows to files.  The  *)
(* processes of a plan run one after the other or at the same time, as     *)
(* their command lines say; they share the directory of the files.         *)
(* Validation of the refresh set is left out.                              *)
(***************************************************************************)
EXTENDS RefreshRows, FlatFiles

CONSTANTS Procs,   \* the processes, numbered from 1
          Plans,   \* sequences of command lines
          VCOUNT   \* rows to validate

\* The options of a command line that matter here, whether the process may be killed, and
\* the processes it is started after.  child is 1 where PARALLEL is not set.
CommandLine ==
    [parallel : Nat, child : Nat, update : Nat, table : Tables \cup {"ALL"}, force : BOOLEAN,
     validate : BOOLEAN, killed : BOOLEAN, after : SUBSET Nat]

ASSUME PlansAssumption ==
    /\ Procs \subseteq Nat \ {0}
    /\ VCOUNT \in Nat
    /\ \A commands \in Plans :
           /\ DOMAIN commands \subseteq Procs
           /\ \A p \in DOMAIN commands :
                  /\ commands[p] \in CommandLine
                  /\ commands[p].parallel = 0 => commands[p].child = 1
                  /\ commands[p].validate => commands[p].update = 0

VARIABLES plan,    \* the command lines
          pc,      \* where a process is
          todo,    \* the tables it has not come to
          table, row, left,  \* the table it builds, the next row and how many are left
          rng,     \* its random streams
          init,    \* the tables whose builder has set up its statics
          sold,    \* jDate and kNewDateIndex of catalog_sales
          base,    \* the first revision of the business key a builder holds old values of
          line,    \* the last row it built
          disk,    \* the files: the numbers of the rows written to each
          open     \* the files it has open

walk   == <<todo, table, row, left>>
values == <<rng, init, sold, base, line>>
files  == <<disk, open>>
vars   == <<plan, pc, walk, values, files>>

NoDay   == [jDate |-> 0, remainder |-> 0]
NoLine  == [table |-> NoTable, row |-> 0, day |-> 0, base |-> 0, at |-> [c \in {} |-> 0]]
Ended   == {"done", "refused", "killed"}
Running == [p \in Procs |-> pc[p] \notin Ended \cup {"idle"}]

\* The command line of process p.
inv(p) == plan[p]

Revised(t) == t \in Warehouse /\ IsFlagSet(t, "TYPE_2")

Init ==
    /\ plan \in Plans
    /\ pc    = [p \in Procs |-> IF p \in DOMAIN plan THEN "idle" ELSE "done"]
    /\ todo  = [p \in Procs |-> {}]
    /\ table = [p \in Procs |-> NoTable]
    /\ row   = [p \in Procs |-> 0]
    /\ left  = [p \in Procs |-> 0]
    /\ rng   = [p \in Procs |-> init_rand]
    /\ init  = [p \in Procs |-> {}]
    /\ sold  = [p \in Procs |-> NoDay]
    /\ base  = [p \in Procs |-> [t \in {x \in Warehouse : Revised(x)} |-> 0]]
    /\ line  = [p \in Procs |-> NoLine]
    /\ disk  = [f \in {} |-> << >>]
    /\ open  = [p \in Procs |-> {}]

(***************************************************************************)
(* Files.                                                                  *)
(***************************************************************************)

\* The tables row k of table t is written to.  The sales of an order go to t, the
\* returned ones to its child as well; an order of the refresh set goes to all three
\* of its family; some zip codes have no row.
Written(t, k) ==
    LET child == getSimpleTdefsByNumber(t).nParam
    IN  CASE t = "S_ZIPG" -> IF k % 3 = 0 THEN {} ELSE {t}
          [] t \in {"STORE_SALES", "WEB_SALES"} -> {t} \cup (IF k % Between(8, 16, k) > 0 THEN {child} ELSE {})
          [] t = "CATALOG_SALES" -> {t} \cup (IF k % Between(4, 14, k) > 0 THEN {child} ELSE {})
          [] t = "S_CATALOG_ORDER" -> IF k % 10 > 0 THEN Family(t) ELSE {t, child}
          [] t \in {"S_PURCHASE", "S_WEB_ORDER"} -> IF k % 13 > 0 THEN Family(t) ELSE {t, child}
          [] OTHER -> {t}

filesOf(p, k) == {print_start(t, inv(p)) : t \in Written(table[p], k)}

InTheWay_Never(p, f) == FALSE

\* A file of another run is in the way, and FORCE is not set.
InTheWay(p, f) == f \notin open[p] /\ f \in DOMAIN disk /\ ~inv(p).force

\* Row k at the end of the files; those not open yet are created or emptied first.
Put(p, names, k) ==
    [f \in DOMAIN disk \cup names |->
        IF f \notin names THEN disk[f] ELSE IF f \in open[p] THEN Append(disk[f], k) ELSE <<k>>]

\* A file that is not open yet is opened for writing: it is there, and empty.
Create(p, f) ==
    [g \in DOMAIN disk \cup {f} |-> IF g = f /\ f \notin open[p] THEN << >> ELSE disk[g]]

(***************************************************************************)
(* The start of a process: validate_options(), init_rand() and, with       *)
(* UPDATE, setUpdateDates(), which writes the files of the days to delete. *)
(***************************************************************************)
usage(p) == inv(p).parallel > 0 /\ (inv(p).parallel < 2 \/ inv(p).child < 1)

validate_options(p) ==
    /\ pc[p] = "idle" /\ usage(p)
    /\ pc' = [pc EXCEPT ![p] = "refused"]
    /\ UNCHANGED <<plan, walk, values, files>>

\* The order main() walks the tables in, from CALL_CENTER or S_BRAND.
order(p) == IF inv(p).update > 0 THEN refreshOrder ELSE warehouseOrder

\* The tables main() comes to: all of them or the one that is named.  A child is built
\* by its parent.
tablesOf(p) ==
    {t \in ToSet(order(p)) : inv(p).table \in {"ALL", t} /\ (IsFlagSet(t, "CHILD") => inv(p).table = t)}

Begin(p) ==
    /\ pc[p] = "idle" /\ ~usage(p)
    /\ \A q \in inv(p).after : pc[q] \in Ended
    /\ ~ \E f \in deleteFiles(inv(p)) : InTheWay(p, f)
    /\ pc'   = [pc EXCEPT ![p] = "main"]
    /\ todo' = [todo EXCEPT ![p] = tablesOf(p)]
    /\ disk' = Put(p, deleteFiles(inv(p)), 1)
    /\ UNCHANGED <<plan, table, row, left, values, open>>

\* The first file may be written before the second is found to be in the way.
DeleteFilesInTheWay(p) ==
    /\ pc[p] = "idle" /\ ~usage(p)
    /\ \A q \in inv(p).after : pc[q] \in Ended
    /\ \E f \in deleteFiles(inv(p)) : InTheWay(p, f)
    /\ pc'   = [pc EXCEPT ![p] = "refused"]
    /\ disk' = LET first == openDeleteFile("delete", inv(p))
               IN  IF InTheWay(p, first) THEN disk ELSE Put(p, {first}, 1)
    /\ UNCHANGED <<plan, walk, values, open>>

(***************************************************************************)
(* The loop over the tables.                                               *)
(***************************************************************************)
AtTable(p, t) ==
    /\ pc[p] = "main" /\ t \in todo[p]
    /\ \E i \in DOMAIN order(p) : t = order(p)[i] /\ \A j \in 1..(i - 1) : order(p)[j] \notin todo[p]

\* A child that is named is an error.
NamedChild(p) ==
    /\ \E t \in Tables : AtTable(p, t) /\ IsFlagSet(t, "CHILD")
    /\ pc' = [pc EXCEPT ![p] = "refused"]
    /\ UNCHANGED <<plan, walk, values, files>>

StartTable(p) ==
    \E t \in Tables :
        LET share   == split_work(get_rowcount(t),
                                  IF inv(p).parallel > 0 THEN inv(p).parallel ELSE 1, inv(p).child)
            skipped == row_skip(rng[p], t, share.first - 1)
        IN  /\ AtTable(p, t) /\ ~IsFlagSet(t, "CHILD") /\ ~inv(p).validate
            /\ rng' = [rng EXCEPT ![p] =
                  CASE share.first = 1 -> @
                    [] share.first # 1 /\ IsFlagSet(t, "PARENT") ->
                          row_skip(skipped, getSimpleTdefsByNumber(t).nParam, share.first - 1)
                    [] OTHER -> skipped]
            /\ pc'    = [pc EXCEPT ![p] = "rows"]
            /\ todo'  = [todo EXCEPT ![p] = @ \ {t}]
            /\ table' = [table EXCEPT ![p] = t]
            /\ row'   = [row EXCEPT ![p] = share.first]
            /\ left'  = [left EXCEPT ![p] = share.count]
            /\ UNCHANGED <<plan, init, sold, base, line, files>>

\* With VALIDATE the file is opened before the rows are drawn.
StartValidation(p) ==
    \E t \in Tables :
        LET f == print_start(t, inv(p))
        IN  /\ AtTable(p, t) /\ ~IsFlagSet(t, "CHILD") /\ inv(p).validate
            /\ ~InTheWay(p, f)
            /\ pc'    = [pc EXCEPT ![p] = "validate"]
            /\ todo'  = [todo EXCEPT ![p] = @ \ {t}]
            /\ table' = [table EXCEPT ![p] = t]
            /\ left'  = [left EXCEPT ![p] = IF VCOUNT > get_rowcount(t) THEN get_rowcount(t) ELSE VCOUNT]
            /\ disk'  = Create(p, f)
            /\ open'  = [open EXCEPT ![p] = @ \cup {f}]
            /\ UNCHANGED <<plan, row, values>>

ValidationInTheWay(p) ==
    /\ \E t \in Tables : /\ AtTable(p, t) /\ ~IsFlagSet(t, "CHILD") /\ inv(p).validate
                         /\ InTheWay(p, print_start(t, inv(p)))
    /\ pc' = [pc EXCEPT ![p] = "refused"]
    /\ UNCHANGED <<plan, walk, values, files>>

(***************************************************************************)
(* The rows of a table.                                                    *)
(***************************************************************************)

\* mk_master() of catalog_sales moves the day forward to the day of order k.
soldDay(cursor, k) ==
    LET end(d) == cursor.remainder + dayStart[d + 1] - dayStart[cursor.jDate + 1]
        day    == CHOOSE d \in cursor.jDate..(cursor.jDate + k) :
                      end(d) >= k /\ \A e \in cursor.jDate..(d - 1) : end(e) < k
    IN  [jDate |-> day, remainder |-> end(day)]

\* Sets up the statics of the builder of catalog_sales in its first row.
firstChunkRow(p) ==
    split_work(get_rowcount("CATALOG_SALES"),
               IF inv(p).parallel > 0 THEN inv(p).parallel ELSE 1, inv(p).child).first

\* The first revision of the business key of row k.
firstRevision(k) == IF bNewBKey(k) THEN k ELSE IF bNewBKey(k - 1) THEN k - 1 ELSE k - 2

oldValues(p, t, k) ==
    IF Revised(t) /\ bNewBKey(k) THEN [base[p] EXCEPT ![t] = k] ELSE base[p]

builtLine(streams, draws, t, k, day, old) ==
    [table |-> t, row |-> k, day |-> day, base |-> old,
     at |-> [c \in DOMAIN draws |-> streams.pos[c]]]

row_stops(streams, t) ==
    row_stop(IF ownRowStop(t) = {} THEN streams
             ELSE row_stop(streams, CHOOSE own \in Tables : own \in ownRowStop(t)), t)

drawsOf(p, k) == getTdefFunctionsByNumber(table[p], k, table[p] \notin init[p])

\* The day of order k: the cursor goes on from where the process left it.
daySold(p, k) ==
    IF table[p] # "CATALOG_SALES" THEN sold[p]
    ELSE soldDay(IF table[p] \in init[p] THEN sold[p] ELSE skipDays(firstChunkRow(p)), k)

\* Row k, built from these streams and written to its files.
Write(p, k, streams, draws, day, olds) ==
    /\ ~ \E f \in filesOf(p, k) : InTheWay(p, f)
    /\ disk' = Put(p, filesOf(p, k), k)
    /\ open' = [open EXCEPT ![p] = @ \cup filesOf(p, k)]
    /\ sold' = [sold EXCEPT ![p] = day]
    /\ base' = [base EXCEPT ![p] = olds]
    /\ line' = [line EXCEPT ![p] = builtLine(streams, draws, table[p], k, day.jDate,
                                            IF Revised(table[p]) THEN olds[table[p]] ELSE 0)]
    /\ init' = [init EXCEPT ![p] = @ \cup {table[p]}]
    /\ left' = [left EXCEPT ![p] = @ - 1]

BuildRow(p) ==
    /\ pc[p] = "rows" /\ left[p] > 0
    /\ \E draws \in {drawsOf(p, row[p])} : \E drawn \in {next_random(rng[p], draws)} :
           /\ Write(p, row[p], rng[p], draws, daySold(p, row[p]), oldValues(p, table[p], row[p]))
           /\ rng' = [rng EXCEPT ![p] = row_stops(drawn, table[p])]
    /\ row' = [row EXCEPT ![p] = @ + 1]
    /\ UNCHANGED <<plan, pc, todo, table>>

\* A row is written line by line.  When the process ends within a row, some of its
\* files may have some of its lines, but none that is in the way.
partOfRow(p) ==
    IF left[p] = 0 \/ pc[p] # "rows" THEN {{}}
    ELSE SUBSET {f \in filesOf(p, row[p]) : ~InTheWay(p, f)}

FileInTheWay(p) ==
    /\ pc[p] = "rows" /\ left[p] > 0
    /\ \E f \in filesOf(p, row[p]) : InTheWay(p, f)
    /\ pc' = [pc EXCEPT ![p] = "refused"]
    /\ \E part \in partOfRow(p) : disk' = Put(p, part, row[p])
    /\ open' = [open EXCEPT ![p] = {}]
    /\ UNCHANGED <<plan, walk, values>>

\* What the validation of row k skips: a parent with its child, dates not at all.
vld_w_catalog_sales(streams, k) ==
    row_skip(row_skip(streams, "CATALOG_SALES", k - 1), "CATALOG_RETURNS", k - 1)
vld_w_store_sales(streams, k) ==
    row_skip(row_skip(streams, "STORE_SALES", k - 1), "STORE_RETURNS", k - 1)
vld_web_sales(streams, k) ==
    row_skip(row_skip(streams, "WEB_SALES", k - 1), "WEB_RETURNS", k - 1)
validateGeneric(streams, t, k) == row_skip(streams, t, k - 1)

vldSkip(streams, t, k) ==
    CASE t = "DATE"          -> streams
      [] t = "CATALOG_SALES" -> vld_w_catalog_sales(streams, k)
      [] t = "STORE_SALES"   -> vld_w_store_sales(streams, k)
      [] t = "WEB_SALES"     -> vld_web_sales(streams, k)
      [] OTHER               -> validateGeneric(streams, t, k)

rebuilt_RowOnly(t, k) == k

\* The file of returned lines is never in the way here: one is only there when the
\* file of the lines is. validateSCD() builds the revisions of the business key up to row k.
rebuilt(t, k) == IF Revised(t) THEN firstRevision(k) ELSE k

\* The streams at the line of row k, the revisions before it built on the way.
vldRow(p, streams, k) == next_random(vldSkip(streams, table[p], k), drawsOf(p, k))

skipped(p, k) ==
    LET before == CASE rebuilt(table[p], k) = k     -> rng[p]
                    [] rebuilt(table[p], k) = k - 1 -> vldRow(p, rng[p], k - 1)
                    [] OTHER                        -> vldRow(p, vldRow(p, rng[p], k - 2), k - 1)
    IN  vldSkip(before, table[p], k)

validatedDay(p, k) ==
    IF table[p] = "CATALOG_SALES" THEN soldDay(skipDays(firstChunkRow(p)), k) ELSE sold[p]

ValidateRow(p) ==
    /\ pc[p] = "validate" /\ left[p] > 0
    /\ \E k \in 1..get_rowcount(table[p]) :
           \E streams \in {skipped(p, k)}, draws \in {drawsOf(p, k)} :
               /\ Write(p, k, streams, draws, validatedDay(p, k),
                        oldValues(p, table[p], rebuilt(table[p], k)))
               /\ rng' = [rng EXCEPT ![p] = next_random(streams, draws)]
    /\ UNCHANGED <<plan, pc, todo, table, row>>

CloseTable(p) ==
    /\ pc[p] \in {"rows", "validate"} /\ left[p] = 0
    /\ pc'   = [pc EXCEPT ![p] = "main"]
    /\ open' = [open EXCEPT ![p] = @ \ print_close(table[p], inv(p))]
    /\ UNCHANGED <<plan, walk, values, disk>>

Finish_Never(p) ==
    /\ pc[p] = "main" /\ todo[p] = {}
    /\ todo' = [todo EXCEPT ![p] = tablesOf(p)]
    /\ UNCHANGED <<plan, pc, table, row, left, values, files>>

Finish(p) ==
    /\ pc[p] = "main" /\ todo[p] = {}
    /\ pc' = [pc EXCEPT ![p] = "done"]
    /\ UNCHANGED <<plan, walk, values, files>>

\* External: a process is killed, where the plan says that it may be.
Kill(p) ==
    /\ Running[p] /\ inv(p).killed
    /\ pc' = [pc EXCEPT ![p] = "killed"]
    /\ \E part \in partOfRow(p) : disk' = Put(p, part, row[p])
    /\ open' = [open EXCEPT ![p] = {}]
    /\ UNCHANGED <<plan, walk, values>>

main(p) ==
    \/ validate_options(p) \/ Begin(p) \/ DeleteFilesInTheWay(p)
    \/ NamedChild(p) \/ StartTable(p) \/ StartValidation(p) \/ ValidationInTheWay(p)
    \/ BuildRow(p) \/ FileInTheWay(p) \/ ValidateRow(p)
    \/ CloseTable(p) \/ Finish(p)

AllEnded == (\A p \in Procs : pc[p] \in Ended) /\ UNCHANGED vars

Next == (\E p \in Procs : main(p) \/ Kill(p)) \/ AllEnded

\* Nothing stops a process of its own accord: the operating system runs it.
Spec == Init /\ [][Next]_vars /\ \A p \in Procs : WF_vars(main(p))
==============================================================================
