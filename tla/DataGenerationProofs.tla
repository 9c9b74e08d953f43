------------------------- MODULE DataGenerationProofs -------------------------
(***************************************************************************)
(* For every plan of command lines and every scale: the chunks of a table  *)
(* are the table, no process overwrites a file unless it is forced to, a   *)
(* revision takes over the old values of its own business key, the files   *)
(* behave as DataSet says, when the processes are through the files hold   *)
(* every row of the tables, once and in order, and every line fits the     *)
(* schema it is loaded into.                                               *)
(***************************************************************************)
EXTENDS DataGeneration, TLAPS

(***************************************************************************)
(* The chunks of a table.                                                  *)
(***************************************************************************)

LEMMA QuotientRemainder ==
    ASSUME NEW total \in Nat, NEW n \in Nat \ {0}
    PROVE  /\ total \div n \in Nat /\ (total % n) \in 0 .. (n - 1)
           /\ total = n * (total \div n) + (total % n)
OBVIOUS

\* The children of a build share the rows of a table: the first begins with row 1, each other
\* where the one before ends, and the last ends with the last row.
THEOREM ChunksAreTheTable ==
    ASSUME NEW total \in Nat, NEW n \in Nat \ {0}, NEW c \in 1 .. n
    PROVE  /\ Chunk(total, n, 1).first = 1
           /\ Chunk(total, n, c).count \in Nat
           /\ c < n => Chunk(total, n, c).first + Chunk(total, n, c).count = Chunk(total, n, c + 1).first
           /\ Chunk(total, n, n).first + Chunk(total, n, n).count = total + 1
<1> DEFINE size  == total \div n
           extra == total % n
           least(a, b) == IF a < b THEN a ELSE b
<1>1. size \in Nat /\ extra \in 0 .. (n - 1) /\ total = n * size + extra
      BY QuotientRemainder
<1>2. \A i \in 1 .. n : /\ Chunk(total, n, i).first = 1 + (i - 1) * size + least(i - 1, extra)
                        /\ Chunk(total, n, i).count = size + (IF i <= extra THEN 1 ELSE 0)
      BY DEF Chunk
<1> HIDE DEF size, extra
<1>3. Chunk(total, n, 1).first = 1
      BY <1>1, <1>2
<1>4. Chunk(total, n, c).count \in Nat
      BY <1>1, <1>2
<1>5. ASSUME c < n
      PROVE  Chunk(total, n, c).first + Chunk(total, n, c).count = Chunk(total, n, c + 1).first
  <2>1. c * size = (c - 1) * size + size /\ (c - 1) * size \in Int
        BY <1>1
  <2>2. Chunk(total, n, c + 1).first = 1 + c * size + least(c, extra)
        BY <1>2, <1>5
  <2> QED
      BY <1>1, <1>2, <2>1, <2>2
<1>6. Chunk(total, n, n).first + Chunk(total, n, n).count = total + 1
  <2>1. n * size = (n - 1) * size + size /\ (n - 1) * size \in Int
        BY <1>1
  <2> QED
      BY <1>1, <1>2, <2>1
<1> QED
    BY <1>3, <1>4, <1>5, <1>6

(***************************************************************************)
(* Files.                                                                  *)
(***************************************************************************)

\* A process that runs has a command line, and the rows it numbers are numbers.
RunsPlan ==
    /\ plan \in Plans
    /\ pc \in [Procs -> {"idle", "main", "rows", "validate"} \cup Ended]
    /\ row \in [Procs -> Int]
    /\ \A p \in Procs : pc[p] \notin Ended => p \in DOMAIN plan

\* Files hold numbers of rows, and the files a process has open are there.
FilesHeld ==
    /\ \A f \in DOMAIN disk : disk[f] \in Seq(Int)
    /\ open \in [Procs -> SUBSET DOMAIN disk]

FilesInv == RunsPlan /\ FilesHeld

LEMMA FilesInit == Init => FilesInv
BY PlansAssumption DEF Init, FilesInv, RunsPlan, FilesHeld, Ended

\* The first row of a share is a number.
LEMMA ShareFirst ==
    ASSUME NEW t \in Tables, NEW nTotal \in Nat \ {0}, NEW nChild \in Nat
    PROVE  split_work(get_rowcount(t), nTotal, nChild).first \in Int
<1>1. get_rowcount(t) \in Nat
      BY ScalingAssumption DEF get_rowcount
<1>2. get_rowcount(t) \div nTotal \in Nat /\ (get_rowcount(t) % nTotal) \in Nat
      BY <1>1, QuotientRemainder
<1> HIDE DEF get_rowcount
<1> QED
    BY <1>1, <1>2, ScalingAssumption DEF split_work, Chunk

Kept == \A f \in DOMAIN disk : f \in DOMAIN disk' /\ IsPrefix(disk[f], disk'[f])

\* What a step of process p may do to the files.
Extends(p) ==
    /\ DOMAIN disk \subseteq DOMAIN disk'
    /\ \A f \in DOMAIN disk' : disk'[f] \in Seq(Int)
    /\ inv(p).force \/ Kept

LEMMA SameExtends ==
    ASSUME FilesInv, NEW p \in Procs, disk' = disk
    PROVE  Extends(p)
<1>1. \A f \in DOMAIN disk : disk[f] \in Seq(Int)
      BY DEF FilesInv, FilesHeld
<1>2. \A s \in Seq(Int) : IsPrefix(s, s)
      BY DEF IsPrefix
<1> QED
    BY <1>1, <1>2 DEF Kept, Extends

\* Rows come to the end of the files that are open; a file that is not is new, unless the
\* process is forced to replace it.
LEMMA PutExtends ==
    ASSUME FilesInv, NEW p \in Procs, NEW names, NEW k \in Int, \A f \in names : ~ InTheWay(p, f),
           disk' = Put(p, names, k)
    PROVE  Extends(p) /\ names \subseteq DOMAIN disk'
<1> USE DEF FilesInv, FilesHeld
<1>1. DOMAIN disk' = DOMAIN disk \cup names
      BY DEF Put
<1>2. \A f \in DOMAIN disk \cup names :
          disk'[f] = IF f \notin names THEN disk[f]
                     ELSE IF f \in open[p] THEN Append(disk[f], k) ELSE <<k>>
      BY DEF Put
<1>3. open[p] \subseteq DOMAIN disk
      OBVIOUS
<1>4. ASSUME NEW f \in DOMAIN disk \cup names PROVE disk'[f] \in Seq(Int)
  <2>1. f \in DOMAIN disk => disk[f] \in Seq(Int) /\ Append(disk[f], k) \in Seq(Int)
        OBVIOUS
  <2>2. <<k>> \in Seq(Int)
        OBVIOUS
  <2> QED
      BY <1>2, <1>3, <2>1, <2>2
<1>5. ASSUME ~ inv(p).force, NEW f \in DOMAIN disk
      PROVE  IsPrefix(disk[f], disk'[f])
  <2>1. disk'[f] \in {disk[f], Append(disk[f], k)}
        BY <1>2, <1>5 DEF InTheWay
  <2>2. disk[f] \in Seq(Int)
        OBVIOUS
  <2>3. IsPrefix(disk[f], disk[f]) /\ IsPrefix(disk[f], Append(disk[f], k))
        BY <2>2 DEF IsPrefix
  <2> QED
      BY <2>1, <2>3
<1> QED
    BY <1>1, <1>4, <1>5 DEF Extends, Kept

\* The file to validate is open, or new, unless the process is forced to replace it.
LEMMA CreateExtends ==
    ASSUME FilesInv, NEW p \in Procs, NEW name, ~ InTheWay(p, name), disk' = Create(p, name)
    PROVE  Extends(p) /\ name \in DOMAIN disk'
<1> USE DEF FilesInv, FilesHeld
<1>1. DOMAIN disk' = DOMAIN disk \cup {name}
      BY DEF Create
<1>2. \A f \in DOMAIN disk \cup {name} :
          disk'[f] = IF f = name /\ name \notin open[p] THEN << >> ELSE disk[f]
      BY DEF Create
<1>3. open[p] \subseteq DOMAIN disk
      OBVIOUS
<1>4. \A f \in DOMAIN disk' : disk'[f] \in Seq(Int)
  <2>1. << >> \in Seq(Int)
        OBVIOUS
  <2> QED
      BY <1>1, <1>2, <1>3, <2>1
<1>5. \A s \in Seq(Int) : IsPrefix(s, s)
      BY DEF IsPrefix
<1>6. inv(p).force \/ Kept
      BY <1>1, <1>2, <1>5 DEF InTheWay, Kept
<1> QED
    BY <1>1, <1>4, <1>6 DEF Extends

Forced == \E p \in DOMAIN plan : inv(p).force /\ pc[p] \notin Ended

\* The positions of a process.
At == {"idle", "main", "rows", "validate"} \cup Ended

\* A step of process p that does no more to the files than it may.
LEMMA StepOfProcess ==
    ASSUME FilesInv, plan' = plan, NEW p \in Procs, pc[p] \notin Ended, Extends(p),
           NEW at \in At, pc' = [pc EXCEPT ![p] = at],
           row' \in [Procs -> Int],
           NEW held \in SUBSET DOMAIN disk', open' = [open EXCEPT ![p] = held]
    PROVE  FilesInv' /\ (Forced \/ Kept)
<1>1. p \in DOMAIN plan
      BY DEF FilesInv, RunsPlan
<1>2. FilesHeld'
  <2>1. \A q \in Procs : open'[q] \subseteq DOMAIN disk'
        BY DEF FilesInv, FilesHeld, Extends
  <2> QED
      BY <2>1 DEF FilesInv, FilesHeld, Extends
<1>3. RunsPlan'
      BY <1>1 DEF FilesInv, RunsPlan, At
<1> QED
    BY <1>1, <1>2, <1>3 DEF FilesInv, Forced, Extends

\* No step breaks FilesInv, and none changes what a file holds, except of a forced process.
LEMMA FilesNext == FilesInv /\ [Next]_vars => FilesInv' /\ (Forced \/ Kept)
<1> SUFFICES ASSUME FilesInv, [Next]_vars PROVE FilesInv' /\ (Forced \/ Kept)
    OBVIOUS
<1>1. \A p \in Procs : pc[p] \notin Ended =>
          /\ p \in DOMAIN plan
          /\ inv(p) \in CommandLine
          /\ inv(p).parallel = 0 => inv(p).child = 1
      BY PlansAssumption DEF FilesInv, RunsPlan, inv
<1>2. row \in [Procs -> Int] /\ open \in [Procs -> SUBSET DOMAIN disk]
      BY DEF FilesInv, RunsPlan, FilesHeld
<1>3. ASSUME NEW p \in Procs, validate_options(p) \/ NamedChild(p) \/ ValidationInTheWay(p) \/ Finish(p)
      PROVE  FilesInv' /\ (Forced \/ Kept)
  <2>1. pc[p] \notin Ended
        BY <1>3 DEF validate_options, NamedChild, ValidationInTheWay, Finish, AtTable, Ended
  <2>2. UNCHANGED <<plan, row, disk, open>> /\ \E at \in {"refused", "done"} : pc' = [pc EXCEPT ![p] = at]
        BY <1>3 DEF validate_options, NamedChild, ValidationInTheWay, Finish, walk, values, files
  <2>3. open' = [open EXCEPT ![p] = open[p]] /\ open[p] \in SUBSET DOMAIN disk'
        BY <1>2, <2>2
  <2> QED
      BY <1>2, <2>1, <2>2, <2>3, SameExtends, StepOfProcess DEF At, Ended
<1>4. ASSUME NEW p \in Procs, Begin(p) \/ DeleteFilesInTheWay(p)
      PROVE  FilesInv' /\ (Forced \/ Kept)
  <2>1. pc[p] \notin Ended
        BY <1>4 DEF Begin, DeleteFilesInTheWay, Ended
  <2>2. Extends(p)
    <3>1. CASE disk' = disk
          BY <3>1, SameExtends
    <3>2. ASSUME NEW names, \A f \in names : ~ InTheWay(p, f), disk' = Put(p, names, 1)
          PROVE  Extends(p)
          BY <3>2, PutExtends
    <3> QED
        BY <1>4, <3>1, <3>2 DEF Begin, DeleteFilesInTheWay
  <2>3. UNCHANGED <<plan, row, open>> /\ \E at \in {"main", "refused"} : pc' = [pc EXCEPT ![p] = at]
        BY <1>4 DEF Begin, DeleteFilesInTheWay, walk, values
  <2>4. open' = [open EXCEPT ![p] = open[p]] /\ open[p] \in SUBSET DOMAIN disk'
        BY <1>2, <2>2, <2>3 DEF Extends
  <2> QED
      BY <1>2, <2>1, <2>2, <2>3, <2>4, StepOfProcess DEF At, Ended
<1>5. ASSUME NEW p \in Procs, StartTable(p)
      PROVE  FilesInv' /\ (Forced \/ Kept)
  <2>1. pc[p] \notin Ended
        BY <1>5 DEF StartTable, AtTable, Ended
  <2>2. PICK t \in Tables :
            row' = [row EXCEPT ![p] = split_work(get_rowcount(t),
                        IF inv(p).parallel > 0 THEN inv(p).parallel ELSE 1, inv(p).child).first]
        BY <1>5 DEF StartTable
  <2>3. inv(p).child \in Nat /\ (IF inv(p).parallel > 0 THEN inv(p).parallel ELSE 1) \in Nat \ {0}
        BY <1>1, <2>1 DEF CommandLine
  <2>4. row' \in [Procs -> Int]
        BY <1>2, <2>2, <2>3, ShareFirst
  <2>5. UNCHANGED <<plan, disk, open>> /\ pc' = [pc EXCEPT ![p] = "rows"]
        BY <1>5 DEF StartTable, files
  <2>6. open' = [open EXCEPT ![p] = open[p]] /\ open[p] \in SUBSET DOMAIN disk'
        BY <1>2, <2>5
  <2> QED
      BY <2>1, <2>4, <2>5, <2>6, SameExtends, StepOfProcess DEF At
<1>6. ASSUME NEW p \in Procs, StartValidation(p)
      PROVE  FilesInv' /\ (Forced \/ Kept)
  <2>1. pc[p] \notin Ended
        BY <1>6 DEF StartValidation, AtTable, Ended
  <2>2. PICK name : /\ ~ InTheWay(p, name) /\ disk' = Create(p, name)
                    /\ open' = [open EXCEPT ![p] = @ \cup {name}]
        BY <1>6 DEF StartValidation
  <2>3. Extends(p) /\ name \in DOMAIN disk'
        BY <2>2, CreateExtends
  <2>4. open' = [open EXCEPT ![p] = open[p] \cup {name}] /\ open[p] \cup {name} \in SUBSET DOMAIN disk'
        BY <1>2, <2>2, <2>3 DEF Extends
  <2>5. UNCHANGED <<plan, row>> /\ pc' = [pc EXCEPT ![p] = "validate"]
        BY <1>6 DEF StartValidation
  <2> QED
      BY <1>2, <2>1, <2>3, <2>4, <2>5, StepOfProcess DEF At
<1>7. ASSUME NEW p \in Procs, BuildRow(p) \/ ValidateRow(p)
      PROVE  FilesInv' /\ (Forced \/ Kept)
  <2>1. pc[p] \notin Ended
        BY <1>7 DEF BuildRow, ValidateRow, Ended
  <2>2. PICK k \in Int : /\ \A f \in filesOf(p, k) : ~ InTheWay(p, f)
                         /\ disk' = Put(p, filesOf(p, k), k)
                         /\ open' = [open EXCEPT ![p] = @ \cup filesOf(p, k)]
    <3>1. CASE BuildRow(p)
      <4>1. row[p] \in Int
            BY <1>2
      <4> QED
          BY <3>1, <4>1 DEF BuildRow, Write
    <3>2. CASE ValidateRow(p)
      <4>1. \A t : 1 .. get_rowcount(t) \subseteq Int
            OBVIOUS
      <4> QED
          BY <3>2, <4>1 DEF ValidateRow, Write
    <3> QED
        BY <1>7, <3>1, <3>2
  <2>3. Extends(p) /\ filesOf(p, k) \subseteq DOMAIN disk'
        BY <2>2, PutExtends
  <2>4. /\ open' = [open EXCEPT ![p] = open[p] \cup filesOf(p, k)]
        /\ open[p] \cup filesOf(p, k) \in SUBSET DOMAIN disk'
        BY <1>2, <2>2, <2>3 DEF Extends
  <2>5. UNCHANGED <<plan, pc>> /\ row' \in [Procs -> Int]
    <3>1. CASE BuildRow(p)
      <4>1. UNCHANGED <<plan, pc>> /\ row' = [row EXCEPT ![p] = row[p] + 1]
            BY <3>1 DEF BuildRow, Write
      <4> QED
          BY <1>2, <4>1
    <3>2. CASE ValidateRow(p)
          BY <1>2, <3>2 DEF ValidateRow, Write
    <3> QED
        BY <1>7, <3>1, <3>2
  <2>6. pc[p] \in At /\ pc' = [pc EXCEPT ![p] = pc[p]]
        BY <2>5 DEF FilesInv, RunsPlan, At
  <2> QED
      BY <2>1, <2>3, <2>4, <2>5, <2>6, StepOfProcess
<1>8. ASSUME NEW p \in Procs, FileInTheWay(p) \/ Kill(p)
      PROVE  FilesInv' /\ (Forced \/ Kept)
  <2>1. pc[p] \notin Ended
        BY <1>8 DEF FileInTheWay, Kill, Running, Ended
  <2>2. PICK part \in partOfRow(p) : disk' = Put(p, part, row[p])
        BY <1>8 DEF FileInTheWay, Kill
  <2>3. \A f \in part : ~ InTheWay(p, f)
        BY <2>2 DEF partOfRow
  <2>4. Extends(p)
        BY <1>2, <2>2, <2>3, PutExtends
  <2>5. /\ UNCHANGED <<plan, row>> /\ open' = [open EXCEPT ![p] = {}]
        /\ \E at \in {"refused", "killed"} : pc' = [pc EXCEPT ![p] = at]
        BY <1>8 DEF FileInTheWay, Kill, walk, values
  <2>6. PICK at \in At : pc' = [pc EXCEPT ![p] = at]
        BY <2>5 DEF At, Ended
  <2>7. {} \in SUBSET DOMAIN disk'
        OBVIOUS
  <2> QED
      BY <1>2, <2>1, <2>4, <2>5, <2>6, <2>7, StepOfProcess
<1>9. ASSUME NEW p \in Procs, CloseTable(p)
      PROVE  FilesInv' /\ (Forced \/ Kept)
  <2>1. pc[p] \notin Ended
        BY <1>9 DEF CloseTable, Ended
  <2>2. UNCHANGED <<plan, row, disk>> /\ pc' = [pc EXCEPT ![p] = "main"]
        BY <1>9 DEF CloseTable, walk, values
  <2>3. PICK closed : open' = [open EXCEPT ![p] = open[p] \ closed]
        BY <1>9 DEF CloseTable
  <2>4. open[p] \ closed \in SUBSET DOMAIN disk'
        BY <1>2, <2>2
  <2> QED
      BY <1>2, <2>1, <2>2, <2>3, <2>4, SameExtends, StepOfProcess DEF At
<1>10. CASE UNCHANGED vars
  <2>1. UNCHANGED <<plan, pc, row, disk, open>>
        BY <1>10 DEF vars, walk, values, files
  <2>2. \A s \in Seq(Int) : IsPrefix(s, s)
        BY DEF IsPrefix
  <2> QED
      BY <2>1, <2>2 DEF FilesInv, RunsPlan, FilesHeld, Kept
<1> QED
    BY <1>3, <1>4, <1>5, <1>6, <1>7, <1>8, <1>9, <1>10 DEF Next, main, AllEnded

\* What is in a file stays there, and rows only come after it, unless a process that was told
\* to FORCE is running; for every plan, though processes run at the same time and are killed.
THEOREM NothingOverwritten == Spec => NoOverwrite
<1>1. FilesInv /\ [Next]_vars => FilesInv'
      BY FilesNext
<1>2. FilesInv /\ [Next]_vars =>
          [\/ \E p \in DOMAIN plan : inv(p).force /\ pc[p] \notin Ended
           \/ \A f \in DOMAIN disk : f \in DOMAIN disk' /\ IsPrefix(disk[f], disk'[f])]_vars
      BY FilesNext DEF Forced, Kept
<1> QED
    BY <1>1, <1>2, FilesInit, PTL DEF Spec, NoOverwrite

(***************************************************************************)
(* Revisions.                                                              *)
(***************************************************************************)

\* The old values a builder holds when it comes to a row are those of the row before.
HoldsLast ==
    /\ table \in [Procs -> Tables \cup {NoTable}]
    /\ base \in [Procs -> [{t \in Warehouse : Revised(t)} -> Int]]
    /\ \A p \in Procs : pc[p] \in {"main", "rows", "validate"} => ~ usage(p)
    /\ \A p \in Procs : pc[p] = "rows" /\ Revised(table[p]) /\ row[p] # 1 =>
           base[p][table[p]] = firstRevision(row[p] - 1)

RevisionInv == FilesInv /\ HoldsLast /\ OwnRevision

LEMMA RevisionBefore ==
    ASSUME NEW k \in Int
    PROVE  /\ firstRevision(k) = IF bNewBKey(k) THEN k ELSE firstRevision(k - 1)
           /\ bNewBKey(firstRevision(k)) /\ firstRevision(k) \in Int
BY DEF firstRevision, bNewBKey

LEMMA NoTableNotRevised == ~ Revised(NoTable)
<1>1. NoTable \notin Warehouse
      BY DEF Warehouse, w_tdefs, NoTable
<1> QED
    BY <1>1 DEF Revised

LEMMA RevisionInit == Init => RevisionInv
<1> SUFFICES ASSUME Init PROVE RevisionInv
    OBVIOUS
<1>1. HoldsLast
      BY DEF Init, HoldsLast, Ended
<1>2. OwnRevision
      BY NoTableNotRevised DEF Init, OwnRevision, NoLine
<1> QED
    BY <1>1, <1>2, FilesInit DEF RevisionInv

\* A builder that holds the old values of the row before, or of no row before the first,
\* and moves to row k, holds those of the revisions of the same key.
LEMMA OldValues ==
    ASSUME NEW p \in Procs, base \in [Procs -> [{t \in Warehouse : Revised(t)} -> Int]],
           NEW t, Revised(t), NEW k \in Int, bNewBKey(k) \/ base[p][t] = firstRevision(k - 1)
    PROVE  oldValues(p, t, k)[t] = firstRevision(k)
<1>1. t \in {x \in Warehouse : Revised(x)}
      BY DEF Revised
<1>2. firstRevision(k) = IF bNewBKey(k) THEN k ELSE firstRevision(k - 1)
      BY RevisionBefore
<1>3. base[p] \in [{x \in Warehouse : Revised(x)} -> Int]
      OBVIOUS
<1> HIDE DEF firstRevision, bNewBKey, Revised
<1>4. CASE bNewBKey(k)
      BY <1>1, <1>2, <1>3, <1>4 DEF oldValues
<1>5. CASE ~ bNewBKey(k)
      BY <1>2, <1>5 DEF oldValues
<1> QED
    BY <1>4, <1>5

\* A step that neither builds nor validates a row, nor starts a table.
LEMMA OtherStep ==
    ASSUME RevisionInv, FilesInv', UNCHANGED <<plan, table, row, base, line>>,
           NEW p \in Procs, NEW at \in Ended \cup {"main", "validate"}, pc' = [pc EXCEPT ![p] = at],
           at \in {"main", "validate"} => ~ usage(p)
    PROVE  RevisionInv'
<1>1. OwnRevision'
      BY DEF RevisionInv, OwnRevision
<1>2. HoldsLast'
      BY DEF RevisionInv, HoldsLast, FilesInv, RunsPlan, Ended, usage, inv
<1> QED
    BY <1>1, <1>2 DEF RevisionInv

\* A small table is all in the first share, and the other shares are as if it was.
LEMMA SmallFromFirst ==
    ASSUME NEW total \in Nat, total < Threshold, NEW nTotal, NEW nChild \in Nat \ {0}
    PROVE  split_work(total, nTotal, nChild).first = 1
<1>1. CASE nChild > 1
      BY <1>1 DEF split_work
<1>2. CASE nChild = 1
      BY <1>2 DEF split_work
<1> QED
    BY <1>1, <1>2

\* A line holds its table, its row and the row its old values are of.
LEMMA BuiltLine ==
    ASSUME NEW streams, NEW draws, NEW t, NEW k, NEW day, NEW old
    PROVE  LET new == builtLine(streams, draws, t, k, day, old)
           IN  new.table = t /\ new.row = k /\ new.base = old
BY DEF builtLine

LEMMA RevisionNext ==
    ASSUME RevisedNotSplit, RevisionInv, [Next]_vars
    PROVE  RevisionInv'
<1>1. FilesInv'
      BY FilesNext DEF RevisionInv
<1>2. /\ base \in [Procs -> [{x \in Warehouse : Revised(x)} -> Int]] /\ row \in [Procs -> Int]
      /\ table \in [Procs -> Tables \cup {NoTable}]
      BY DEF RevisionInv, HoldsLast, FilesInv, RunsPlan
<1>3. \A p \in Procs : pc[p] \in {"main", "rows", "validate"} => ~ usage(p)
      BY DEF RevisionInv, HoldsLast
<1>4. ASSUME NEW p \in Procs,
             \/ validate_options(p) \/ Begin(p) \/ DeleteFilesInTheWay(p) \/ NamedChild(p)
             \/ StartValidation(p) \/ ValidationInTheWay(p) \/ FileInTheWay(p) \/ CloseTable(p)
             \/ Finish(p) \/ Kill(p)
      PROVE  RevisionInv'
  <2>1. CASE StartValidation(p)
    <3>1. ~ usage(p)
          BY <1>3, <2>1 DEF StartValidation, AtTable
    <3>2. pc' = [pc EXCEPT ![p] = "validate"]
          BY <2>1 DEF StartValidation
    <3>3. OwnRevision'
          BY <2>1 DEF StartValidation, values, RevisionInv, OwnRevision
    <3>4. PICK t \in Tables : table' = [table EXCEPT ![p] = t]
          BY <2>1 DEF StartValidation
    <3>5. UNCHANGED <<plan, row, base>>
          BY <2>1 DEF StartValidation, values
    <3>6. HoldsLast'
          BY <3>1, <3>2, <3>4, <3>5 DEF RevisionInv, HoldsLast, FilesInv, RunsPlan, usage, inv
    <3> QED
        BY <1>1, <3>3, <3>6 DEF RevisionInv
  <2>2. CASE CloseTable(p)
    <3>1. ~ usage(p)
          BY <1>3, <2>2 DEF CloseTable
    <3> QED
        BY <1>1, <2>2, <3>1, OtherStep DEF CloseTable, walk, values
  <2>3. CASE Begin(p)
    <3>1. ~ usage(p) /\ pc' = [pc EXCEPT ![p] = "main"] /\ UNCHANGED <<plan, table, row, base, line>>
          BY <2>3 DEF Begin, values
    <3> QED
        BY <1>1, <3>1, OtherStep
  <2>4. ASSUME ~ StartValidation(p), ~ CloseTable(p), ~ Begin(p)
        PROVE  RevisionInv'
    <3>1. PICK at \in Ended : pc' = [pc EXCEPT ![p] = at]
          BY <1>4, <2>4 DEF validate_options, DeleteFilesInTheWay, NamedChild, ValidationInTheWay,
                            FileInTheWay, Finish, Kill, Ended
    <3>2. UNCHANGED <<plan, table, row, base, line>>
          BY <1>4, <2>4 DEF validate_options, DeleteFilesInTheWay, NamedChild, ValidationInTheWay,
                            FileInTheWay, Finish, Kill, walk, values
    <3> QED
        BY <1>1, <3>1, <3>2, OtherStep DEF Ended
  <2> QED
      BY <2>1, <2>2, <2>3, <2>4
<1>5. ASSUME NEW p \in Procs, StartTable(p) PROVE RevisionInv'
  <2>1. ~ usage(p) /\ pc[p] \notin Ended
        BY <1>3, <1>5 DEF StartTable, AtTable, Ended
  <2>2. inv(p).child \in Nat /\ inv(p).parallel \in Nat /\ inv(p).child >= 1
        BY <2>1, PlansAssumption DEF RevisionInv, FilesInv, RunsPlan, inv, usage, CommandLine
  <2>3. PICK t \in Tables :
            /\ table' = [table EXCEPT ![p] = t]
            /\ row' = [row EXCEPT ![p] = split_work(get_rowcount(t),
                          IF inv(p).parallel > 0 THEN inv(p).parallel ELSE 1, inv(p).child).first]
        BY <1>5 DEF StartTable
  <2>4. UNCHANGED <<plan, base, line>> /\ pc' = [pc EXCEPT ![p] = "rows"]
        BY <1>5 DEF StartTable
  <2>5. Revised(t) => row' = [row EXCEPT ![p] = 1]
    <3>1. Revised(t) => get_rowcount(t) < Threshold
          BY DEF RevisedNotSplit, Revised
    <3>2. get_rowcount(t) \in Nat
          BY ScalingAssumption DEF get_rowcount
    <3>3. Revised(t) =>
              split_work(get_rowcount(t), IF inv(p).parallel > 0 THEN inv(p).parallel ELSE 1, inv(p).child).first = 1
          BY <2>2, <3>1, <3>2, SmallFromFirst
    <3> QED
        BY <2>3, <3>3
  <2>6. OwnRevision'
        BY <2>4 DEF RevisionInv, OwnRevision
  <2>7. HoldsLast'
    <3>1. \A q \in Procs \ {p} : pc'[q] = pc[q] /\ table'[q] = table[q] /\ row'[q] = row[q]
          BY <2>3, <2>4
    <3>2. Revised(table'[p]) => row'[p] = 1
          BY <1>2, <2>3, <2>5
    <3>3. \A q \in Procs : pc'[q] \in {"main", "rows", "validate"} => ~ usage(q)'
          BY <1>3, <2>1, <2>4, <3>1 DEF usage, inv
    <3>4. ASSUME NEW q \in Procs, pc'[q] = "rows", Revised(table'[q]), row'[q] # 1
          PROVE  base'[q][table'[q]] = firstRevision(row'[q] - 1)
          BY <2>4, <3>1, <3>2, <3>4 DEF RevisionInv, HoldsLast
    <3>5. table' \in [Procs -> Tables \cup {NoTable}] /\ base' = base
          BY <1>2, <2>3, <2>4
    <3> QED
        BY <1>2, <3>3, <3>4, <3>5 DEF HoldsLast
  <2> QED
      BY <1>1, <2>6, <2>7 DEF RevisionInv
<1>6. ASSUME NEW p \in Procs, BuildRow(p) PROVE RevisionInv'
  <2> DEFINE t == table[p]
             k == row[p]
  <2>1. /\ pc[p] = "rows" /\ UNCHANGED <<plan, pc, table>> /\ row' = [row EXCEPT ![p] = k + 1]
        /\ base' = [base EXCEPT ![p] = oldValues(p, t, k)]
        BY <1>6 DEF BuildRow, Write
  <2>2. k \in Int /\ t \in Tables \cup {NoTable}
        BY <1>2
  <2>3. Revised(t) => oldValues(p, t, k)[t] = firstRevision(k)
    <3>1. Revised(t) => bNewBKey(k) \/ base[p][t] = firstRevision(k - 1)
      <4>1. bNewBKey(1)
            BY DEF bNewBKey
      <4> QED
          BY <2>1, <4>1 DEF RevisionInv, HoldsLast
    <3> QED
        BY <1>2, <2>2, <3>1, OldValues, ZenonT(60)
  <2>4. oldValues(p, t, k) \in [{x \in Warehouse : Revised(x)} -> Int]
        BY <1>2, <2>2 DEF oldValues
  <2>5. base' \in [Procs -> [{x \in Warehouse : Revised(x)} -> Int]]
        BY <1>2, <2>1, <2>4
  <2>6. HoldsLast'
    <3>1. ASSUME NEW q \in Procs, pc'[q] = "rows", Revised(table'[q]), row'[q] # 1
          PROVE  base'[q][table'[q]] = firstRevision(row'[q] - 1)
      <4>1. CASE q = p
            BY <1>2, <2>1, <2>2, <2>3, <3>1, <4>1
      <4>2. CASE q # p
            BY <1>2, <2>1, <3>1, <4>2 DEF RevisionInv, HoldsLast
      <4> QED
          BY <4>1, <4>2
    <3>2. \A q \in Procs : pc'[q] \in {"main", "rows", "validate"} => ~ usage(q)'
          BY <1>3, <2>1 DEF usage, inv
    <3> QED
        BY <1>2, <2>1, <2>5, <3>1, <3>2 DEF HoldsLast
  <2>7. OwnRevision'
    <3> DEFINE old == IF Revised(t) THEN oldValues(p, t, k)[t] ELSE 0
    <3>1. PICK streams, draws, day :
              line' = [line EXCEPT ![p] = builtLine(streams, draws, t, k, day, old)]
          BY <1>6 DEF BuildRow, Write
    <3> DEFINE new == builtLine(streams, draws, t, k, day, old)
    <3>2. line' = [line EXCEPT ![p] = new] /\ new.table = t /\ new.row = k /\ new.base = old
          BY <3>1, BuiltLine
    <3> HIDE DEF new
    <3> QED
        BY <2>3, <3>2 DEF RevisionInv, OwnRevision
  <2> QED
      BY <1>1, <2>6, <2>7 DEF RevisionInv
<1>7. ASSUME NEW p \in Procs, ValidateRow(p) PROVE RevisionInv'
  <2> DEFINE t == table[p]
  <2>1. /\ pc[p] = "validate" /\ UNCHANGED <<plan, pc, table, row>>
        BY <1>7 DEF ValidateRow, Write
  <2> DEFINE old(k) == IF Revised(t) THEN oldValues(p, t, rebuilt(t, k))[t] ELSE 0
  <2>8. PICK k \in 1 .. get_rowcount(t) :
            /\ base' = [base EXCEPT ![p] = oldValues(p, t, rebuilt(t, k))]
            /\ line' = [line EXCEPT ![p] = builtLine(skipped(p, k), drawsOf(p, k), t, k,
                                                    validatedDay(p, k).jDate, old(k))]
        BY <1>7 DEF ValidateRow, Write
  <2> DEFINE new == builtLine(skipped(p, k), drawsOf(p, k), t, k, validatedDay(p, k).jDate, old(k))
  <2>2. /\ line' = [line EXCEPT ![p] = new]
        /\ new.table = t /\ new.row = k /\ new.base = old(k)
        BY <2>8, BuiltLine
  <2> HIDE DEF new
  <2>3. k \in Int /\ rebuilt(t, k) \in Int
        BY RevisionBefore DEF rebuilt
  <2>4. Revised(t) => oldValues(p, t, rebuilt(t, k))[t] = firstRevision(k)
    <3>1. Revised(t) => rebuilt(t, k) = firstRevision(k) /\ bNewBKey(rebuilt(t, k))
          BY <2>3, RevisionBefore DEF rebuilt
    <3>2. Revised(t) => firstRevision(rebuilt(t, k)) = rebuilt(t, k)
          BY <2>3, <3>1, RevisionBefore
    <3> QED
        BY <1>2, <2>3, <3>1, <3>2, OldValues
  <2>5. base' \in [Procs -> [{x \in Warehouse : Revised(x)} -> Int]]
    <3>1. oldValues(p, t, rebuilt(t, k)) \in [{x \in Warehouse : Revised(x)} -> Int]
          BY <1>2, <2>3 DEF oldValues
    <3> QED
        BY <1>2, <2>8, <3>1
  <2>6. HoldsLast'
    <3>1. ASSUME NEW q \in Procs, pc'[q] = "rows", Revised(table'[q]), row'[q] # 1
          PROVE  base'[q][table'[q]] = firstRevision(row'[q] - 1)
          BY <1>2, <2>1, <2>8, <3>1 DEF RevisionInv, HoldsLast
    <3>2. \A q \in Procs : pc'[q] \in {"main", "rows", "validate"} => ~ usage(q)'
          BY <1>3, <2>1 DEF usage, inv
    <3> QED
        BY <1>2, <2>1, <2>5, <3>1, <3>2 DEF HoldsLast
  <2>7. OwnRevision'
        BY <2>2, <2>4 DEF RevisionInv, OwnRevision
  <2> QED
      BY <1>1, <2>6, <2>7 DEF RevisionInv
<1>8. CASE UNCHANGED vars
  <2>1. UNCHANGED <<plan, pc, table, row, base, line>>
        BY <1>8 DEF vars, walk, values
  <2> QED
      BY <1>1, <2>1 DEF RevisionInv, HoldsLast, OwnRevision, usage, inv
<1> QED
    BY <1>4, <1>5, <1>6, <1>7, <1>8 DEF Next, main, AllEnded

\* A later revision of a business key takes over the old values of its own key, whichever
\* processes build and validate which rows, as long as no table of revisions is split.
THEOREM OwnRevisionTaken == ASSUME RevisedNotSplit PROVE Spec => []OwnRevision
<1>1. RevisionInv /\ [Next]_vars => RevisionInv'
      BY RevisionNext
<1>2. RevisionInv => OwnRevision
      BY DEF RevisionInv
<1> QED
    BY <1>1, <1>2, RevisionInit, PTL DEF Spec

(***************************************************************************)
(* The files as DataSet has them.                                          *)
(***************************************************************************)

AtWork == {"rows", "validate"}
LastRow(f) == disk[f][Len(disk[f])]

\* A process has files open only of the table it is at, each for itself, and has not come
\* to a row it has written.
OpenInv ==
    /\ table \in [Procs -> Tables \cup {NoTable}]
    /\ \A p \in Procs : IF pc[p] \in AtWork
                        THEN table[p] \in Tables /\ open[p] \subseteq print_close(table[p], inv(p))
                        ELSE open[p] = {}
    /\ \A p \in Procs : pc[p] = "validate" => inv(p).validate
    /\ \A p \in Procs : pc[p] = "rows" =>
           \A f \in open[p] : disk[f] = << >> \/ LastRow(f) < row[p]
    /\ \A p, q \in Procs : p # q => open[p] \cap open[q] = {}
    /\ \A p \in Procs : Running[p] => \A q \in inv(p).after \cap Procs : pc[q] \in Ended

TurnInv == FilesInv /\ OpenInv

LEMMA TurnInit == Init => TurnInv
<1> SUFFICES ASSUME Init PROVE OpenInv
    BY FilesInit DEF TurnInv
<1>1. /\ \A p \in Procs : pc[p] \in {"idle", "done"} /\ open[p] = {}
      /\ Running = [p \in Procs |-> FALSE]
      BY DEF Init, Running, Ended
<1>2. table \in [Procs -> Tables \cup {NoTable}]
      BY DEF Init
<1> QED
    BY <1>1, <1>2 DEF OpenInv, AtWork

\* A row is written to files of its table.
LEMMA WrittenInFamily ==
    ASSUME NEW t \in Tables, NEW k \in Int
    PROVE  Written(t, k) \subseteq Family(t)
<1> DEFINE nParam == getSimpleTdefsByNumber(t).nParam
<1>1. t \in Family(t)
      BY DEF Family
<1>2. CASE t \in {"STORE_SALES", "WEB_SALES", "CATALOG_SALES"}
  <2>1. IsFlagSet(t, "PARENT")
        BY <1>2 DEF IsFlagSet, getSimpleTdefsByNumber, Refresh, s_tdefs, w_tdefs, tdef
  <2>2. {nParam} \subseteq Family(t)
        BY <2>1 DEF Family
  <2> HIDE DEF nParam
  <2>3. Written(t, k) \subseteq {t, nParam}
        BY <1>2 DEF Written, nParam
  <2> QED
      BY <1>1, <2>2, <2>3
<1>3. CASE t \in {"S_CATALOG_ORDER", "S_PURCHASE", "S_WEB_ORDER"}
  <2>1. IsFlagSet(t, "PARENT")
        BY <1>3 DEF IsFlagSet, getSimpleTdefsByNumber, Refresh, s_tdefs, s_tdef, tdef
  <2>2. {nParam} \subseteq Family(t)
        BY <2>1 DEF Family
  <2>3. Written(t, k) \in {{t, nParam}, Family(t)}
        BY <1>3 DEF Written
  <2> QED
      BY <1>1, <2>2, <2>3
<1>4. CASE t \notin {"STORE_SALES", "WEB_SALES", "CATALOG_SALES", "S_CATALOG_ORDER", "S_PURCHASE", "S_WEB_ORDER"}
  <2>1. Written(t, k) \subseteq {t}
        BY <1>4 DEF Written
  <2> QED
      BY <1>1, <2>1
<1> QED
    BY <1>2, <1>3, <1>4

\* The tables built with a table are tables.
LEMMA FamilyInTables == \A t \in Tables : Family(t) \subseteq Tables
<1>1. ASSUME NEW t \in Warehouse, IsFlagSet(t, "PARENT") PROVE getSimpleTdefsByNumber(t).nParam \in Tables
  <2>1. t \in {"CATALOG_SALES", "STORE_SALES", "WEB_SALES"}
        BY <1>1, SMTT(60) DEF IsFlagSet, getSimpleTdefsByNumber, Refresh, Warehouse, s_tdefs, w_tdefs, tdef
  <2>2. getSimpleTdefsByNumber(t).nParam \in {"CATALOG_RETURNS", "STORE_RETURNS", "WEB_RETURNS"}
        BY <2>1 DEF getSimpleTdefsByNumber, Refresh, s_tdefs, w_tdefs, tdef
  <2> QED
      BY <2>2 DEF Tables, Warehouse, w_tdefs
<1>2. ASSUME NEW t \in Refresh, IsFlagSet(t, "PARENT") PROVE getSimpleTdefsByNumber(t).nParam \in Tables
  <2>1. t \in {"S_CATALOG_ORDER", "S_CATALOG_ORDER_LINEITEM", "S_PURCHASE", "S_PURCHASE_LINEITEM",
               "S_WEB_ORDER", "S_WEB_ORDER_LINEITEM"}
        BY <1>2 DEF IsFlagSet, getSimpleTdefsByNumber, Refresh, s_tdefs, s_tdef, tdef
  <2>2. getSimpleTdefsByNumber(t).nParam \in
            {"S_CATALOG_ORDER_LINEITEM", "S_CATALOG_RETURNS", "S_PURCHASE_LINEITEM", "S_STORE_RETURNS",
             "S_WEB_ORDER_LINEITEM", "S_WEB_RETURNS"}
        BY <2>1 DEF getSimpleTdefsByNumber, Refresh, s_tdefs, s_tdef, tdef
  <2> QED
      BY <2>2 DEF Tables, Refresh, s_tdefs
<1> QED
    BY <1>1, <1>2 DEF Family, Tables

\* Two processes at work share no file when one of them is forced.
LEMMA Apart ==
    ASSUME ForcedApart, TurnInv, NEW p \in Procs, NEW q \in Procs, p # q, Running[p], pc[q] \in AtWork,
           NEW x, print_start(x, inv(p)) \in open[q]
    PROVE  ~ inv(p).force
<1>1. pc[p] \notin Ended /\ pc[q] \notin Ended /\ Running[q]
      BY DEF Running, Ended, AtWork
<1>2. plan \in Plans /\ p \in DOMAIN plan /\ q \in DOMAIN plan
      BY <1>1 DEF TurnInv, FilesInv, RunsPlan
<1>3. PICK y : print_start(x, inv(p)) = print_start(y, inv(q))
      BY DEF TurnInv, OpenInv, print_close
<1>4. sharesFiles(plan[p], plan[q])
  <2>1. \A t : print_start(t, inv(p)) = print_start(t, inv(q))
        BY <1>3 DEF print_start
  <2>2. "ITEM" \in Tables
        BY DEF Tables, Warehouse, w_tdefs
  <2> QED
      BY <2>1, <2>2 DEF sharesFiles, inv
<1>5. p \notin plan[q].after /\ q \notin plan[p].after
      BY <1>1 DEF TurnInv, OpenInv, inv
<1> QED
    BY <1>2, <1>4, <1>5 DEF ForcedApart, inv

\* What a process in the middle of row k may add to its files.
MayPut(p, names, k) ==
    /\ \A f \in names : (\E x : f = print_start(x, inv(p))) /\ ~ InTheWay(p, f)
    /\ \A f \in names \cap open[p] : inv(p).validate \/ disk[f] = << >> \/ LastRow(f) < k

\* The lines of a row are a turn of the process.
LEMMA PutTurn ==
    ASSUME ForcedApart, TurnInv, NEW p \in Procs, Running[p], NEW k \in Int, NEW names, MayPut(p, names, k),
           disk' = Put(p, names, k),
           NEW held, held \subseteq open[p] \cup names, open' = [open EXCEPT ![p] = held]
    PROVE  Files!Turn(p)
<1> DEFINE touched == {f \in DOMAIN disk' : Files!Changed(f)} \cup (open'[p] \ open[p])
<1>1. /\ p \in DOMAIN plan /\ open \in [Procs -> SUBSET DOMAIN disk]
      /\ \A f \in DOMAIN disk : disk[f] \in Seq(Int)
      BY DEF TurnInv, FilesInv, RunsPlan, FilesHeld, Running
<1>2. DOMAIN disk' = DOMAIN disk \cup names
      BY DEF Put
<1>3. \A f \in DOMAIN disk' :
          disk'[f] = IF f \notin names THEN disk[f]
                     ELSE IF f \in open[p] THEN Append(disk[f], k) ELSE <<k>>
      BY <1>2 DEF Put
<1>4. open'[p] = held /\ held \subseteq DOMAIN disk' /\ open' = [open EXCEPT ![p] = open'[p]]
      BY <1>1, <1>2
<1>5. touched \subseteq names
      BY <1>2, <1>3, <1>4 DEF Files!Changed
<1>6. ASSUME NEW f \in names, f \in open[p] PROVE Files!Extended(f) /\ Len(disk'[f]) > 0 /\ disk'[f][Len(disk'[f])] = k
  <2>1. disk[f] \in Seq(Int) /\ disk'[f] = Append(disk[f], k)
        BY <1>1, <1>2, <1>3, <1>6
  <2>2. Len(disk'[f]) = Len(disk[f]) + 1 /\ disk'[f][Len(disk'[f])] = k
        BY <2>1
  <2>3. f.validate = inv(p).validate
        BY <1>6 DEF MayPut, print_start
  <2>4. inv(p).validate \/ disk[f] = << >> \/ LastRow(f) < k
        BY <1>6 DEF MayPut
  <2> QED
      BY <2>1, <2>2, <2>3, <2>4 DEF Files!Extended, holdsSample, LastRow
<1>7. ASSUME NEW f \in names, f \notin open[p] PROVE Files!Started(p, f) /\ disk'[f][Len(disk'[f])] = k
  <2>1. disk'[f] = <<k>>
        BY <1>2, <1>3, <1>7
  <2>2. f \notin DOMAIN disk \/ inv(p).force
        BY <1>7 DEF MayPut, InTheWay
  <2> QED
      BY <1>1, <2>1, <2>2 DEF Files!Started
<1>8. ASSUME NEW f \in names, NEW q \in Procs \ {p} PROVE f \notin open[q]
  <2> SUFFICES ASSUME f \in open[q] PROVE FALSE
      OBVIOUS
  <2>1. f \notin open[p] /\ f \in DOMAIN disk /\ pc[q] \in AtWork
        BY <1>1, <1>8 DEF TurnInv, OpenInv
  <2>2. ~ inv(p).force
        BY <1>8, <2>1, Apart DEF MayPut
  <2> QED
      BY <2>1, <2>2 DEF MayPut, InTheWay
<1> QED
    BY <1>1, <1>2, <1>4, <1>5, <1>6, <1>7, <1>8 DEF Files!Turn

\* The file to validate rows into is opened in a turn of its own.
LEMMA CreateTurn ==
    ASSUME ForcedApart, TurnInv, NEW p \in Procs, Running[p], open[p] = {}, NEW x, NEW f, f = print_start(x, inv(p)),
           ~ InTheWay(p, f), disk' = Create(p, f), open' = [open EXCEPT ![p] = {f}]
    PROVE  Files!Turn(p)
<1>1. p \in DOMAIN plan /\ open \in [Procs -> SUBSET DOMAIN disk]
      BY DEF TurnInv, FilesInv, RunsPlan, FilesHeld, Running
<1>2. /\ DOMAIN disk' = DOMAIN disk \cup {f}
      /\ \A g \in DOMAIN disk' : disk'[g] = IF g = f THEN << >> ELSE disk[g]
      BY DEF Create
<1>3. Files!Started(p, f)
      BY <1>1, <1>2 DEF Files!Started, InTheWay
<1>4. ASSUME NEW q \in Procs \ {p} PROVE f \notin open[q]
  <2> SUFFICES ASSUME f \in open[q] PROVE FALSE
      OBVIOUS
  <2>1. f \in DOMAIN disk /\ pc[q] \in AtWork
        BY <1>1, <1>4 DEF TurnInv, OpenInv
  <2>2. ~ inv(p).force
        BY <1>4, <2>1, Apart
  <2> QED
      BY <2>1, <2>2 DEF InTheWay
<1>5. open'[p] = {f} /\ open' = [open EXCEPT ![p] = open'[p]]
      BY <1>1
<1> QED
    BY <1>2, <1>3, <1>4, <1>5 DEF Files!Turn, Files!Changed

\* A step that leaves the files as they are and at most closes some.
LEMMA IdleTurn ==
    ASSUME TurnInv, NEW p \in Procs, disk' = disk, NEW held \in SUBSET open[p], open' = [open EXCEPT ![p] = held]
    PROVE  Files!Turn(p)
<1>1. open \in [Procs -> SUBSET DOMAIN disk]
      BY DEF TurnInv, FilesInv, FilesHeld
<1> QED
    BY <1>1 DEF Files!Turn, Files!Changed

\* The files of the days to delete are no table's; they are written and closed at once.
LEMMA DeleteTurn ==
    ASSUME TurnInv, NEW p \in Procs, p \in DOMAIN plan, open[p] = {}, NEW names \in SUBSET deleteFiles(inv(p)),
           \A f \in names : ~ InTheWay(p, f), NEW k \in Int, disk' = Put(p, names, k), open' = open
    PROVE  Files!Turn(p)
<1>1. open \in [Procs -> SUBSET DOMAIN disk]
      BY DEF TurnInv, FilesInv, FilesHeld
<1>2. /\ DOMAIN disk' = DOMAIN disk \cup names
      /\ \A f \in DOMAIN disk' : disk'[f] = IF f \in names THEN <<k>> ELSE disk[f]
      BY DEF Put
<1>3. ASSUME NEW f \in names PROVE Files!Started(p, f)
  <2>1. disk'[f] = <<k>>
        BY <1>2, <1>3
  <2>2. f \notin DOMAIN disk \/ inv(p).force
        BY <1>3 DEF InTheWay
  <2>3. Len(disk'[f]) <= 1
        BY <2>1
  <2>4. inv(p).force => p \in {q \in DOMAIN plan : inv(q).force}
        OBVIOUS
  <2> QED
      BY <2>2, <2>3, <2>4 DEF Files!Started
<1>4. ASSUME NEW f \in names, NEW q \in Procs PROVE f \notin open[q]
  <2>1. f.table \in {"delete", "inventory_delete"}
        BY <1>4 DEF deleteFiles, openDeleteFile
  <2>2. f.table \notin Tables
        BY <2>1 DEF Tables, Warehouse, Refresh, w_tdefs, s_tdefs
  <2>3. \A g \in open[q] : table[q] \in Tables /\ g.table \in Family(table[q])
        BY DEF TurnInv, OpenInv, print_close, print_start
  <2> QED
      BY <2>2, <2>3, FamilyInTables
<1>5. open' = [open EXCEPT ![p] = open'[p]] /\ open'[p] \subseteq DOMAIN disk'
      BY <1>1, <1>2
<1>6. \A f \in names : disk'[f] = <<k>> /\ disk'[f][Len(disk'[f])] = k
      BY <1>2
<1> QED
    BY <1>2, <1>3, <1>4, <1>5, <1>6 DEF Files!Turn, Files!Changed

\* A process goes on at a position and a table, with the files open that OpenInv lets it have.
LeavesWith(p, at, t, held) ==
    /\ IF at \in AtWork THEN t \in Tables /\ held \subseteq print_close(t, inv(p)) ELSE held = {}
    /\ at = "validate" => inv(p).validate
    /\ at = "rows" => \A f \in held : disk'[f] = << >> \/ LastRow(f)' < row'[p]
    /\ at \in AtWork \cup {"main"} => \A q \in inv(p).after \cap Procs : pc[q] \in Ended

\* After a turn of a process that leaves its files so, the files are as OpenInv says.
LEMMA AfterTurn ==
    ASSUME TurnInv, FilesInv', plan' = plan, NEW p \in Procs, pc[p] \notin Ended, Files!Turn(p),
           NEW at \in At, pc' = [pc EXCEPT ![p] = at],
           NEW t \in Tables \cup {NoTable}, table' = [table EXCEPT ![p] = t],
           NEW held, open' = [open EXCEPT ![p] = held], LeavesWith(p, at, t, held),
           \A q \in Procs \ {p} : row'[q] = row[q]
    PROVE  TurnInv' /\ Files!Next
<1> USE DEF TurnInv, LeavesWith
<1>1. /\ pc \in [Procs -> At] /\ open \in [Procs -> SUBSET DOMAIN disk]
      /\ table \in [Procs -> Tables \cup {NoTable}]
      BY DEF FilesInv, RunsPlan, FilesHeld, OpenInv, At
<1>2. \A q \in Procs \ {p} : pc'[q] = pc[q] /\ open'[q] = open[q] /\ table'[q] = table[q] /\ row'[q] = row[q]
      BY <1>1
<1>3. pc'[p] = at /\ open'[p] = held /\ table'[p] = t
      BY <1>1
<1>4. \A q \in Procs : inv(q)' = inv(q)
      BY DEF inv
<1>5. \A q \in Procs \ {p} : \A f \in open[q] : disk'[f] = disk[f] /\ f \notin open'[p] \ open[p]
      BY <1>1 DEF Files!Turn, Files!Changed
<1>6. \A q \in Procs \ {p} : held \cap open[q] = {}
      BY <1>3, <1>5 DEF OpenInv
<1>7. \A o \in Procs : pc[o] \in Ended => pc'[o] \in Ended
      BY <1>2
<1>8. ASSUME NEW q \in Procs
      PROVE  /\ IF pc'[q] \in AtWork
                 THEN table'[q] \in Tables /\ open'[q] \subseteq print_close(table'[q], inv(q))
                 ELSE open'[q] = {}
             /\ pc'[q] = "validate" => inv(q).validate
             /\ pc'[q] = "rows" => \A f \in open'[q] : disk'[f] = << >> \/ LastRow(f)' < row'[q]
      BY <1>2, <1>3, <1>5 DEF OpenInv, LastRow
<1>9. ASSUME NEW q \in Procs, Running'[q]
      PROVE  \A o \in inv(q).after \cap Procs : pc'[o] \in Ended
  <2>1. \A o \in inv(q).after \cap Procs : pc[o] \in Ended
    <3>1. CASE q = p
      <4>1. at \in AtWork \cup {"main"}
            BY <1>3, <1>9, <3>1 DEF Running, At, AtWork, Ended
      <4> QED
          BY <3>1, <4>1
    <3>2. CASE q # p
          BY <1>2, <1>9, <3>2 DEF Running, OpenInv
    <3> QED
        BY <3>1, <3>2
  <2> QED
      BY <1>7, <2>1
<1>10. \A q, o \in Procs : q # o => open'[q] \cap open'[o] = {}
  <2>1. \A q, o \in Procs \ {p} : q # o => open'[q] \cap open'[o] = {}
        BY <1>2 DEF OpenInv
  <2>2. \A q \in Procs \ {p} : open'[p] \cap open'[q] = {}
        BY <1>2, <1>3, <1>6
  <2> QED
      BY <2>1, <2>2
<1>11. OpenInv'
  <2>1. table' \in [Procs -> Tables \cup {NoTable}]
        BY <1>1
  <2> QED
      BY <1>4, <1>8, <1>9, <1>10, <2>1 DEF OpenInv
<1>12. Files!Next
      BY DEF Files!Next, inv
<1> QED
    BY <1>11, <1>12

\* A step of a process that has no file open, and does not build rows after it.
LEMMA AfterQuietTurn ==
    ASSUME TurnInv, FilesInv', UNCHANGED <<plan, table, row, open>>, NEW p \in Procs, pc[p] \in {"idle", "main"},
           Files!Turn(p), NEW at \in Ended \cup {"main"}, pc' = [pc EXCEPT ![p] = at],
           at = "main" => \A q \in inv(p).after \cap Procs : pc[q] \in Ended
    PROVE  TurnInv' /\ Files!Next
<1>1. /\ open[p] = {} /\ open \in [Procs -> SUBSET DOMAIN disk]
      /\ table \in [Procs -> Tables \cup {NoTable}]
      BY DEF TurnInv, OpenInv, FilesInv, FilesHeld, AtWork
<1>2. pc[p] \notin Ended /\ at \in At /\ at \notin AtWork /\ at \notin {"rows", "validate"}
      BY DEF Ended, At, AtWork
<1>3. /\ open' = [open EXCEPT ![p] = {}] /\ table' = [table EXCEPT ![p] = table[p]]
      /\ table[p] \in Tables \cup {NoTable}
      BY <1>1
<1>4. LeavesWith(p, at, table[p], {})
      BY <1>2 DEF LeavesWith
<1>5. \A q \in Procs \ {p} : row'[q] = row[q]
      OBVIOUS
<1> QED
    BY <1>2, <1>3, <1>4, <1>5, AfterTurn

\* Every step of a process writes to its files as DataSet lets it.
LEMMA TurnNext ==
    ASSUME ForcedApart, TurnInv, [Next]_vars
    PROVE  TurnInv' /\ [Files!Next]_(Files!vars)
<1>1. FilesInv'
      BY FilesNext DEF TurnInv
<1>2. /\ open \in [Procs -> SUBSET DOMAIN disk] /\ table \in [Procs -> Tables \cup {NoTable}]
      /\ row \in [Procs -> Int] /\ pc \in [Procs -> At]
      BY DEF TurnInv, OpenInv, FilesInv, FilesHeld, RunsPlan, At
<1>3. \A p \in Procs : pc[p] \in {"idle", "main"} => open[p] = {}
      BY DEF TurnInv, OpenInv, AtWork
<1>4. \A p \in Procs : Running[p] => \A q \in inv(p).after \cap Procs : pc[q] \in Ended
      BY DEF TurnInv, OpenInv
<1>5. \A p \in Procs : pc[p] \in AtWork => table[p] \in Tables /\ open[p] \subseteq print_close(table[p], inv(p))
      BY DEF TurnInv, OpenInv
<1>6. ASSUME NEW p \in Procs, validate_options(p) \/ NamedChild(p) \/ ValidationInTheWay(p) \/ Finish(p)
      PROVE  TurnInv' /\ Files!Next
  <2>1. pc[p] \in {"idle", "main"}
        BY <1>6 DEF validate_options, NamedChild, ValidationInTheWay, Finish, AtTable
  <2>2. UNCHANGED <<plan, table, row, disk, open>> /\ \E at \in {"refused", "done"} : pc' = [pc EXCEPT ![p] = at]
        BY <1>6 DEF validate_options, NamedChild, ValidationInTheWay, Finish, walk, values, files
  <2>3. open' = [open EXCEPT ![p] = open[p]]
        BY <1>2, <2>2
  <2>4. Files!Turn(p)
        BY <2>2, <2>3, IdleTurn
  <2> QED
      BY <1>1, <2>1, <2>2, <2>4, AfterQuietTurn DEF Ended
<1>7. ASSUME NEW p \in Procs, Begin(p) \/ DeleteFilesInTheWay(p)
      PROVE  TurnInv' /\ Files!Next
  <2>1. pc[p] = "idle" /\ p \in DOMAIN plan /\ \A q \in inv(p).after \cap Procs : pc[q] \in Ended
        BY <1>7 DEF Begin, DeleteFilesInTheWay, TurnInv, FilesInv, RunsPlan, Ended
  <2>2. UNCHANGED <<plan, table, row, open>> /\ \E at \in {"main", "refused"} : pc' = [pc EXCEPT ![p] = at]
        BY <1>7 DEF Begin, DeleteFilesInTheWay, walk, values
  <2>3. Files!Turn(p)
    <3>1. CASE disk' = disk
      <4>1. open' = [open EXCEPT ![p] = open[p]]
            BY <1>2, <2>2
      <4> QED
          BY <3>1, <4>1, IdleTurn
    <3>2. ASSUME NEW names \in SUBSET deleteFiles(inv(p)), \A f \in names : ~ InTheWay(p, f), NEW k \in Int,
                 disk' = Put(p, names, k)
          PROVE  Files!Turn(p)
          BY <1>3, <2>1, <2>2, <3>2, DeleteTurn
    <3>3. CASE Begin(p)
          BY <3>2, <3>3 DEF Begin
    <3>4. CASE DeleteFilesInTheWay(p)
      <4>1. openDeleteFile("delete", inv(p)) \in deleteFiles(inv(p))
            BY <3>4 DEF DeleteFilesInTheWay, deleteFiles
      <4> QED
          BY <3>1, <3>2, <3>4, <4>1 DEF DeleteFilesInTheWay
    <3> QED
        BY <1>7, <3>3, <3>4
  <2> QED
      BY <1>1, <2>1, <2>2, <2>3, AfterQuietTurn DEF Ended
<1>8. ASSUME NEW p \in Procs, StartTable(p)
      PROVE  TurnInv' /\ Files!Next
  <2>1. pc[p] = "main" /\ UNCHANGED <<plan, disk, open>> /\ pc' = [pc EXCEPT ![p] = "rows"]
        BY <1>8 DEF StartTable, AtTable, files
  <2>2. PICK t \in Tables : table' = [table EXCEPT ![p] = t]
        BY <1>8 DEF StartTable
  <2>3. \A q \in Procs \ {p} : row'[q] = row[q]
        BY <1>2, <1>8 DEF StartTable
  <2>4. open' = [open EXCEPT ![p] = {}] /\ {} \in SUBSET open[p]
        BY <1>2, <1>3, <2>1
  <2>5. Files!Turn(p)
        BY <2>1, <2>4, IdleTurn
  <2>6. pc[p] \notin Ended /\ Running[p] /\ "rows" \in At
        BY <2>1 DEF Ended, Running, At
  <2>7. LeavesWith(p, "rows", t, {})
        BY <1>4, <2>6 DEF LeavesWith, AtWork
  <2> QED
      BY <1>1, <2>1, <2>2, <2>3, <2>4, <2>5, <2>6, <2>7, AfterTurn
<1>9. ASSUME NEW p \in Procs, StartValidation(p)
      PROVE  TurnInv' /\ Files!Next
  <2>1. PICK t \in Tables : /\ ~ InTheWay(p, print_start(t, inv(p)))
                            /\ disk' = Create(p, print_start(t, inv(p)))
                            /\ open' = [open EXCEPT ![p] = @ \cup {print_start(t, inv(p))}]
                            /\ table' = [table EXCEPT ![p] = t]
        BY <1>9 DEF StartValidation
  <2>2. pc[p] = "main" /\ inv(p).validate /\ UNCHANGED <<plan, row>> /\ pc' = [pc EXCEPT ![p] = "validate"]
        BY <1>9 DEF StartValidation, AtTable
  <2>3. open[p] = {} /\ open' = [open EXCEPT ![p] = {print_start(t, inv(p))}]
        BY <1>2, <1>3, <2>1, <2>2
  <2>4. pc[p] \notin Ended /\ Running[p] /\ "validate" \in At
        BY <2>2 DEF Ended, Running, At
  <2>5. Files!Turn(p)
        BY <2>1, <2>3, <2>4, CreateTurn
  <2>6. {print_start(t, inv(p))} \subseteq print_close(t, inv(p))
        BY DEF print_close, Family
  <2>7. LeavesWith(p, "validate", t, {print_start(t, inv(p))})
        BY <1>4, <2>2, <2>4, <2>6 DEF LeavesWith, AtWork
  <2> QED
      BY <1>1, <2>1, <2>2, <2>3, <2>4, <2>5, <2>7, AfterTurn
<1>10. ASSUME NEW p \in Procs, BuildRow(p) \/ ValidateRow(p)
       PROVE  TurnInv' /\ Files!Next
  <2>1. pc[p] \in AtWork /\ UNCHANGED <<plan, pc, table>>
        BY <1>10 DEF BuildRow, ValidateRow, Write, AtWork
  <2>2. PICK k \in Int : /\ \A f \in filesOf(p, k) : ~ InTheWay(p, f)
                         /\ disk' = Put(p, filesOf(p, k), k)
                         /\ open' = [open EXCEPT ![p] = @ \cup filesOf(p, k)]
                         /\ BuildRow(p) => k = row[p] /\ row' = [row EXCEPT ![p] = @ + 1]
                         /\ ValidateRow(p) => row' = row
    <3>1. CASE BuildRow(p)
      <4>1. row[p] \in Int /\ ~ ValidateRow(p)
            BY <1>2, <3>1 DEF BuildRow, ValidateRow
      <4> QED
          BY <3>1, <4>1 DEF BuildRow, Write
    <3>2. CASE ValidateRow(p)
      <4>1. ~ BuildRow(p) /\ \A t : 1 .. get_rowcount(t) \subseteq Int
            BY <3>2 DEF BuildRow, ValidateRow
      <4> QED
          BY <3>2, <4>1 DEF ValidateRow, Write
    <3> QED
        BY <1>10, <3>1, <3>2
  <2> DEFINE names == filesOf(p, k)
  <2>3. names \subseteq print_close(table[p], inv(p))
        BY <1>5, <2>1, WrittenInFamily DEF filesOf, print_close
  <2>4. \A f \in names : \E x : f = print_start(x, inv(p))
        BY DEF filesOf
  <2>5. \A f \in names \cap open[p] : inv(p).validate \/ disk[f] = << >> \/ LastRow(f) < k
    <3>1. CASE BuildRow(p)
      <4>1. pc[p] = "rows" /\ k = row[p]
            BY <2>2, <3>1 DEF BuildRow
      <4> QED
          BY <4>1 DEF TurnInv, OpenInv
    <3>2. CASE ValidateRow(p)
      <4>1. pc[p] = "validate"
            BY <3>2 DEF ValidateRow
      <4> QED
          BY <4>1 DEF TurnInv, OpenInv
    <3> QED
        BY <1>10, <3>1, <3>2
  <2>6. pc[p] \notin Ended /\ Running[p] /\ pc[p] \in At
        BY <2>1 DEF AtWork, Ended, Running, At
  <2>7. MayPut(p, names, k)
        BY <2>2, <2>4, <2>5 DEF MayPut
  <2>8. open' = [open EXCEPT ![p] = open[p] \cup names]
        BY <2>2
  <2>16. disk' = Put(p, names, k)
        BY <2>2
  <2> HIDE DEF names
  <2>9. Files!Turn(p)
        BY <2>6, <2>7, <2>8, <2>16, PutTurn
  <2>10. pc[p] = "rows" => \A f \in open[p] \cup names : disk'[f] = << >> \/ LastRow(f)' < row'[p]
    <3> SUFFICES ASSUME pc[p] = "rows", NEW f \in open[p] \cup names
                 PROVE  disk'[f] = << >> \/ LastRow(f)' < row'[p]
        OBVIOUS
    <3>1. k = row[p] /\ row'[p] = k + 1
          BY <1>2, <1>10, <2>2 DEF ValidateRow
    <3>2. CASE f \notin names
      <4>1. disk'[f] = disk[f] /\ (disk[f] = << >> \/ LastRow(f) < row[p])
            BY <1>2, <2>2, <3>2 DEF names, Put, TurnInv, OpenInv
      <4>2. LastRow(f)' = LastRow(f)
            BY <4>1 DEF LastRow
      <4>3. disk[f] # << >> => LastRow(f) \in Int
        <5>1. disk[f] \in Seq(Int)
              BY <1>2, <3>2 DEF TurnInv, FilesInv, FilesHeld
        <5> QED
            BY <5>1 DEF LastRow
      <4> QED
          BY <1>2, <3>1, <4>1, <4>2, <4>3
    <3>3. CASE f \in names
      <4>1. disk'[f] = IF f \in open[p] THEN Append(disk[f], k) ELSE <<k>>
            BY <2>2, <3>3 DEF names, Put
      <4>2. f \in open[p] => disk[f] \in Seq(Int)
            BY <1>2 DEF TurnInv, FilesInv, FilesHeld
      <4>3. LastRow(f)' = k
            BY <4>1, <4>2 DEF LastRow
      <4> QED
          BY <3>1, <4>3
    <3> QED
        BY <3>2, <3>3
  <2>11. pc' = [pc EXCEPT ![p] = pc[p]] /\ table' = [table EXCEPT ![p] = table[p]]
         BY <1>2, <2>1
  <2>12. \A q \in Procs \ {p} : row'[q] = row[q]
         BY <1>2, <1>10, <2>2
  <2>13. pc[p] = "validate" => inv(p).validate
         BY DEF TurnInv, OpenInv
  <2>14. table[p] \in Tables /\ open[p] \cup names \subseteq print_close(table[p], inv(p))
         BY <1>5, <2>1, <2>3 DEF names
  <2>15. LeavesWith(p, pc[p], table[p], open[p] \cup names)
         BY <1>4, <2>1, <2>6, <2>10, <2>13, <2>14 DEF LeavesWith
  <2> QED
      BY <1>1, <2>1, <2>6, <2>8, <2>9, <2>11, <2>12, <2>14, <2>15, AfterTurn
<1>11. ASSUME NEW p \in Procs, FileInTheWay(p) \/ Kill(p)
       PROVE  TurnInv' /\ Files!Next
  <2>1. /\ UNCHANGED <<plan, table, row>> /\ open' = [open EXCEPT ![p] = {}] /\ Running[p]
        /\ \E at \in {"refused", "killed"} : pc' = [pc EXCEPT ![p] = at]
        BY <1>11 DEF FileInTheWay, Kill, walk, values, Running, Ended
  <2>2. PICK part \in partOfRow(p) : disk' = Put(p, part, row[p])
        BY <1>11 DEF FileInTheWay, Kill
  <2>3. MayPut(p, part, row[p])
    <3>1. CASE part = {}
          BY <3>1 DEF MayPut
    <3>2. CASE part # {}
      <4>1. pc[p] = "rows" /\ part \subseteq {f \in filesOf(p, row[p]) : ~ InTheWay(p, f)}
            BY <3>2 DEF partOfRow
      <4>2. \A f \in open[p] : disk[f] = << >> \/ LastRow(f) < row[p]
            BY <4>1 DEF TurnInv, OpenInv
      <4> QED
          BY <4>1, <4>2 DEF MayPut, filesOf
    <3> QED
        BY <3>1, <3>2
  <2>4. row[p] \in Int
        BY <1>2
  <2>5. Files!Turn(p)
        BY <2>1, <2>2, <2>3, <2>4, PutTurn
  <2>6. PICK at \in {"refused", "killed"} : pc' = [pc EXCEPT ![p] = at]
        BY <2>1
  <2>7. at \in At /\ at \notin AtWork \cup {"main"} /\ pc[p] \notin Ended
        BY <2>1, <2>6 DEF At, Ended, AtWork, Running
  <2>8. table[p] \in Tables \cup {NoTable} /\ table' = [table EXCEPT ![p] = table[p]]
        BY <1>2, <2>1
  <2>9. LeavesWith(p, at, table[p], {})
        BY <2>7 DEF LeavesWith, AtWork
  <2> QED
      BY <1>1, <2>1, <2>5, <2>6, <2>7, <2>8, <2>9, AfterTurn
<1>12. ASSUME NEW p \in Procs, CloseTable(p)
       PROVE  TurnInv' /\ Files!Next
  <2>1. /\ UNCHANGED <<plan, table, row, disk>> /\ pc' = [pc EXCEPT ![p] = "main"] /\ pc[p] \in AtWork
        /\ open' = [open EXCEPT ![p] = @ \ print_close(table[p], inv(p))]
        BY <1>12 DEF CloseTable, walk, values, AtWork
  <2>2. open' = [open EXCEPT ![p] = {}]
        BY <1>2, <1>5, <2>1
  <2>3. Files!Turn(p)
        BY <2>1, <2>2, IdleTurn
  <2>4. pc[p] \notin Ended /\ Running[p] /\ "main" \in At
        BY <2>1 DEF Ended, Running, At, AtWork
  <2>5. table[p] \in Tables \cup {NoTable} /\ table' = [table EXCEPT ![p] = table[p]]
        BY <1>2, <2>1
  <2>6. LeavesWith(p, "main", table[p], {})
        BY <1>4, <2>4 DEF LeavesWith, AtWork
  <2> QED
      BY <1>1, <2>1, <2>2, <2>3, <2>4, <2>5, <2>6, AfterTurn
<1>13. CASE UNCHANGED vars
  <2>1. UNCHANGED <<plan, pc, table, row, disk, open>>
        BY <1>13 DEF vars, walk, values, files
  <2>2. OpenInv'
        BY <2>1 DEF TurnInv, OpenInv, LastRow, Running, inv
  <2> QED
      BY <1>1, <2>1, <2>2 DEF TurnInv, Files!vars, inv
<1> QED
    BY <1>6, <1>7, <1>8, <1>9, <1>10, <1>11, <1>12, <1>13 DEF Next, main, AllEnded

\* The processes write files the way DataSet lets them, for every plan that keeps forced
\* processes apart: one writer, rows in order, nothing replaced without FORCE.
THEOREM FilesImplementDataSet == ASSUME ForcedApart PROVE Spec => ImplementsDataSet
<1>1. Init => Files!Init
      BY PlansAssumption DEF Init, Files!Init
<1>2. TurnInv /\ [Next]_vars => TurnInv' /\ [Files!Next]_(Files!vars)
      BY TurnNext
<1> QED
    BY <1>1, <1>2, TurnInit, PTL DEF Spec, ImplementsDataSet, Files!Spec

(***************************************************************************)
(* The walk over the tables.                                               *)
(***************************************************************************)
share(p, t) == split_work(get_rowcount(t), parallelism(p), inv(p).child)

\* Table u comes after table t.
Before(p, t, u) == \E i, j \in DOMAIN order(p) : i < j /\ t = order(p)[i] /\ u = order(p)[j]

\* A process is at a table it has been asked for, and those it has not come to are after it.
Building(p) ==
    /\ table[p] \in (builders \cap tablesOf(p)) \ todo[p]
    /\ \A u \in todo[p] : Before(p, table[p], u)
    /\ inv(p).validate = (pc[p] = "validate")

\* It is at a row of its share, and builds the rest of it.
InShare(p) ==
    LET work == share(p, table[p])
    IN  row[p] \in work.first .. (work.first + work.count) /\ left[p] = work.first + work.count - row[p]

WalkInv ==
    /\ todo \in [Procs -> SUBSET Tables] /\ left \in [Procs -> Int] /\ row \in [Procs -> Int]
    /\ table \in [Procs -> Tables \cup {NoTable}]
    /\ \A p \in Procs : \A t \in todo[p] : t \in tablesOf(p)
    /\ \A p \in Procs : pc[p] \in {"main"} \cup AtWork => ~ usage(p)
    /\ \A p \in Procs : pc[p] \in AtWork => Building(p)
    /\ \A p \in Procs : pc[p] = "rows" => InShare(p)

\* What a share is, for every number of children.
LEMMA Shares ==
    ASSUME NEW total \in Nat \ {0}, NEW n \in Nat \ {0}, NEW c \in Nat \ {0}
    PROVE  LET work == split_work(total, n, c)
           IN  /\ work.first \in Nat \ {0} /\ work.count \in Nat
               /\ c = 1 => work.first = 1
               /\ c > 1 /\ work.first = 1 => work.count = 0
<1> DEFINE size  == total \div n
           extra == total % n
           least(a, b) == IF a < b THEN a ELSE b
           work == split_work(total, n, c)
<1>1. size \in Nat /\ extra \in 0 .. (n - 1) /\ total = n * size + extra
      BY QuotientRemainder
<1> HIDE DEF size, extra
<1>2. (c - 1) * size \in Nat /\ (c > 1 /\ size > 0 => (c - 1) * size > 0)
      BY <1>1
<1>3. size > 0 \/ extra > 0
  <2>1. size = 0 => n * size = 0
        BY <1>1
  <2> QED
      BY <1>1, <2>1
<1>4. /\ Chunk(total, n, c).first = 1 + (c - 1) * size + least(c - 1, extra)
      /\ Chunk(total, n, c).count = size + (IF c <= extra THEN 1 ELSE 0)
      BY DEF Chunk, size, extra
<1>5. CASE total < Threshold
      BY <1>5, ScalingAssumption DEF split_work
<1>6. CASE ~ (total < Threshold)
  <2>1. work = Chunk(total, n, c)
        BY <1>6 DEF split_work
  <2> HIDE DEF work
  <2> QED
      BY <1>1, <1>2, <1>3, <1>4, <2>1 DEF work
<1> QED
    BY <1>5, <1>6

\* What the share of a process that runs is.
LEMMA ShareOf ==
    ASSUME FilesInv, NEW p \in Procs, pc[p] \notin Ended, ~ usage(p), NEW t \in Tables
    PROVE  /\ share(p, t).first \in Nat \ {0} /\ share(p, t).count \in Nat
           /\ inv(p).child \in Nat \ {0} /\ parallelism(p) \in Nat \ {0}
           /\ inv(p).child = 1 => share(p, t).first = 1
           /\ inv(p).child > 1 /\ share(p, t).first = 1 => share(p, t).count = 0
<1>1. inv(p) \in CommandLine /\ (inv(p).parallel = 0 => inv(p).child = 1)
      BY PlansAssumption DEF FilesInv, RunsPlan, inv
<1>2. inv(p).child \in Nat \ {0} /\ parallelism(p) \in Nat \ {0}
      BY <1>1 DEF CommandLine, usage, parallelism
<1>3. get_rowcount(t) \in Nat \ {0}
      BY ScalingAssumption DEF get_rowcount
<1> HIDE DEF get_rowcount
<1> QED
    BY <1>2, <1>3, Shares DEF share

LEMMA WalkInit == Init => WalkInv
BY DEF Init, WalkInv, AtWork, Ended

\* A step that does not start a table, and builds no row.
LEMMA QuietWalk ==
    ASSUME FilesInv, WalkInv, UNCHANGED <<plan, todo, table, row, left>>, NEW p \in Procs,
           NEW at \in Ended \cup {"main"}, pc' = [pc EXCEPT ![p] = at], at = "main" => ~ usage(p)
    PROVE  WalkInv'
<1>1. \A q \in Procs : pc'[q] \in AtWork => pc'[q] = pc[q]
      BY DEF FilesInv, RunsPlan, AtWork, Ended
<1>2. \A q \in Procs : pc'[q] \in {"main"} \cup AtWork => ~ usage(q)
      BY DEF FilesInv, RunsPlan, AtWork, Ended, WalkInv
<1>3. \A q \in Procs : tablesOf(q)' = tablesOf(q) /\ usage(q)' = usage(q)
      BY DEF tablesOf, order, inv, usage
<1>4. \A q \in Procs : pc'[q] \in AtWork => Building(q)'
      BY <1>1, <1>3 DEF WalkInv, Building, Before, order, inv
<1>5. \A q \in Procs : pc'[q] = "rows" => InShare(q)'
      BY <1>1 DEF WalkInv, InShare, share, parallelism, inv, AtWork
<1> QED
    BY <1>2, <1>3, <1>4, <1>5 DEF WalkInv

\* The first table that is left is before the others.
LEMMA FirstBefore ==
    ASSUME WalkInv, NEW p \in Procs, NEW t, AtTable(p, t)
    PROVE  \A u \in todo[p] \ {t} : Before(p, t, u)
<1> SUFFICES ASSUME NEW u \in todo[p] \ {t} PROVE Before(p, t, u)
    OBVIOUS
<1>1. PICK i \in DOMAIN order(p) : t = order(p)[i] /\ \A j \in 1 .. (i - 1) : order(p)[j] \notin todo[p]
      BY DEF AtTable
<1>2. PICK j \in DOMAIN order(p) : u = order(p)[j]
      BY DEF WalkInv, tablesOf, ToSet
<1>3. DOMAIN order(p) \subseteq Nat \ {0}
      BY DEF order, warehouseOrder, refreshOrder
<1>4. i < j
      BY <1>1, <1>2, <1>3
<1> QED
    BY <1>1, <1>2, <1>4 DEF Before

\* A process comes to a table that is not built with another one.
LEMMA StartsTable ==
    ASSUME FilesInv, WalkInv, NEW p \in Procs, NEW t \in Tables, AtTable(p, t), ~ IsFlagSet(t, "CHILD"),
           UNCHANGED plan, NEW at \in AtWork, pc' = [pc EXCEPT ![p] = at], inv(p).validate = (at = "validate"),
           todo' = [todo EXCEPT ![p] = @ \ {t}], table' = [table EXCEPT ![p] = t],
           left' \in [Procs -> Int], row' \in [Procs -> Int],
           \A q \in Procs \ {p} : left'[q] = left[q] /\ row'[q] = row[q],
           at = "rows" => row'[p] = share(p, t).first /\ left'[p] = share(p, t).count
    PROVE  WalkInv'
<1>1. /\ todo \in [Procs -> SUBSET Tables] /\ table \in [Procs -> Tables \cup {NoTable}]
      /\ pc \in [Procs -> At]
      BY DEF WalkInv, FilesInv, RunsPlan, At
<1>2. \A q \in Procs \ {p} : pc'[q] = pc[q] /\ table'[q] = table[q] /\ todo'[q] = todo[q]
      BY <1>1
<1>3. pc'[p] = at /\ table'[p] = t /\ todo'[p] = todo[p] \ {t}
      BY <1>1
<1>4. /\ \A q \in Procs : tablesOf(q)' = tablesOf(q) /\ inv(q)' = inv(q) /\ usage(q)' = usage(q)
      /\ \A q \in Procs : \A u, v : Before(q, u, v)' = Before(q, u, v)
      /\ \A q \in Procs : \A u : share(q, u)' = share(q, u)
      BY DEF tablesOf, order, inv, usage, Before, share, parallelism
<1>5. Building(p)'
  <2>1. t \in (builders \cap tablesOf(p)) \ (todo[p] \ {t})
        BY DEF WalkInv, AtTable, builders
  <2> QED
      BY <1>3, <1>4, <2>1, FirstBefore DEF Building
<1>6. pc[p] = "main" /\ pc[p] \notin Ended
      BY DEF AtTable, Ended
<1>7. at = "rows" => InShare(p)'
  <2>1. share(p, t).first \in Nat \ {0} /\ share(p, t).count \in Nat
        BY <1>6, ShareOf DEF WalkInv
  <2>2. share(p, table[p])' = share(p, t)
        BY <1>3, <1>4
  <2> HIDE DEF share
  <2> QED
      BY <2>1, <2>2 DEF InShare
<1>8. ASSUME NEW q \in Procs
      PROVE  /\ pc'[q] \in {"main"} \cup AtWork => ~ usage(q)
             /\ pc'[q] \in AtWork => Building(q)'
             /\ pc'[q] = "rows" => InShare(q)'
             /\ todo'[q] \subseteq tablesOf(q)
  <2>1. CASE q = p
        BY <1>3, <1>5, <1>6, <1>7, <2>1 DEF WalkInv
  <2>2. CASE q # p
        BY <1>2, <1>4, <2>2 DEF WalkInv, Building, InShare, AtWork
  <2> QED
      BY <2>1, <2>2
<1> QED
    BY <1>1, <1>4, <1>8 DEF WalkInv

\* A process is asked for tables.
LEMMA AskedTables == \A p : tablesOf(p) \subseteq Tables
<1>1. ToSet(warehouseOrder) \subseteq Tables /\ ToSet(refreshOrder) \subseteq Tables
      BY DEF ToSet, warehouseOrder, refreshOrder, Tables, Warehouse, Refresh, w_tdefs, s_tdefs
<1> QED
    BY <1>1 DEF tablesOf, order

LEMMA WalkNext == FilesInv /\ WalkInv /\ [Next]_vars => WalkInv'
<1> SUFFICES ASSUME FilesInv, WalkInv, [Next]_vars PROVE WalkInv'
    OBVIOUS
<1>1. /\ todo \in [Procs -> SUBSET Tables] /\ left \in [Procs -> Int] /\ row \in [Procs -> Int]
      /\ table \in [Procs -> Tables \cup {NoTable}] /\ pc \in [Procs -> At]
      BY DEF WalkInv, FilesInv, RunsPlan, At
<1>2. ASSUME NEW p \in Procs,
             \/ validate_options(p) \/ DeleteFilesInTheWay(p) \/ NamedChild(p) \/ ValidationInTheWay(p)
             \/ FileInTheWay(p) \/ CloseTable(p) \/ Finish(p) \/ Kill(p)
      PROVE  WalkInv'
  <2>1. UNCHANGED <<plan, todo, table, row, left>>
        BY <1>2 DEF validate_options, DeleteFilesInTheWay, NamedChild, ValidationInTheWay, FileInTheWay,
                    CloseTable, Finish, Kill, walk, values, files
  <2>2. CASE CloseTable(p)
    <3>1. ~ usage(p) /\ pc' = [pc EXCEPT ![p] = "main"]
          BY <2>2 DEF CloseTable, WalkInv, AtWork
    <3> QED
        BY <2>1, <3>1, QuietWalk
  <2>3. CASE ~ CloseTable(p)
    <3>1. PICK at \in Ended : pc' = [pc EXCEPT ![p] = at]
          BY <1>2, <2>3 DEF validate_options, DeleteFilesInTheWay, NamedChild, ValidationInTheWay, FileInTheWay,
                            Finish, Kill, Ended
    <3>2. at # "main"
          BY DEF Ended
    <3> QED
        BY <2>1, <3>1, <3>2, QuietWalk
  <2> QED
      BY <2>2, <2>3
<1>3. ASSUME NEW p \in Procs, Begin(p) PROVE WalkInv'
  <2>1. /\ UNCHANGED <<plan, table, row, left>> /\ todo' = [todo EXCEPT ![p] = tablesOf(p)]
        /\ pc' = [pc EXCEPT ![p] = "main"] /\ ~ usage(p)
        BY <1>3 DEF Begin
  <2>2. tablesOf(p) \subseteq Tables
        BY AskedTables
  <2>3. /\ \A q \in Procs : tablesOf(q)' = tablesOf(q) /\ usage(q)' = usage(q)
        BY <2>1 DEF tablesOf, order, inv, usage
  <2>4. \A q \in Procs \ {p} : pc'[q] = pc[q] /\ todo'[q] = todo[q]
        BY <1>1, <2>1
  <2>5. pc'[p] = "main" /\ todo'[p] = tablesOf(p)
        BY <1>1, <2>1
  <2>6. \A q \in Procs \ {p} : pc[q] \in AtWork => Building(q)'
        BY <2>1, <2>3, <2>4 DEF WalkInv, Building, Before, order, inv
  <2>7. \A q \in Procs \ {p} : pc[q] = "rows" => InShare(q)'
        BY <2>1, <2>4 DEF WalkInv, InShare, share, parallelism, inv
  <2>8. todo' \in [Procs -> SUBSET Tables]
        BY <1>1, <2>1, <2>2
  <2>9. \A q \in Procs : todo'[q] \subseteq tablesOf(q)'
        BY <2>3, <2>4, <2>5 DEF WalkInv
  <2>10. \A q \in Procs : pc'[q] \in {"main"} \cup AtWork => ~ usage(q)'
         BY <2>1, <2>3, <2>4 DEF WalkInv
  <2>11. \A q \in Procs : pc'[q] \in AtWork => q # p /\ pc[q] \in AtWork
         BY <2>4, <2>5 DEF AtWork
  <2>12. \A q \in Procs : pc'[q] = "rows" => q # p /\ pc[q] = "rows"
         BY <2>4, <2>5
  <2> QED
      BY <1>1, <2>1, <2>6, <2>7, <2>8, <2>9, <2>10, <2>11, <2>12 DEF WalkInv
<1>4. ASSUME NEW p \in Procs, StartTable(p) PROVE WalkInv'
  <2>1. PICK t \in Tables :
            /\ AtTable(p, t) /\ ~ IsFlagSet(t, "CHILD") /\ ~ inv(p).validate
            /\ pc' = [pc EXCEPT ![p] = "rows"] /\ todo' = [todo EXCEPT ![p] = @ \ {t}]
            /\ table' = [table EXCEPT ![p] = t] /\ row' = [row EXCEPT ![p] = share(p, t).first]
            /\ left' = [left EXCEPT ![p] = share(p, t).count] /\ UNCHANGED plan
        BY <1>4 DEF StartTable, share, parallelism
  <2>2. pc[p] = "main" /\ pc[p] \notin Ended /\ ~ usage(p)
        BY <2>1 DEF AtTable, Ended, WalkInv
  <2>3. share(p, t).first \in Int /\ share(p, t).count \in Int
        BY <2>2, ShareOf
  <2> HIDE DEF share
  <2>4. /\ left' \in [Procs -> Int] /\ row' \in [Procs -> Int]
        /\ \A q \in Procs \ {p} : left'[q] = left[q] /\ row'[q] = row[q]
        /\ row'[p] = share(p, t).first /\ left'[p] = share(p, t).count
        BY <1>1, <2>1, <2>3
  <2>5. "rows" \in AtWork /\ inv(p).validate = ("rows" = "validate")
        BY <2>1, <2>2, PlansAssumption DEF AtWork, FilesInv, RunsPlan, CommandLine, inv
  <2> QED
      BY <2>1, <2>4, <2>5, StartsTable
<1>5. ASSUME NEW p \in Procs, StartValidation(p) PROVE WalkInv'
  <2>1. PICK t \in Tables :
            /\ AtTable(p, t) /\ ~ IsFlagSet(t, "CHILD") /\ inv(p).validate
            /\ pc' = [pc EXCEPT ![p] = "validate"] /\ todo' = [todo EXCEPT ![p] = @ \ {t}]
            /\ table' = [table EXCEPT ![p] = t] /\ UNCHANGED <<plan, row>>
            /\ left' = [left EXCEPT ![p] = IF VCOUNT > get_rowcount(t) THEN get_rowcount(t) ELSE VCOUNT]
        BY <1>5 DEF StartValidation
  <2>2. (IF VCOUNT > get_rowcount(t) THEN get_rowcount(t) ELSE VCOUNT) \in Int
        BY PlansAssumption, ScalingAssumption DEF get_rowcount
  <2>3. /\ left' \in [Procs -> Int] /\ row' \in [Procs -> Int]
        /\ \A q \in Procs \ {p} : left'[q] = left[q] /\ row'[q] = row[q]
        BY <1>1, <2>1, <2>2
  <2>4. "validate" \in AtWork /\ "validate" # "rows" /\ inv(p).validate = ("validate" = "validate")
    <3>1. inv(p).validate \in BOOLEAN
          BY <2>1, PlansAssumption DEF AtTable, Ended, FilesInv, RunsPlan, CommandLine, inv
    <3> QED
        BY <2>1, <3>1 DEF AtWork
  <2> QED
      BY <2>1, <2>3, <2>4, StartsTable
<1>6. ASSUME NEW p \in Procs, BuildRow(p) \/ ValidateRow(p) PROVE WalkInv'
  <2>1. UNCHANGED <<plan, pc, todo, table>> /\ left' = [left EXCEPT ![p] = left[p] - 1]
        BY <1>6 DEF BuildRow, ValidateRow, Write
  <2>2. /\ BuildRow(p) => row' = [row EXCEPT ![p] = row[p] + 1] /\ left[p] > 0
        /\ ValidateRow(p) => UNCHANGED row /\ pc[p] = "validate"
        BY DEF BuildRow, ValidateRow
  <2>3. /\ \A q \in Procs : tablesOf(q)' = tablesOf(q) /\ inv(q)' = inv(q) /\ usage(q)' = usage(q)
        /\ \A q \in Procs : \A u, v : Before(q, u, v)' = Before(q, u, v)
        /\ \A q \in Procs : \A u : share(q, u)' = share(q, u)
        BY <2>1 DEF tablesOf, order, inv, usage, Before, share, parallelism
  <2>4. row' \in [Procs -> Int] /\ left' \in [Procs -> Int]
        BY <1>1, <1>6, <2>1, <2>2
  <2>5. ASSUME NEW q \in Procs, pc[q] = "rows" PROVE InShare(q)'
    <3>1. InShare(q) /\ share(q, table[q])' = share(q, table[q]) /\ share(q, table[q]).first \in Nat
          /\ share(q, table[q]).count \in Nat
      <4>1. Building(q) /\ pc[q] \notin Ended /\ ~ usage(q) /\ InShare(q)
            BY <2>5 DEF WalkInv, AtWork, Ended
      <4>2. table[q] \in Tables
            BY <4>1 DEF Building, builders
      <4> QED
          BY <2>1, <2>3, <4>1, <4>2, ShareOf
    <3>2. CASE q # p
          BY <1>1, <1>6, <2>1, <2>2, <3>1, <3>2 DEF InShare
    <3>3. CASE q = p
      <4>1. row'[p] = row[p] + 1 /\ left'[p] = left[p] - 1 /\ left[p] > 0
            BY <1>1, <1>6, <2>1, <2>2, <2>5, <3>3
      <4> HIDE DEF share
      <4> QED
          BY <1>1, <3>1, <3>3, <4>1 DEF InShare
    <3> QED
        BY <3>2, <3>3
  <2>6. \A q \in Procs : pc[q] \in AtWork => Building(q)'
        BY <2>1, <2>3 DEF WalkInv, Building
  <2> QED
      BY <1>1, <2>1, <2>3, <2>4, <2>5, <2>6 DEF WalkInv
<1>7. CASE UNCHANGED vars
  <2>1. UNCHANGED <<plan, pc, todo, table, row, left>>
        BY <1>7 DEF vars, walk, values, files
  <2> QED
      BY <2>1 DEF WalkInv, Building, InShare, Before, order, inv, usage, tablesOf, share, parallelism
<1> QED
    BY <1>2, <1>3, <1>4, <1>5, <1>6, <1>7 DEF Next, main, AllEnded

(***************************************************************************)
(* The rows of a file.                                                     *)
(***************************************************************************)

\* The table whose builder writes the file of table x.
builderOf(x) == CHOOSE t \in builders : x \in Family(t)

\* The rows that belong into a file of a table: those of its share that the table has.
Due(f) ==
    LET t    == builderOf(f.table)
        work == split_work(get_rowcount(t), IF f.child = << >> THEN 1 ELSE f.child[2],
                                            IF f.child = << >> THEN 1 ELSE f.child[1])
    IN  {k \in work.first .. (work.first + work.count - 1) : f.table \in Written(t, k)}

OfTable(f) == f.table \in Tables /\ ~ f.validate

Complete(f) == Increasing(rowsIn(f)) /\ ToSet(rowsIn(f)) = Due(f)

\* A process has come to the table of file f.
CameTo(q, f) ==
    \E u \in (tablesOf(q) \ todo[q]) \cap builders : \E y \in Family(u) : f = print_start(y, inv(q))

Begun == {"main", "rows", "validate", "killed"}

\* A process started after p is forced to replace file f, and has not come to its end.
Replaced(p, f) ==
    \E q \in DOMAIN plan : p \in inv(q).after /\ inv(q).force /\ pc[q] \in Begun /\ CameTo(q, f)

\* A file holds rows that belong into it, in their order.
FileRows == \A f \in DOMAIN disk : OfTable(f) => Increasing(rowsIn(f)) /\ ToSet(rowsIn(f)) \subseteq Due(f)

\* A process has written those of its table that come before its row.
RowsSoFar(p) ==
    pc[p] = "rows" =>
        \A x \in Family(table[p]) : \E f \in {print_start(x, inv(p))} :
            (IF f \in open[p] THEN ToSet(rowsIn(f)) ELSE {}) = {k \in Due(f) : k < row[p]}

\* The files of the tables it has been through are complete, unless it is done and they are
\* replaced after it.
TablesSoFar(p) ==
    p \in DOMAIN plan /\ ~ inv(p).validate /\ pc[p] \in {"main", "rows", "done"} =>
        \A t \in tablesOf(p) \ todo[p] : (pc[p] = "rows" => t # table[p]) =>
            /\ t \in builders
            /\ \A x \in Family(t) : \E f \in {print_start(x, inv(p))} :
                   Complete(f) \/ (pc[p] = "done" /\ Replaced(p, f))

\* It is done with all of them, and after those it was to wait for.
Through(p) ==
    p \in DOMAIN plan /\ pc[p] = "done" =>
        todo[p] = {} /\ \A q \in inv(p).after \cap Procs : pc[q] \in Ended

RowsInv == FileRows /\ \A p \in Procs : RowsSoFar(p) /\ TablesSoFar(p) /\ Through(p)

\* Only the sales of the warehouse have a child, and it has none.
LEMMA WarehouseFamily ==
    ASSUME NEW t \in Warehouse
    PROVE  /\ Family(t) = {t} \cup (IF IsFlagSet(t, "PARENT") THEN {getSimpleTdefsByNumber(t).nParam} ELSE {})
           /\ IsFlagSet(t, "PARENT") <=> t \in {"CATALOG_SALES", "STORE_SALES", "WEB_SALES"}
           /\ t = "CATALOG_SALES" => getSimpleTdefsByNumber(t).nParam = "CATALOG_RETURNS"
           /\ t = "STORE_SALES" => getSimpleTdefsByNumber(t).nParam = "STORE_RETURNS"
           /\ t = "WEB_SALES" => getSimpleTdefsByNumber(t).nParam = "WEB_RETURNS"
<1>1. \A u \in Warehouse : getSimpleTdefsByNumber(u) = w_tdefs[u]
      BY DEF getSimpleTdefsByNumber, Warehouse, Refresh, w_tdefs, s_tdefs
<1>2. \A u \in Warehouse : IsFlagSet(u, "PARENT") <=> u \in {"CATALOG_SALES", "STORE_SALES", "WEB_SALES"}
      BY <1>1 DEF IsFlagSet, Warehouse, w_tdefs, tdef
<1>3. /\ w_tdefs["CATALOG_SALES"].nParam = "CATALOG_RETURNS" /\ w_tdefs["STORE_SALES"].nParam = "STORE_RETURNS"
      /\ w_tdefs["WEB_SALES"].nParam = "WEB_RETURNS"
      /\ {"CATALOG_RETURNS", "STORE_RETURNS", "WEB_RETURNS"} \subseteq Warehouse
      BY DEF w_tdefs, tdef, Warehouse
<1> HIDE DEF Warehouse
<1> QED
    BY <1>1, <1>2, <1>3 DEF Family

LEMMA BuilderFamilies ==
    ASSUME NEW t \in builders, NEW x \in Family(t)
    PROVE  \/ x = t
           \/ t = "CATALOG_SALES" /\ x = "CATALOG_RETURNS"
           \/ t = "STORE_SALES" /\ x = "STORE_RETURNS"
           \/ t = "WEB_SALES" /\ x = "WEB_RETURNS"
           \/ t = "S_CATALOG_ORDER" /\ x \in {"S_CATALOG_ORDER_LINEITEM", "S_CATALOG_RETURNS"}
           \/ t = "S_PURCHASE" /\ x \in {"S_PURCHASE_LINEITEM", "S_STORE_RETURNS"}
           \/ t = "S_WEB_ORDER" /\ x \in {"S_WEB_ORDER_LINEITEM", "S_WEB_RETURNS"}
<1>1. t \in Tables /\ ~ IsFlagSet(t, "CHILD")
      BY DEF builders
<1>2. CASE t \in Warehouse
      BY <1>2, WarehouseFamily
<1>3. CASE t \in Refresh
  <2>1. \A u \in Refresh : getSimpleTdefsByNumber(u) = s_tdefs[u]
        BY DEF getSimpleTdefsByNumber
  <2>2. \A u \in Refresh : /\ IsFlagSet(u, "PARENT") <=> u \in {"S_CATALOG_ORDER", "S_CATALOG_ORDER_LINEITEM",
                                  "S_PURCHASE", "S_PURCHASE_LINEITEM", "S_WEB_ORDER", "S_WEB_ORDER_LINEITEM"}
                           /\ u \in {"S_CATALOG_ORDER_LINEITEM", "S_PURCHASE_LINEITEM", "S_WEB_ORDER_LINEITEM"} =>
                                  IsFlagSet(u, "CHILD")
        BY <2>1 DEF IsFlagSet, Refresh, s_tdefs, s_tdef, tdef
  <2>3. /\ s_tdefs["S_CATALOG_ORDER"].nParam = "S_CATALOG_ORDER_LINEITEM"
        /\ s_tdefs["S_CATALOG_ORDER_LINEITEM"].nParam = "S_CATALOG_RETURNS"
        /\ s_tdefs["S_PURCHASE"].nParam = "S_PURCHASE_LINEITEM"
        /\ s_tdefs["S_PURCHASE_LINEITEM"].nParam = "S_STORE_RETURNS"
        /\ s_tdefs["S_WEB_ORDER"].nParam = "S_WEB_ORDER_LINEITEM"
        /\ s_tdefs["S_WEB_ORDER_LINEITEM"].nParam = "S_WEB_RETURNS"
        /\ {"S_CATALOG_ORDER_LINEITEM", "S_PURCHASE_LINEITEM", "S_WEB_ORDER_LINEITEM"} \subseteq Refresh
        BY DEF s_tdefs, s_tdef, tdef, Refresh
  <2> HIDE DEF Refresh
  <2>4. t \in {"S_CATALOG_ORDER", "S_PURCHASE", "S_WEB_ORDER"} \/ ~ IsFlagSet(t, "PARENT")
        BY <1>1, <1>3, <2>2
  <2>5. CASE ~ IsFlagSet(t, "PARENT")
        BY <2>5 DEF Family
  <2>6. CASE t \in {"S_CATALOG_ORDER", "S_PURCHASE", "S_WEB_ORDER"}
        BY <1>3, <2>1, <2>2, <2>3, <2>6 DEF Family
  <2> QED
      BY <2>4, <2>5, <2>6
<1> QED
    BY <1>1, <1>2, <1>3 DEF Tables

\* A table has one builder.
LEMMA OneBuilder ==
    ASSUME NEW t \in builders, NEW u \in builders, NEW x \in Family(t) \cap Family(u)
    PROVE  t = u /\ builderOf(x) = t
<1>1. ASSUME NEW v \in builders
      PROVE  v \notin {"CATALOG_RETURNS", "STORE_RETURNS", "WEB_RETURNS", "S_CATALOG_ORDER_LINEITEM", "S_CATALOG_RETURNS",
                       "S_PURCHASE_LINEITEM", "S_STORE_RETURNS", "S_WEB_ORDER_LINEITEM", "S_WEB_RETURNS"}
  <2>1. v \in {"CATALOG_RETURNS", "STORE_RETURNS", "WEB_RETURNS"} => IsFlagSet(v, "CHILD")
        BY DEF IsFlagSet, getSimpleTdefsByNumber, Refresh, s_tdefs, w_tdefs, tdef
  <2>2. v \in {"S_CATALOG_ORDER_LINEITEM", "S_CATALOG_RETURNS",
               "S_PURCHASE_LINEITEM", "S_STORE_RETURNS", "S_WEB_ORDER_LINEITEM", "S_WEB_RETURNS"} => IsFlagSet(v, "CHILD")
        BY DEF IsFlagSet, getSimpleTdefsByNumber, Refresh, s_tdefs, s_tdef, tdef
  <2> QED
      BY <2>1, <2>2 DEF builders
<1>2. ASSUME NEW v \in builders, NEW w \in builders, x \in Family(v), x \in Family(w) PROVE v = w
      BY <1>1, <1>2, BuilderFamilies
<1>3. builderOf(x) \in builders /\ x \in Family(builderOf(x))
      BY DEF builderOf
<1> QED
    BY <1>2, <1>3

\* The rows that belong into a file of a process.
LEMMA DueOf ==
    ASSUME NEW p, NEW t \in builders, NEW x \in Family(t), inv(p).parallel \in Nat,
           inv(p).parallel = 0 => inv(p).child = 1
    PROVE  LET f == print_start(x, inv(p))
           IN  /\ f.table = x /\ f.validate = inv(p).validate
               /\ Due(f) = {k \in share(p, t).first .. (share(p, t).first + share(p, t).count - 1) : x \in Written(t, k)}
<1> DEFINE f == print_start(x, inv(p))
           n == IF f.child = << >> THEN 1 ELSE f.child[2]
           c == IF f.child = << >> THEN 1 ELSE f.child[1]
<1>1. f.table = x /\ f.validate = inv(p).validate /\ builderOf(x) = t
      BY OneBuilder DEF print_start
<1>2. n = parallelism(p) /\ c = inv(p).child
  <2>1. CASE inv(p).parallel > 0
    <3>1. f.child = <<inv(p).child, inv(p).parallel>>
          BY <2>1 DEF print_start
    <3> QED
        BY <2>1, <3>1 DEF parallelism
  <2>2. CASE ~ (inv(p).parallel > 0)
    <3>1. f.child = << >> /\ inv(p).child = 1
          BY <2>2 DEF print_start
    <3> QED
        BY <2>2, <3>1 DEF parallelism
  <2> QED
      BY <2>1, <2>2
<1> HIDE DEF n, c
<1>3. Due(f) = {k \in split_work(get_rowcount(t), n, c).first ..
                       (split_work(get_rowcount(t), n, c).first + split_work(get_rowcount(t), n, c).count - 1) :
                    x \in Written(t, k)}
      BY <1>1 DEF Due, n, c
<1> QED
    BY <1>1, <1>2, <1>3 DEF share

\* Processes that write to the same file build the same table, and share the files of all.
LEMMA SameFile ==
    ASSUME NEW p, NEW q, NEW x, NEW y, print_start(x, inv(p)) = print_start(y, inv(q))
    PROVE  x = y /\ inv(p).validate = inv(q).validate /\ sharesFiles(plan[p], plan[q])
<1>1. x = y /\ inv(p).validate = inv(q).validate /\ \A z : print_start(z, inv(p)) = print_start(z, inv(q))
      BY DEF print_start
<1>2. "ITEM" \in Tables
      BY DEF Tables, Warehouse, w_tdefs
<1> QED
    BY <1>1, <1>2 DEF sharesFiles, inv

\* The step of process p moves no other process.
Alone(p, at) ==
    /\ UNCHANGED plan /\ pc[p] \notin Ended /\ pc' = [pc EXCEPT ![p] = at]
    /\ \A q \in Procs \ {p} :
           todo'[q] = todo[q] /\ table'[q] = table[q] /\ row'[q] = row[q] /\ open'[q] = open[q]

\* The files that process p replaces are complete when it is done.
StillReplaces(p) ==
    \A f : ~ f.validate /\ inv(p).force /\ pc[p] \in Begun /\ CameTo(p, f) =>
        (pc'[p] \in Begun /\ CameTo(p, f)') \/ Complete(f)'

\* The step leaves the open files of other processes alone.
SparesOpen(p) == \A q \in Procs \ {p} : \A f \in open[q] : OfTable(f) => rowsIn(f)' = rowsIn(f)

\* It only takes apart a file that is complete to replace it.
SparesComplete(p) ==
    \A q \in Procs \ {p} : \A x \in Tables : \A f \in {print_start(x, inv(q))} :
        q \in DOMAIN plan /\ ~ f.validate /\ pc[q] \in {"main", "rows", "done"} /\ Complete(f) =>
            Complete(f)' \/ (pc[q] = "done" /\ Replaced(q, f)')

LEMMA StillReplaced ==
    ASSUME FilesInv, NEW p \in Procs, NEW at, Alone(p, at), StillReplaces(p), NEW q, NEW f, ~ f.validate,
           Replaced(q, f)
    PROVE  Replaced(q, f)' \/ Complete(f)'
<1>1. PICK r \in DOMAIN plan : q \in inv(r).after /\ inv(r).force /\ pc[r] \in Begun /\ CameTo(r, f)
      BY DEF Replaced
<1>2. plan' = plan /\ \A o \in Procs : inv(o)' = inv(o) /\ tablesOf(o)' = tablesOf(o)
      BY DEF Alone, inv, tablesOf, order
<1>3. r \in Procs
      BY <1>1, PlansAssumption DEF FilesInv, RunsPlan
<1>4. CASE r = p
      BY <1>1, <1>2, <1>3, <1>4 DEF StillReplaces, Replaced
<1>5. CASE r # p
  <2>1. pc'[r] = pc[r] /\ todo'[r] = todo[r]
        BY <1>3, <1>5 DEF Alone, FilesInv, RunsPlan
  <2>2. CameTo(r, f)'
        BY <1>1, <1>2, <1>3, <2>1 DEF CameTo
  <2> QED
      BY <1>1, <1>2, <1>3, <2>1, <2>2 DEF Replaced
<1> QED
    BY <1>4, <1>5

\* A step that does not disturb what is known of the rows.
LEMMA RowsStep ==
    ASSUME TurnInv, WalkInv, RowsInv, NEW p \in Procs, NEW at \in At, Alone(p, at),
           StillReplaces(p), SparesOpen(p), SparesComplete(p),
           FileRows', RowsSoFar(p)', TablesSoFar(p)',
           at = "done" => todo'[p] = {} /\ \A q \in inv(p).after \cap Procs : pc[q] \in Ended
    PROVE  RowsInv'
<1>1. plan' = plan /\ \A o \in Procs : inv(o)' = inv(o) /\ tablesOf(o)' = tablesOf(o)
      BY DEF Alone, inv, tablesOf, order
<1>2. \A q \in Procs \ {p} : pc'[q] = pc[q]
      BY DEF Alone, TurnInv, FilesInv, RunsPlan
<1>3. pc'[p] = at /\ pc[p] \notin Ended
      BY DEF Alone, TurnInv, FilesInv, RunsPlan
<1>4. ASSUME NEW q \in Procs \ {p} PROVE RowsSoFar(q)'
  <2> SUFFICES ASSUME pc[q] = "rows", NEW x \in Family(table[q]), NEW f, f = print_start(x, inv(q))
               PROVE  (IF f \in open[q] THEN ToSet(rowsIn(f)') ELSE {}) = {k \in Due(f) : k < row[q]}
      BY <1>1, <1>2 DEF Alone, RowsSoFar
  <2>1. OfTable(f)
    <3>1. table[q] \in Tables /\ ~ inv(q).validate
      <4>1. Building(q)
            BY DEF WalkInv, AtWork
      <4> QED
          BY <4>1, PlansAssumption DEF Building, builders, TurnInv, FilesInv, RunsPlan, Ended, CommandLine, inv
    <3> QED
        BY <3>1, FamilyInTables DEF OfTable, print_start
  <2>2. (IF f \in open[q] THEN ToSet(rowsIn(f)) ELSE {}) = {k \in Due(f) : k < row[q]}
        BY DEF RowsInv, RowsSoFar
  <2> QED
      BY <2>1, <2>2 DEF SparesOpen
<1>5. ASSUME NEW q \in Procs \ {p} PROVE TablesSoFar(q)'
  <2> SUFFICES ASSUME q \in DOMAIN plan, ~ inv(q).validate, pc[q] \in {"main", "rows", "done"},
                      NEW t \in tablesOf(q) \ todo[q], pc[q] = "rows" => t # table[q]
               PROVE  /\ t \in builders
                      /\ \A x \in Family(t) : \E f \in {print_start(x, inv(q))} :
                             Complete(f)' \/ (pc[q] = "done" /\ Replaced(q, f)')
      BY <1>1, <1>2 DEF Alone, TablesSoFar
  <2>1. t \in builders /\ \A x \in Family(t) : \E f \in {print_start(x, inv(q))} :
                              Complete(f) \/ (pc[q] = "done" /\ Replaced(q, f))
        BY DEF RowsInv, TablesSoFar
  <2>2. ASSUME NEW x \in Family(t), NEW f, f = print_start(x, inv(q))
        PROVE  Complete(f)' \/ (pc[q] = "done" /\ Replaced(q, f)')
    <3>1. ~ f.validate /\ x \in Tables
          BY <2>1, <2>2, FamilyInTables DEF print_start, builders
    <3>2. CASE Complete(f)
          BY <2>2, <3>1, <3>2 DEF SparesComplete
    <3>3. CASE pc[q] = "done" /\ Replaced(q, f)
          BY <3>1, <3>3, StillReplaced DEF TurnInv
    <3> QED
        BY <2>1, <2>2, <3>2, <3>3
  <2> QED
      BY <2>1, <2>2
<1>6. ASSUME NEW q \in Procs PROVE Through(q)'
  <2>1. \A o \in Procs : pc[o] \in Ended => pc'[o] \in Ended
        BY <1>2, <1>3
  <2>2. q # p => todo'[q] = todo[q]
        BY DEF Alone
  <2> QED
      BY <1>1, <1>2, <1>3, <2>1, <2>2 DEF RowsInv, Through
<1> QED
    BY <1>4, <1>5, <1>6 DEF RowsInv

TableFilesStay == \A f : OfTable(f) => rowsIn(f)' = rowsIn(f)

LEMMA PutStays ==
    ASSUME NEW p, NEW names, NEW k, \A f \in names : ~ OfTable(f), disk' = Put(p, names, k)
    PROVE  TableFilesStay
BY DEF TableFilesStay, rowsIn, Put

LEMMA CreateStays ==
    ASSUME NEW p, NEW f, ~ OfTable(f), disk' = Create(p, f)
    PROVE  TableFilesStay
BY DEF TableFilesStay, rowsIn, Create

\* A step that leaves the files of tables as they are.
LEMMA QuietRows ==
    ASSUME TurnInv, WalkInv, RowsInv, NEW p \in Procs, NEW at \in At, Alone(p, at),
           StillReplaces(p), TableFilesStay, RowsSoFar(p)', TablesSoFar(p)',
           at = "done" => todo'[p] = {} /\ \A q \in inv(p).after \cap Procs : pc[q] \in Ended
    PROVE  RowsInv'
<1>1. SparesOpen(p)
      BY DEF SparesOpen, TableFilesStay
<1>2. SparesComplete(p)
  <2>1. ASSUME NEW q, NEW x \in Tables, NEW f, f = print_start(x, inv(q)), ~ f.validate, Complete(f)
        PROVE  Complete(f)'
    <3>1. OfTable(f)
          BY <2>1 DEF OfTable, print_start
    <3>2. rowsIn(f)' = rowsIn(f)
          BY <3>1 DEF TableFilesStay
    <3> QED
        BY <2>1, <3>2 DEF Complete, Increasing, ToSet
  <2> QED
      BY <2>1 DEF SparesComplete
<1>3. FileRows'
  <2> SUFFICES ASSUME NEW f \in DOMAIN disk', OfTable(f)
               PROVE  Increasing(rowsIn(f)') /\ ToSet(rowsIn(f)') \subseteq Due(f)
      BY DEF FileRows
  <2>1. rowsIn(f)' = rowsIn(f)
        BY DEF TableFilesStay
  <2>2. CASE f \in DOMAIN disk
        BY <2>1, <2>2 DEF RowsInv, FileRows
  <2>3. CASE f \notin DOMAIN disk
    <3>1. rowsIn(f)' = << >>
          BY <2>1, <2>3 DEF rowsIn
    <3> QED
        BY <3>1 DEF Increasing, ToSet
  <2> QED
      BY <2>2, <2>3
<1> QED
    BY <1>1, <1>2, <1>3, RowsStep

LEMMA IncreasingAppend ==
    ASSUME NEW s \in Seq(Int), NEW k \in Int, Increasing(s), \A j \in ToSet(s) : j < k
    PROVE  Increasing(Append(s, k)) /\ ToSet(Append(s, k)) = ToSet(s) \cup {k}
<1>1. /\ DOMAIN Append(s, k) = 1 .. (Len(s) + 1) /\ DOMAIN s = 1 .. Len(s) /\ Len(s) \in Nat
      /\ \A i \in 1 .. Len(s) : Append(s, k)[i] = s[i]
      /\ Append(s, k)[Len(s) + 1] = k
      OBVIOUS
<1> DEFINE u == Append(s, k)
<1> HIDE DEF u
<1>2. Increasing(u)
  <2> SUFFICES ASSUME NEW i \in DOMAIN u, NEW j \in DOMAIN u, i < j PROVE u[i] < u[j]
      BY DEF Increasing
  <2>1. i \in 1 .. Len(s) /\ i \in DOMAIN s
        BY <1>1 DEF u
  <2>2. CASE j = Len(s) + 1
        BY <1>1, <2>1, <2>2 DEF u, ToSet
  <2>3. CASE j # Len(s) + 1
    <3>1. j \in 1 .. Len(s) /\ j \in DOMAIN s
          BY <1>1, <2>3 DEF u
    <3> QED
        BY <1>1, <2>1, <3>1 DEF u, Increasing
  <2> QED
      BY <2>2, <2>3
<1>3. ToSet(u) = ToSet(s) \cup {k}
      BY <1>1 DEF u, ToSet
<1> QED
    BY <1>2, <1>3 DEF u

\* Process p writes row row[p] to some of its files, to all of them if it goes on.
Writes(p, at, part) ==
    /\ pc[p] = "rows" /\ left[p] > 0 /\ at \in {"rows", "killed", "refused"}
    /\ part \subseteq filesOf(p, row[p]) /\ \A f \in part : ~ InTheWay(p, f)
    /\ disk' = Put(p, part, row[p]) /\ todo'[p] = todo[p]
    /\ at = "refused" => ~ inv(p).force
    /\ at = "rows" => /\ part = filesOf(p, row[p]) /\ open'[p] = open[p] \cup part
                      /\ row'[p] = row[p] + 1 /\ table'[p] = table[p]

\* What a row adds to a file: it belongs there, and comes after those that do.
LEMMA WrittenRow ==
    ASSUME TurnInv, WalkInv, RowsInv, NEW p \in Procs, NEW at, NEW part, Writes(p, at, part), NEW f \in part
    PROVE  /\ OfTable(f) /\ row[p] \in Due(f) /\ \E x \in Family(table[p]) : f = print_start(x, inv(p))
           /\ Increasing(rowsIn(f)') /\ ToSet(rowsIn(f)') = {k \in Due(f) : k <= row[p]}
           /\ f \in open[p] => ToSet(rowsIn(f)) = {k \in Due(f) : k < row[p]}
<1> DEFINE t == table[p]
           k == row[p]
<1>1. /\ t \in (builders \cap tablesOf(p)) \ todo[p] /\ ~ inv(p).validate
      /\ k \in share(p, t).first .. (share(p, t).first + share(p, t).count - 1)
  <2>1. Building(p) /\ InShare(p) /\ pc[p] = "rows" /\ left[p] > 0 /\ left[p] \in Int /\ row[p] \in Int
        BY DEF WalkInv, AtWork, Writes
  <2>2. inv(p).validate \in BOOLEAN
        BY <2>1, PlansAssumption DEF TurnInv, FilesInv, RunsPlan, Ended, CommandLine, inv
  <2>3. share(p, t).first \in Nat /\ share(p, t).count \in Nat
    <3>1. ~ usage(p) /\ pc[p] \notin Ended /\ t \in Tables
          BY <2>1 DEF WalkInv, AtWork, Ended, Building, builders
    <3> QED
        BY <3>1, ShareOf DEF TurnInv
  <2> HIDE DEF share
  <2>4. t \in (builders \cap tablesOf(p)) \ todo[p] /\ ~ inv(p).validate
        BY <2>1, <2>2 DEF Building
  <2>5. ASSUME NEW a \in Nat, NEW n \in Nat, NEW j \in Int, NEW l \in Int, j \in a .. (a + n), l = a + n - j, l > 0
        PROVE  j \in a .. (a + n - 1)
        BY <2>5
  <2>6. k \in share(p, t).first .. (share(p, t).first + share(p, t).count) /\ left[p] = share(p, t).first + share(p, t).count - k
        BY <2>1 DEF InShare
  <2> QED
      BY <2>1, <2>3, <2>4, <2>5, <2>6
<1>2. k \in Int /\ t \in Tables
  <2>1. row \in [Procs -> Int]
        BY DEF WalkInv
  <2> QED
      BY <1>1, <2>1 DEF builders
<1>3. PICK x \in Written(t, k) : f = print_start(x, inv(p))
      BY DEF Writes, filesOf
<1>4. x \in Family(t)
      BY <1>2, <1>3, WrittenInFamily
<1>5. inv(p).parallel \in Nat /\ (inv(p).parallel = 0 => inv(p).child = 1)
      BY PlansAssumption DEF Writes, TurnInv, FilesInv, RunsPlan, Ended, CommandLine, inv
<1>6. /\ f.table = x /\ f.validate = inv(p).validate
      /\ Due(f) = {j \in share(p, t).first .. (share(p, t).first + share(p, t).count - 1) : x \in Written(t, j)}
      BY <1>1, <1>3, <1>4, <1>5, DueOf
<1>7. OfTable(f) /\ k \in Due(f)
      BY <1>1, <1>2, <1>3, <1>4, <1>6, FamilyInTables DEF OfTable
<1>8. Due(f) \subseteq Int
  <2>1. \A a, b : a .. b \subseteq Int
        OBVIOUS
  <2> QED
      BY <1>6, <2>1
<1>9. (IF f \in open[p] THEN ToSet(rowsIn(f)) ELSE {}) = {j \in Due(f) : j < k}
      BY <1>3, <1>4 DEF RowsInv, RowsSoFar, Writes
<1>10. Increasing(rowsIn(f)') /\ ToSet(rowsIn(f)') = {j \in Due(f) : j <= k}
  <2>1. CASE f \in open[p]
    <3>1. f \in DOMAIN disk /\ disk[f] \in Seq(Int) /\ rowsIn(f) = disk[f]
          BY <2>1 DEF TurnInv, FilesInv, FilesHeld, rowsIn
    <3>2. rowsIn(f)' = Append(rowsIn(f), k)
          BY <2>1, <3>1 DEF Writes, Put, rowsIn
    <3>3. Increasing(rowsIn(f)) /\ ToSet(rowsIn(f)) = {j \in Due(f) : j < k}
          BY <1>7, <1>9, <2>1, <3>1 DEF RowsInv, FileRows
    <3>4. Increasing(Append(rowsIn(f), k)) /\ ToSet(Append(rowsIn(f), k)) = ToSet(rowsIn(f)) \cup {k}
          BY <1>2, <3>1, <3>3, IncreasingAppend
    <3>5. {j \in Due(f) : j < k} \cup {k} = {j \in Due(f) : j <= k}
          BY <1>2, <1>7, <1>8
    <3> QED
        BY <3>2, <3>3, <3>4, <3>5
  <2>2. CASE f \notin open[p]
    <3>1. rowsIn(f)' = <<k>>
          BY <2>2 DEF Writes, Put, rowsIn
    <3>2. {j \in Due(f) : j <= k} = {k}
          BY <1>2, <1>7, <1>8, <1>9, <2>2
    <3>3. Increasing(<<k>>) /\ ToSet(<<k>>) = {k}
      <4>1. DOMAIN <<k>> = {1} /\ <<k>>[1] = k
            OBVIOUS
      <4> QED
          BY <4>1 DEF Increasing, ToSet
    <3> QED
        BY <3>1, <3>2, <3>3
  <2> QED
      BY <2>1, <2>2
<1> QED
    BY <1>3, <1>4, <1>7, <1>9, <1>10

\* A file that a row changes while another process may have completed it is replaced.
LEMMA ReplacesIt ==
    ASSUME ForcedApart, TurnInv, WalkInv, RowsInv, NEW p \in Procs, NEW at, NEW part, Writes(p, at, part),
           NEW q \in DOMAIN plan, q # p, q \in Procs, pc[q] \in {"main", "rows", "done"},
           NEW y, NEW f \in part, f = print_start(y, inv(q)), f \in DOMAIN disk, f \notin open[p]
    PROVE  inv(p).force /\ q \in inv(p).after /\ pc[q] = "done"
<1>1. inv(p).force
      BY DEF Writes, InTheWay
<1>2. PICK x : f = print_start(x, inv(p))
      BY WrittenRow
<1>3. sharesFiles(plan[p], plan[q])
  <2>1. print_start(x, inv(p)) = print_start(y, inv(q))
        BY <1>2
  <2> QED
      BY <2>1, SameFile
<1>4. Running[p] /\ p \in DOMAIN plan /\ plan \in Plans /\ pc[p] \notin Ended
  <2>1. pc[p] = "rows" /\ pc[p] \notin Ended
        BY DEF Writes, Ended
  <2>2. Running[p]
        BY <2>1 DEF Running
  <2> QED
      BY <2>1, <2>2 DEF TurnInv, FilesInv, RunsPlan
<1>5. p \in inv(q).after \/ q \in inv(p).after
      BY <1>1, <1>3, <1>4 DEF ForcedApart, inv
<1>6. p \notin inv(q).after
  <2>1. CASE pc[q] = "done"
        BY <1>4, <2>1 DEF RowsInv, Through
  <2>2. CASE pc[q] # "done"
    <3>1. Running[q]
          BY <2>2 DEF Running, Ended
    <3> QED
        BY <1>4, <3>1 DEF TurnInv, OpenInv
  <2> QED
      BY <2>1, <2>2
<1>7. pc[q] \in Ended
      BY <1>4, <1>5, <1>6 DEF TurnInv, OpenInv
<1> QED
    BY <1>1, <1>5, <1>6, <1>7 DEF Ended

LEMMA UnwrittenFile ==
    ASSUME NEW p, NEW k, NEW part, disk' = Put(p, part, k), NEW f, f \notin part
    PROVE  rowsIn(f)' = rowsIn(f)
BY DEF rowsIn, Put

\* The rows of the table of a process after another row.
LEMMA RowMore ==
    ASSUME TurnInv, WalkInv, RowsInv, NEW p \in Procs, Alone(p, "rows"),
           NEW part, Writes(p, "rows", part)
    PROVE  RowsSoFar(p)'
<1> SUFFICES ASSUME NEW x \in Family(table[p]), NEW f, f = print_start(x, inv(p))
             PROVE  (IF f \in open[p] \cup part THEN ToSet(rowsIn(f)') ELSE {}) = {j \in Due(f) : j < row[p] + 1}
    BY DEF RowsSoFar, Alone, Writes, inv
<1>1. (IF f \in open[p] THEN ToSet(rowsIn(f)) ELSE {}) = {j \in Due(f) : j < row[p]}
      BY DEF RowsInv, RowsSoFar, Writes
<1>2. Building(p) /\ row[p] \in Int
      BY DEF WalkInv, Writes, AtWork
<1>3. table[p] \in builders
      BY <1>2 DEF Building
<1>4. inv(p).parallel \in Nat /\ (inv(p).parallel = 0 => inv(p).child = 1)
      BY PlansAssumption DEF Writes, TurnInv, FilesInv, RunsPlan, Ended, CommandLine, inv
<1>5. Due(f) \subseteq Int /\ \A j \in Due(f) : x \in Written(table[p], j)
  <2>1. Due(f) = {j \in share(p, table[p]).first .. (share(p, table[p]).first + share(p, table[p]).count - 1) :
                      x \in Written(table[p], j)}
        BY <1>3, <1>4, DueOf
  <2>2. \A a, b : a .. b \subseteq Int
        OBVIOUS
  <2> QED
      BY <2>1, <2>2
<1>6. CASE f \in part
  <2>1. ToSet(rowsIn(f)') = {j \in Due(f) : j <= row[p]}
        BY <1>6, WrittenRow
  <2>2. {j \in Due(f) : j <= row[p]} = {j \in Due(f) : j < row[p] + 1}
        BY <1>2, <1>5
  <2> QED
      BY <1>6, <2>1, <2>2
<1>7. CASE f \notin part
  <2>1. rowsIn(f)' = rowsIn(f)
        BY <1>7, UnwrittenFile DEF Writes
  <2>2. x \notin Written(table[p], row[p])
        BY <1>7 DEF Writes, filesOf
  <2>3. {j \in Due(f) : j < row[p]} = {j \in Due(f) : j < row[p] + 1}
        BY <1>2, <1>5, <2>2
  <2> QED
      BY <1>1, <1>7, <2>1, <2>3
<1> QED
    BY <1>6, <1>7

\* The tables before it stay complete.
LEMMA TablesMore ==
    ASSUME TurnInv, WalkInv, RowsInv, NEW p \in Procs, Alone(p, "rows"),
           NEW part, Writes(p, "rows", part)
    PROVE  TablesSoFar(p)'
<1>1. pc'[p] = "rows" /\ table'[p] = table[p] /\ todo'[p] = todo[p] /\ pc[p] = "rows"
      BY DEF Alone, Writes, TurnInv, FilesInv, RunsPlan
<1> SUFFICES ASSUME p \in DOMAIN plan, ~ inv(p).validate, NEW t \in tablesOf(p) \ todo[p], t # table[p]
             PROVE  t \in builders /\ \A x \in Family(t) : \E f \in {print_start(x, inv(p))} : Complete(f)'
    BY <1>1 DEF TablesSoFar, Alone, inv, tablesOf, order
<1>2. t \in builders /\ \A x \in Family(t) : \E f \in {print_start(x, inv(p))} : Complete(f)
      BY <1>1 DEF RowsInv, TablesSoFar
<1>3. table[p] \in builders
      BY <1>1 DEF WalkInv, Building, AtWork
<1>4. ASSUME NEW x \in Family(t), NEW f, f = print_start(x, inv(p)), Complete(f)
      PROVE  Complete(f)'
  <2>1. f \notin part
    <3> SUFFICES ASSUME f \in part PROVE FALSE
        OBVIOUS
    <3>1. PICK y \in Family(table[p]) : f = print_start(y, inv(p))
          BY WrittenRow
    <3>2. x = y
          BY <1>4, <3>1 DEF print_start
    <3>3. x \in Family(t) \cap Family(table[p])
          BY <3>1, <3>2
    <3> QED
        BY <1>2, <1>3, <3>3, OneBuilder
  <2>2. rowsIn(f)' = rowsIn(f)
        BY <2>1, UnwrittenFile DEF Writes
  <2> QED
      BY <1>4, <2>2 DEF Complete, Increasing, ToSet
<1> QED
    BY <1>2, <1>4

\* What a process writes to its files is what they are to hold, and takes no file apart that
\* is to stay.
LEMMA WriteRows ==
    ASSUME ForcedApart, TurnInv, WalkInv, RowsInv, NEW p \in Procs, NEW at \in At, Alone(p, at),
           NEW part, Writes(p, at, part)
    PROVE  RowsInv'
<1>1. pc'[p] = at /\ at \in {"rows", "killed", "refused"} /\ pc[p] = "rows"
      BY DEF Alone, Writes, TurnInv, FilesInv, RunsPlan
<1>2. FileRows'
  <2> SUFFICES ASSUME NEW f \in DOMAIN disk', OfTable(f)
               PROVE  Increasing(rowsIn(f)') /\ ToSet(rowsIn(f)') \subseteq Due(f)
      BY DEF FileRows
  <2>1. CASE f \in part
        BY <2>1, WrittenRow
  <2>2. CASE f \notin part
    <3>1. disk' = Put(p, part, row[p])
          BY DEF Writes
    <3>2. rowsIn(f)' = rowsIn(f)
          BY <2>2, <3>1, UnwrittenFile
    <3>3. f \in DOMAIN disk
          BY <2>2, <3>1 DEF Put
    <3> QED
        BY <3>2, <3>3 DEF RowsInv, FileRows
  <2> QED
      BY <2>1, <2>2
<1>3. SparesOpen(p)
  <2> SUFFICES ASSUME NEW q \in Procs \ {p}, NEW f \in open[q] PROVE f \notin part
      BY UnwrittenFile DEF SparesOpen, Writes
  <2> SUFFICES ASSUME f \in part PROVE FALSE
      OBVIOUS
  <2>1. f \notin open[p] /\ f \in DOMAIN disk /\ pc[q] \in AtWork
        BY DEF TurnInv, OpenInv, FilesInv, FilesHeld
  <2>2. PICK x : f = print_start(x, inv(p))
        BY WrittenRow
  <2>3. inv(p).force
        BY <2>1 DEF Writes, InTheWay
  <2>4. Running[p]
        BY <1>1 DEF Running, Ended
  <2> QED
      BY <2>1, <2>2, <2>3, <2>4, Apart
<1>4. ASSUME inv(p).force, NEW f, CameTo(p, f) PROVE pc'[p] \in Begun /\ CameTo(p, f)'
  <2>1. pc'[p] \in Begun
        BY <1>1, <1>4 DEF Writes, Begun
  <2> QED
      BY <1>4, <2>1 DEF CameTo, Alone, Writes, inv, tablesOf, order
<1>5. StillReplaces(p)
      BY <1>4 DEF StillReplaces
<1>6. SparesComplete(p)
  <2> SUFFICES ASSUME NEW q \in Procs \ {p}, NEW y \in Tables, NEW f, f = print_start(y, inv(q)), q \in DOMAIN plan,
                      pc[q] \in {"main", "rows", "done"}, Complete(f), f \in part
               PROVE  pc[q] = "done" /\ Replaced(q, f)'
    <3>1. \A f : f \notin part /\ Complete(f) => Complete(f)'
          BY UnwrittenFile DEF Writes, Complete, Increasing, ToSet
    <3> QED
        BY <3>1 DEF SparesComplete
  <2>1. row[p] \in Due(f) /\ row[p] \in ToSet(rowsIn(f))
        BY WrittenRow DEF Complete
  <2>2. f \notin open[p]
    <3>1. row[p] \in Int
          BY DEF WalkInv
    <3>2. f \in open[p] => ToSet(rowsIn(f)) = {k \in Due(f) : k < row[p]}
          BY WrittenRow
    <3> QED
        BY <2>1, <3>1, <3>2
  <2>3. f \in DOMAIN disk
        BY <2>1 DEF rowsIn, ToSet
  <2>4. inv(p).force /\ q \in inv(p).after /\ pc[q] = "done"
        BY <2>2, <2>3, ReplacesIt
  <2>5. CameTo(p, f)
    <3>1. PICK x \in Family(table[p]) : f = print_start(x, inv(p))
          BY WrittenRow
    <3>2. Building(p)
          BY <1>1 DEF WalkInv, AtWork
    <3> QED
        BY <3>1, <3>2 DEF CameTo, Building
  <2>6. p \in DOMAIN plan /\ plan' = plan
        BY <1>1 DEF Alone, TurnInv, FilesInv, RunsPlan
  <2> QED
      BY <1>4, <2>4, <2>5, <2>6 DEF Replaced, inv
<1>7. RowsSoFar(p)' /\ TablesSoFar(p)'
  <2>1. CASE at = "rows"
        BY <2>1, RowMore, TablesMore
  <2>2. CASE at # "rows"
        BY <1>1, <2>2 DEF RowsSoFar, TablesSoFar
  <2> QED
      BY <2>1, <2>2
<1>8. at # "done"
      BY <1>1
<1> QED
    BY <1>2, <1>3, <1>5, <1>6, <1>7, <1>8, RowsStep

LEMMA RowsInit == Init => RowsInv
<1> SUFFICES ASSUME Init PROVE RowsInv
    OBVIOUS
<1>1. /\ disk = [f \in {} |-> << >>]
      /\ \A p \in Procs : pc[p] = IF p \in DOMAIN plan THEN "idle" ELSE "done"
      BY DEF Init
<1>2. FileRows
      BY <1>1 DEF FileRows
<1> QED
    BY <1>1, <1>2 DEF RowsInv, RowsSoFar, TablesSoFar, Through

\* The parts of a step of a process that starts or ends, or goes on to its next table.
LEMMA RowsQuietly ==
    ASSUME TurnInv, WalkInv, RowsInv, NEW p \in Procs, NEW at \in {"main", "refused", "killed"},
           UNCHANGED <<plan, table, row>>, pc[p] \notin Ended, pc' = [pc EXCEPT ![p] = at],
           \A q \in Procs \ {p} : open'[q] = open[q] /\ todo'[q] = todo[q],
           TableFilesStay, StillReplaces(p), at = "main" => TablesSoFar(p)'
    PROVE  RowsInv'
<1>1. Alone(p, at) /\ at \in At /\ at # "done"
      BY DEF Alone, At, Ended
<1>2. pc'[p] = at
      BY DEF TurnInv, FilesInv, RunsPlan
<1>3. RowsSoFar(p)' /\ TablesSoFar(p)'
      BY <1>2 DEF RowsSoFar, TablesSoFar
<1> QED
    BY <1>1, <1>3, QuietRows

\* A process starts, or is refused before it does.
LEMMA RowsBegin ==
    ASSUME TurnInv, WalkInv, RowsInv, NEW p \in Procs,
           validate_options(p) \/ Begin(p) \/ DeleteFilesInTheWay(p)
    PROVE  RowsInv'
<1>1. /\ open \in [Procs -> SUBSET DOMAIN disk] /\ todo \in [Procs -> SUBSET Tables] /\ pc \in [Procs -> At]
      BY DEF WalkInv, TurnInv, FilesInv, FilesHeld, RunsPlan, At
<1>2. pc[p] = "idle" /\ pc[p] \notin Ended /\ UNCHANGED <<plan, table, row, open>>
      BY DEF validate_options, Begin, DeleteFilesInTheWay, walk, values, files, Ended
<1>3. TableFilesStay
  <2>1. CASE disk' = disk
        BY <2>1 DEF TableFilesStay, rowsIn
  <2>2. \A f \in deleteFiles(inv(p)) : ~ OfTable(f)
    <3>1. "delete" \notin Tables /\ "inventory_delete" \notin Tables
          BY DEF Tables, Warehouse, Refresh, w_tdefs, s_tdefs
    <3> QED
        BY <3>1 DEF deleteFiles, openDeleteFile, OfTable
  <2>3. ASSUME NEW names \in SUBSET deleteFiles(inv(p)), NEW k, disk' = Put(p, names, k) PROVE TableFilesStay
        BY <2>2, <2>3, PutStays
  <2>4. CASE Begin(p)
        BY <2>3, <2>4 DEF Begin
  <2>5. CASE DeleteFilesInTheWay(p)
    <3>1. openDeleteFile("delete", inv(p)) \in deleteFiles(inv(p))
          BY <2>5 DEF DeleteFilesInTheWay, deleteFiles
    <3> QED
        BY <2>1, <2>3, <2>5, <3>1 DEF DeleteFilesInTheWay
  <2> QED
      BY <2>1, <2>4, <2>5 DEF validate_options, files
<1>4. StillReplaces(p)
      BY <1>2 DEF StillReplaces, Begun
<1>5. CASE Begin(p)
  <2>1. pc' = [pc EXCEPT ![p] = "main"] /\ todo' = [todo EXCEPT ![p] = tablesOf(p)]
        BY <1>5 DEF Begin
  <2>2. TablesSoFar(p)'
    <3>1. todo'[p] = tablesOf(p) /\ tablesOf(p)' = tablesOf(p)
          BY <1>1, <1>2, <2>1 DEF tablesOf, order, inv
    <3> QED
        BY <3>1 DEF TablesSoFar
  <2>3. \A q \in Procs \ {p} : open'[q] = open[q] /\ todo'[q] = todo[q]
        BY <1>1, <1>2, <2>1
  <2> QED
      BY <1>2, <1>3, <1>4, <2>1, <2>2, <2>3, RowsQuietly
<1>6. CASE ~ Begin(p)
  <2>1. pc' = [pc EXCEPT ![p] = "refused"] /\ todo' = todo
        BY <1>6 DEF validate_options, DeleteFilesInTheWay, walk
  <2>2. \A q \in Procs \ {p} : open'[q] = open[q] /\ todo'[q] = todo[q]
        BY <1>1, <1>2, <2>1
  <2> QED
      BY <1>2, <1>3, <1>4, <2>1, <2>2, RowsQuietly
<1> QED
    BY <1>5, <1>6

\* A process is refused at a table.
LEMMA RowsRefused ==
    ASSUME TurnInv, WalkInv, RowsInv, NEW p \in Procs, NamedChild(p) \/ ValidationInTheWay(p)
    PROVE  RowsInv'
<1>1. /\ open \in [Procs -> SUBSET DOMAIN disk] /\ todo \in [Procs -> SUBSET Tables]
      BY DEF WalkInv, TurnInv, FilesInv, FilesHeld
<1>2. PICK t \in Tables : AtTable(p, t) /\ (IsFlagSet(t, "CHILD") \/ ~ inv(p).force)
      BY DEF NamedChild, ValidationInTheWay, InTheWay
<1>3. /\ UNCHANGED <<plan, table, row, open, todo, disk>> /\ pc' = [pc EXCEPT ![p] = "refused"]
      BY DEF NamedChild, ValidationInTheWay, walk, values, files
<1>4. pc[p] = "main" /\ pc[p] \notin Ended /\ t \in todo[p] /\ t \in tablesOf(p)
      BY <1>2 DEF AtTable, Ended, WalkInv
<1>5. TableFilesStay
      BY <1>3 DEF TableFilesStay, rowsIn
<1>6. StillReplaces(p)
  <2>1. CASE ~ inv(p).force
        BY <2>1 DEF StillReplaces
  <2>2. CASE IsFlagSet(t, "CHILD")
    <3>1. inv(p).table = t
          BY <1>4, <2>2 DEF tablesOf
    <3>2. t # "ALL"
          BY <1>4 DEF Tables, Warehouse, Refresh, w_tdefs, s_tdefs
    <3>3. tablesOf(p) \ todo[p] = {}
          BY <1>4, <3>1, <3>2 DEF tablesOf
    <3> QED
        BY <3>3 DEF StillReplaces, CameTo
  <2> QED
      BY <1>2, <2>1, <2>2
<1> QED
    BY <1>1, <1>3, <1>4, <1>5, <1>6, RowsQuietly

\* A process that goes on keeps the files it has come to.
LEMMA GoesOn ==
    ASSUME FilesInv, NEW p \in Procs, NEW at \in Begun, plan' = plan, pc' = [pc EXCEPT ![p] = at], todo'[p] \subseteq todo[p]
    PROVE  StillReplaces(p)
<1>1. pc'[p] \in Begun
      BY DEF FilesInv, RunsPlan
<1>2. ASSUME NEW f, CameTo(p, f) PROVE CameTo(p, f)'
      BY <1>2 DEF CameTo, inv, tablesOf, order
<1> QED
    BY <1>1, <1>2 DEF StillReplaces

\* No row of a table is written before the first.
LEMMA RowsStart ==
    ASSUME TurnInv, WalkInv, RowsInv, NEW p \in Procs, StartTable(p)
    PROVE  RowsInv'
<1>1. /\ open \in [Procs -> SUBSET DOMAIN disk] /\ todo \in [Procs -> SUBSET Tables]
      /\ table \in [Procs -> Tables \cup {NoTable}] /\ row \in [Procs -> Int] /\ pc \in [Procs -> At]
      BY DEF WalkInv, TurnInv, FilesInv, FilesHeld, RunsPlan, At
<1>2. PICK t \in Tables :
          /\ AtTable(p, t) /\ ~ IsFlagSet(t, "CHILD") /\ ~ inv(p).validate
          /\ pc' = [pc EXCEPT ![p] = "rows"] /\ todo' = [todo EXCEPT ![p] = @ \ {t}]
          /\ table' = [table EXCEPT ![p] = t] /\ row' = [row EXCEPT ![p] = share(p, t).first]
          /\ UNCHANGED <<plan, disk, open>>
      BY DEF StartTable, share, parallelism, files
<1>3. pc[p] = "main" /\ pc[p] \notin Ended /\ t \in builders
      BY <1>2 DEF AtTable, Ended, builders
<1>4. Alone(p, "rows") /\ "rows" \in At /\ "rows" # "done" /\ "rows" \in Begun
      BY <1>1, <1>2, <1>3 DEF Alone, At, Begun
<1>5. pc'[p] = "rows" /\ todo'[p] = todo[p] \ {t} /\ table'[p] = t /\ row'[p] = share(p, t).first
      BY <1>1, <1>2
<1>6. TableFilesStay
      BY <1>2 DEF TableFilesStay, rowsIn
<1>7. StillReplaces(p)
      BY <1>2, <1>4, <1>5, GoesOn DEF TurnInv
<1>8. RowsSoFar(p)'
  <2> SUFFICES ASSUME NEW x \in Family(t), NEW f, f = print_start(x, inv(p))
               PROVE  (IF f \in open[p] THEN ToSet(rowsIn(f)') ELSE {}) = {k \in Due(f) : k < share(p, t).first}
      BY <1>2, <1>5 DEF RowsSoFar, inv
  <2>1. open[p] = {}
        BY <1>3 DEF TurnInv, OpenInv, AtWork
  <2>2. inv(p).parallel \in Nat /\ (inv(p).parallel = 0 => inv(p).child = 1)
        BY <1>3, PlansAssumption DEF TurnInv, FilesInv, RunsPlan, CommandLine, inv
  <2>3. \A k \in Due(f) : k \in share(p, t).first .. (share(p, t).first + share(p, t).count - 1)
        BY <1>3, <2>2, DueOf
  <2>4. share(p, t).first \in Nat /\ share(p, t).count \in Nat
        BY <1>3, ShareOf DEF TurnInv, WalkInv
  <2> HIDE DEF share
  <2> QED
      BY <2>1, <2>3, <2>4
<1>9. TablesSoFar(p)'
  <2>1. tablesOf(p)' = tablesOf(p) /\ inv(p)' = inv(p)
        BY <1>2 DEF tablesOf, order, inv
  <2> SUFFICES ASSUME p \in DOMAIN plan, NEW u \in tablesOf(p) \ (todo[p] \ {t}), u # t
               PROVE  u \in builders /\ \A x \in Family(u) : \E f \in {print_start(x, inv(p))} : Complete(f)'
      BY <1>2, <1>5, <2>1 DEF TablesSoFar
  <2>2. u \in builders /\ \A x \in Family(u) : \E f \in {print_start(x, inv(p))} : Complete(f)
        BY <1>2, <1>3 DEF RowsInv, TablesSoFar
  <2>3. \A f : Complete(f) => Complete(f)'
        BY <1>2 DEF Complete, rowsIn, Increasing, ToSet
  <2> QED
      BY <2>2, <2>3
<1> QED
    BY <1>4, <1>6, <1>7, <1>8, <1>9, QuietRows

\* Validated rows go to files of their own.
LEMMA RowsValidated ==
    ASSUME TurnInv, WalkInv, RowsInv, NEW p \in Procs, StartValidation(p) \/ ValidateRow(p)
    PROVE  RowsInv'
<1>1. /\ open \in [Procs -> SUBSET DOMAIN disk] /\ todo \in [Procs -> SUBSET Tables]
      /\ table \in [Procs -> Tables \cup {NoTable}] /\ row \in [Procs -> Int] /\ pc \in [Procs -> At]
      BY DEF WalkInv, TurnInv, FilesInv, FilesHeld, RunsPlan, At
<1>2. /\ pc' = [pc EXCEPT ![p] = "validate"] /\ pc[p] \in {"main", "validate"} /\ inv(p).validate
      /\ plan' = plan /\ row' = row /\ todo'[p] \subseteq todo[p]
      /\ \A q \in Procs \ {p} : todo'[q] = todo[q] /\ table'[q] = table[q]
  <2>1. CASE StartValidation(p)
        BY <1>1, <2>1 DEF StartValidation, AtTable
  <2>2. CASE ValidateRow(p)
    <3>1. pc[p] = "validate" /\ UNCHANGED <<plan, pc, todo, table, row>>
          BY <2>2 DEF ValidateRow
    <3>2. inv(p).validate
          BY <3>1 DEF TurnInv, OpenInv
    <3> QED
        BY <1>1, <3>1, <3>2
  <2> QED
      BY <2>1, <2>2
<1>3. /\ TableFilesStay /\ \A q \in Procs \ {p} : open'[q] = open[q]
  <2>1. \A x : ~ OfTable(print_start(x, inv(p)))
        BY <1>2 DEF OfTable, print_start
  <2>2. CASE StartValidation(p)
    <3>1. PICK f : ~ OfTable(f) /\ disk' = Create(p, f) /\ open' = [open EXCEPT ![p] = @ \cup {f}]
          BY <2>1, <2>2 DEF StartValidation
    <3> QED
        BY <1>1, <3>1, CreateStays
  <2>3. CASE ValidateRow(p)
    <3>1. PICK k : disk' = Put(p, filesOf(p, k), k) /\ open' = [open EXCEPT ![p] = @ \cup filesOf(p, k)]
          BY <2>3 DEF ValidateRow, Write
    <3>2. \A f \in filesOf(p, k) : ~ OfTable(f)
          BY <2>1 DEF filesOf
    <3> QED
        BY <1>1, <3>1, <3>2, PutStays
  <2> QED
      BY <2>2, <2>3
<1>4. Alone(p, "validate") /\ "validate" \in At /\ "validate" # "done" /\ "validate" \in Begun
      BY <1>2, <1>3 DEF Alone, At, Begun, Ended
<1>5. pc'[p] = "validate"
      BY <1>1, <1>2
<1>6. StillReplaces(p)
      BY <1>2, <1>4, GoesOn DEF TurnInv
<1>7. RowsSoFar(p)' /\ TablesSoFar(p)'
      BY <1>5 DEF RowsSoFar, TablesSoFar
<1> QED
    BY <1>3, <1>4, <1>6, <1>7, QuietRows

\* A row is written to all of its files.
LEMMA RowsBuilt ==
    ASSUME ForcedApart, TurnInv, WalkInv, RowsInv, NEW p \in Procs, BuildRow(p)
    PROVE  RowsInv'
<1>1. /\ open \in [Procs -> SUBSET DOMAIN disk] /\ row \in [Procs -> Int] /\ pc \in [Procs -> At]
      BY DEF WalkInv, TurnInv, FilesInv, FilesHeld, RunsPlan, At
<1> DEFINE part == filesOf(p, row[p])
<1>2. /\ pc[p] = "rows" /\ left[p] > 0 /\ (\A f \in part : ~ InTheWay(p, f)) /\ disk' = Put(p, part, row[p])
      /\ open' = [open EXCEPT ![p] = @ \cup part] /\ row' = [row EXCEPT ![p] = @ + 1]
      /\ UNCHANGED <<plan, pc, todo, table>>
      BY DEF BuildRow, Write
<1> HIDE DEF part
<1>3. open'[p] = open[p] \cup part /\ row'[p] = row[p] + 1
      BY <1>1, <1>2
<1>4. \A q \in Procs \ {p} : open'[q] = open[q] /\ row'[q] = row[q]
      BY <1>1, <1>2
<1>5. pc' = [pc EXCEPT ![p] = "rows"] /\ pc[p] \notin Ended
      BY <1>1, <1>2 DEF Ended
<1>6. Alone(p, "rows") /\ "rows" \in At
      BY <1>2, <1>4, <1>5 DEF Alone, At
<1>7. Writes(p, "rows", part)
      BY <1>2, <1>3 DEF Writes, part
<1> QED
    BY <1>6, <1>7, WriteRows

\* A process that ends within a row has written to some of its files.
LEMMA RowsEnded ==
    ASSUME ForcedApart, TurnInv, WalkInv, RowsInv, NEW p \in Procs, FileInTheWay(p) \/ Kill(p)
    PROVE  RowsInv'
<1>1. /\ open \in [Procs -> SUBSET DOMAIN disk] /\ pc \in [Procs -> At]
      BY DEF TurnInv, FilesInv, FilesHeld, RunsPlan, At
<1>2. PICK at \in {"refused", "killed"} : pc' = [pc EXCEPT ![p] = at] /\ (at = "refused" => FileInTheWay(p))
      BY DEF FileInTheWay, Kill
<1>3. UNCHANGED <<plan, todo, table, row>> /\ open' = [open EXCEPT ![p] = {}] /\ pc[p] \notin Ended
      BY DEF FileInTheWay, Kill, walk, Running, Ended
<1>4. PICK part \in partOfRow(p) : disk' = Put(p, part, row[p])
      BY DEF FileInTheWay, Kill
<1>5. \A q \in Procs \ {p} : open'[q] = open[q]
      BY <1>1, <1>3
<1>6. Alone(p, at) /\ at \in At
      BY <1>2, <1>3, <1>5 DEF Alone, At, Ended
<1>7. CASE pc[p] = "rows" /\ left[p] # 0
  <2>1. left[p] > 0
    <3>1. InShare(p) /\ left[p] \in Int /\ row[p] \in Int
          BY <1>7 DEF WalkInv
    <3>2. share(p, table[p]).first \in Nat /\ share(p, table[p]).count \in Nat
      <4>1. ~ usage(p) /\ table[p] \in Tables
            BY <1>7 DEF WalkInv, TurnInv, OpenInv, AtWork
      <4> QED
          BY <1>3, <4>1, ShareOf DEF TurnInv
    <3> HIDE DEF share
    <3>3. row[p] \in share(p, table[p]).first .. (share(p, table[p]).first + share(p, table[p]).count)
          /\ left[p] = share(p, table[p]).first + share(p, table[p]).count - row[p]
          BY <3>1 DEF InShare
    <3> QED
        BY <1>7, <3>1, <3>2, <3>3
  <2>2. part \subseteq filesOf(p, row[p]) /\ \A f \in part : ~ InTheWay(p, f)
        BY <1>4, <1>7 DEF partOfRow
  <2>3. at = "refused" => ~ inv(p).force
        BY <1>2 DEF FileInTheWay, InTheWay
  <2>4. Writes(p, at, part)
        BY <1>3, <1>4, <1>7, <2>1, <2>2, <2>3 DEF Writes
  <2> QED
      BY <1>6, <2>4, WriteRows
<1>8. CASE ~ (pc[p] = "rows" /\ left[p] # 0)
  <2>1. at = "killed"
        BY <1>2, <1>8 DEF FileInTheWay
  <2>2. part = {}
        BY <1>4, <1>8 DEF partOfRow
  <2>3. TableFilesStay
        BY <1>4, <2>2, PutStays
  <2>4. at \in Begun /\ todo'[p] \subseteq todo[p] /\ \A q \in Procs \ {p} : open'[q] = open[q] /\ todo'[q] = todo[q]
        BY <1>3, <1>5, <2>1 DEF Begun
  <2>5. StillReplaces(p)
        BY <1>2, <1>3, <2>4, GoesOn DEF TurnInv
  <2>6. at \in {"main", "refused", "killed"} /\ (at = "main" => TablesSoFar(p)')
        BY <2>1
  <2> QED
      BY <1>2, <1>3, <2>3, <2>4, <2>5, <2>6, RowsQuietly
<1> QED
    BY <1>7, <1>8

\* After the last row of its share a process has completed the files of the table.
LEMMA RowsClosed ==
    ASSUME TurnInv, WalkInv, RowsInv, NEW p \in Procs, CloseTable(p)
    PROVE  RowsInv'
<1>1. /\ open \in [Procs -> SUBSET DOMAIN disk] /\ todo \in [Procs -> SUBSET Tables] /\ pc \in [Procs -> At]
      BY DEF WalkInv, TurnInv, FilesInv, FilesHeld, RunsPlan, At
<1>2. /\ pc[p] \in AtWork /\ left[p] = 0 /\ pc' = [pc EXCEPT ![p] = "main"] /\ pc[p] \notin Ended
      /\ UNCHANGED <<plan, table, row, disk, todo>>
      /\ open' = [open EXCEPT ![p] = @ \ print_close(table[p], inv(p))]
      BY DEF CloseTable, walk, values, AtWork, Ended
<1>3. \A q \in Procs \ {p} : open'[q] = open[q] /\ todo'[q] = todo[q]
      BY <1>1, <1>2
<1>4. TableFilesStay
      BY <1>2 DEF TableFilesStay, rowsIn
<1>5. StillReplaces(p)
  <2>1. "main" \in Begun /\ todo'[p] \subseteq todo[p]
        BY <1>2 DEF Begun
  <2> QED
      BY <1>2, <2>1, GoesOn DEF TurnInv
<1>6. TablesSoFar(p)'
  <2>1. tablesOf(p)' = tablesOf(p) /\ inv(p)' = inv(p) /\ pc'[p] = "main"
        BY <1>1, <1>2 DEF tablesOf, order, inv
  <2> SUFFICES ASSUME p \in DOMAIN plan, ~ inv(p).validate, NEW t \in tablesOf(p) \ todo[p]
               PROVE  t \in builders /\ \A x \in Family(t) : \E f \in {print_start(x, inv(p))} : Complete(f)'
      BY <1>2, <2>1 DEF TablesSoFar
  <2>2. pc[p] = "rows"
        BY <1>2 DEF TurnInv, OpenInv, AtWork
  <2>3. \A f : Complete(f) => Complete(f)'
        BY <1>2 DEF Complete, rowsIn, Increasing, ToSet
  <2>4. CASE t # table[p]
        BY <2>2, <2>3, <2>4 DEF RowsInv, TablesSoFar
  <2>5. CASE t = table[p]
    <3>1. t \in builders /\ ~ usage(p)
          BY <1>2, <2>5 DEF WalkInv, Building
    <3>2. inv(p).parallel \in Nat /\ (inv(p).parallel = 0 => inv(p).child = 1)
          BY <1>2, PlansAssumption DEF TurnInv, FilesInv, RunsPlan, CommandLine, inv
    <3>3. share(p, t).first \in Nat /\ share(p, t).count \in Nat
          BY <1>2, <3>1, ShareOf DEF TurnInv, builders
    <3>4. row[p] = share(p, t).first + share(p, t).count
      <4>1. InShare(p) /\ row[p] \in Int
            BY <2>2 DEF WalkInv
      <4> HIDE DEF share
      <4> QED
          BY <1>2, <2>5, <3>3, <4>1 DEF InShare
    <3>5. ASSUME NEW x \in Family(t), NEW f, f = print_start(x, inv(p)) PROVE Complete(f)
      <4>1. \A k \in Due(f) : k \in share(p, t).first .. (share(p, t).first + share(p, t).count - 1)
            BY <3>1, <3>2, <3>5, DueOf
      <4>2. {k \in Due(f) : k < row[p]} = Due(f)
        <5> HIDE DEF share
        <5> QED
            BY <3>3, <3>4, <4>1
      <4>3. (IF f \in open[p] THEN ToSet(rowsIn(f)) ELSE {}) = Due(f)
            BY <2>2, <2>5, <3>5, <4>2 DEF RowsInv, RowsSoFar
      <4>4. OfTable(f)
            BY <3>1, <3>5, FamilyInTables DEF OfTable, print_start, builders
      <4>5. CASE f \in DOMAIN disk
            BY <4>3, <4>4, <4>5 DEF RowsInv, FileRows, Complete
      <4>6. CASE f \notin DOMAIN disk
        <5>1. f \notin open[p]
              BY <1>1, <4>6
        <5> QED
            BY <4>3, <4>6, <5>1 DEF Complete, rowsIn, Increasing, ToSet
      <4> QED
          BY <4>5, <4>6
    <3> QED
        BY <2>3, <3>1, <3>5
  <2> QED
      BY <2>4, <2>5
<1> QED
    BY <1>2, <1>3, <1>4, <1>5, <1>6, RowsQuietly

\* A process that is done leaves the files it has replaced complete.
LEMMA RowsFinished ==
    ASSUME TurnInv, WalkInv, RowsInv, NEW p \in Procs, Finish(p)
    PROVE  RowsInv'
<1>1. pc[p] = "main" /\ pc[p] \notin Ended /\ todo[p] = {} /\ pc' = [pc EXCEPT ![p] = "done"]
      /\ UNCHANGED <<plan, todo, table, row, open, disk>>
      BY DEF Finish, walk, values, files, Ended
<1>2. Alone(p, "done") /\ "done" \in At
      BY <1>1 DEF Alone, At, Ended
<1>3. pc'[p] = "done" /\ tablesOf(p)' = tablesOf(p) /\ inv(p)' = inv(p)
      BY <1>1 DEF tablesOf, order, inv, TurnInv, FilesInv, RunsPlan
<1>4. TableFilesStay
      BY <1>1 DEF TableFilesStay, rowsIn
<1>5. \A f : Complete(f) => Complete(f)'
      BY <1>1 DEF Complete, rowsIn, Increasing, ToSet
<1>6. ~ inv(p).validate =>
          \A t \in tablesOf(p) : t \in builders /\ \A x \in Family(t) : \E f \in {print_start(x, inv(p))} : Complete(f)
  <2>1. p \in DOMAIN plan
        BY <1>1 DEF TurnInv, FilesInv, RunsPlan
  <2> QED
      BY <1>1, <2>1 DEF RowsInv, TablesSoFar
<1>7. StillReplaces(p)
  <2> SUFFICES ASSUME NEW f, ~ f.validate, CameTo(p, f) PROVE Complete(f)
      BY <1>5 DEF StillReplaces
  <2>1. PICK u \in tablesOf(p) : \E y \in Family(u) : f = print_start(y, inv(p))
        BY DEF CameTo
  <2>2. ~ inv(p).validate
        BY <2>1 DEF print_start
  <2> QED
      BY <1>6, <2>1, <2>2
<1>8. RowsSoFar(p)' /\ TablesSoFar(p)'
      BY <1>1, <1>3, <1>5, <1>6 DEF RowsSoFar, TablesSoFar
<1>9. todo'[p] = {} /\ \A q \in inv(p).after \cap Procs : pc[q] \in Ended
  <2>1. Running[p]
        BY <1>1 DEF Running, Ended
  <2> QED
      BY <1>1, <2>1 DEF TurnInv, OpenInv
<1> QED
    BY <1>2, <1>4, <1>7, <1>8, <1>9, QuietRows

LEMMA RowsNext ==
    ASSUME ForcedApart, TurnInv, WalkInv, RowsInv, [Next]_vars
    PROVE  RowsInv'
<1>1. CASE UNCHANGED vars
  <2>1. UNCHANGED <<plan, pc, todo, table, row, disk, open>>
        BY <1>1 DEF vars, walk, values, files
  <2>2. \A f : rowsIn(f)' = rowsIn(f) /\ (Complete(f) => Complete(f)')
        BY <2>1 DEF rowsIn, Complete, Increasing, ToSet
  <2>3. \A q \in Procs : inv(q)' = inv(q) /\ tablesOf(q)' = tablesOf(q)
        BY <2>1 DEF inv, tablesOf, order
  <2>4. FileRows'
        BY <2>1, <2>2 DEF RowsInv, FileRows
  <2>5. \A q, f : Replaced(q, f) => Replaced(q, f)'
        BY <2>1 DEF Replaced, CameTo, inv, tablesOf, order
  <2>6. ASSUME NEW q \in Procs PROVE RowsSoFar(q)' /\ TablesSoFar(q)' /\ Through(q)'
    <3>1. RowsSoFar(q) /\ TablesSoFar(q) /\ Through(q)
          BY DEF RowsInv
    <3>2. RowsSoFar(q)'
          BY <2>1, <2>2, <2>3, <3>1 DEF RowsSoFar
    <3>3. TablesSoFar(q)'
          BY <2>1, <2>2, <2>3, <2>5, <3>1 DEF TablesSoFar
    <3> QED
        BY <2>1, <3>1, <3>2, <3>3 DEF Through, inv
  <2> QED
      BY <2>4, <2>6 DEF RowsInv
<1>2. CASE AllEnded
      BY <1>1, <1>2 DEF AllEnded
<1> QED
    BY <1>1, <1>2, RowsBegin, RowsRefused, RowsStart, RowsValidated, RowsBuilt, RowsEnded, RowsClosed, RowsFinished
    DEF Next, main

(***************************************************************************)
(* The children of a build.                                                *)
(***************************************************************************)

\* The rows of the shares are those of the table, and a later child has later rows.
THEOREM SharesAreTheTable ==
    ASSUME NEW total \in Nat \ {0}, NEW n \in Nat \ {0}
    PROVE  LET rows(c) == split_work(total, n, c).first ..
                              (split_work(total, n, c).first + split_work(total, n, c).count - 1)
           IN  /\ UNION {rows(c) : c \in 1 .. n} = 1 .. total
               /\ \A c, d \in 1 .. n : c < d => \A k \in rows(c), l \in rows(d) : k < l
<1> DEFINE rows(c) == split_work(total, n, c).first ..
                          (split_work(total, n, c).first + split_work(total, n, c).count - 1)
<1>1. CASE total < Threshold
  <2>1. rows(1) = 1 .. total /\ \A c \in 1 .. n : c # 1 => rows(c) = {}
        BY <1>1 DEF split_work
  <2> HIDE DEF rows
  <2>2. 1 \in 1 .. n
        OBVIOUS
  <2>3. UNION {rows(c) : c \in 1 .. n} = rows(1)
        BY <2>1, <2>2
  <2>4. \A c, d \in 1 .. n : c < d => d # 1
        OBVIOUS
  <2> QED
      BY <2>1, <2>3, <2>4 DEF rows
<1>2. CASE ~ (total < Threshold)
  <2> DEFINE size  == total \div n
             extra == total % n
             least(a, b) == IF a < b THEN a ELSE b
             first(c) == 1 + (c - 1) * size + least(c - 1, extra)
             count(c) == size + (IF c <= extra THEN 1 ELSE 0)
  <2>1. size \in Nat /\ extra \in 0 .. (n - 1) /\ total = n * size + extra
        BY QuotientRemainder
  <2>2. ASSUME NEW c \in 1 .. n PROVE rows(c) = first(c) .. (first(c) + count(c) - 1)
        BY <1>2 DEF split_work, Chunk
  <2> HIDE DEF size, extra, rows
  <2>3. ASSUME NEW c \in 1 .. n
        PROVE  first(c) \in Nat \ {0} /\ count(c) \in Nat /\ first(c) + count(c) = 1 + c * size + least(c, extra)
    <3>1. c * size = (c - 1) * size + size /\ (c - 1) * size \in Nat
          BY <2>1
    <3> QED
        BY <2>1, <3>1
  <2>4. ASSUME NEW c \in 1 .. n, NEW d \in 1 .. n, c < d PROVE first(c) + count(c) <= first(d)
    <3>1. c * size + (d - 1 - c) * size = (d - 1) * size /\ (d - 1 - c) * size \in Nat /\ c * size \in Nat
          BY <2>1, <2>4
    <3> QED
        BY <2>1, <2>3, <2>4, <3>1
  <2>5. ASSUME NEW c \in 1 .. n PROVE first(c) + count(c) <= total + 1
    <3>1. c * size + (n - c) * size = n * size /\ (n - c) * size \in Nat /\ c * size \in Nat
          BY <2>1
    <3> QED
        BY <2>1, <2>3, <3>1
  <2>6. ASSUME NEW k \in 1 .. total PROVE \E c \in 1 .. n : first(c) <= k /\ k < first(c) + count(c)
    <3> DEFINE a == (k - 1) \div (size + 1)
               r == (k - 1) % (size + 1)
    <3>1. a \in Nat /\ r \in 0 .. size /\ k - 1 = (size + 1) * a + r
      <4>1. k - 1 \in Nat /\ size + 1 \in Nat \ {0}
            BY <2>1
      <4>2. \A i \in Nat, j \in Nat \ {0} :
                i \div j \in Nat /\ (i % j) \in 0 .. (j - 1) /\ i = j * (i \div j) + (i % j)
            BY QuotientRemainder
      <4>3. PICK i \in Nat, j \in Nat \ {0} : i = k - 1 /\ j = size + 1
            BY <4>1
      <4>4. a = i \div j /\ r = i % j
            BY <4>3
      <4> HIDE DEF a, r
      <4>5. a \in Nat /\ r \in 0 .. (j - 1) /\ i = j * a + r
            BY <4>2, <4>3, <4>4
      <4> QED
          BY <2>1, <4>3, <4>5
    <3> HIDE DEF a, r
    <3>2. CASE a < extra
      <4>1. a + 1 \in 1 .. n /\ a + 1 <= extra
            BY <2>1, <3>1, <3>2
      <4>2. first(a + 1) = 1 + a * size + a /\ count(a + 1) = size + 1
            BY <2>1, <3>1, <3>2, <4>1
      <4>3. k = 1 + a * size + a + r
        <5>1. (size + 1) * a = a * size + a
              BY <2>1, <3>1
        <5> QED
            BY <3>1, <5>1, <2>1
      <4>4. first(a + 1) <= k /\ k < first(a + 1) + count(a + 1)
        <5>1. a * size \in Nat
              BY <2>1, <3>1
        <5> QED
            BY <2>1, <3>1, <4>2, <4>3, <5>1
      <4> QED
          BY <4>1, <4>4
    <3>3. CASE ~ (a < extra)
      <4> DEFINE m == k - 1 - extra * size - extra
                 b == m \div size
                 s == m % size
      <4>1. m \in Nat /\ m < (n - extra) * size
        <5>1. (size + 1) * a = (size + 1) * extra + (size + 1) * (a - extra) /\ (size + 1) * (a - extra) \in Nat
              BY <2>1, <3>1, <3>3
        <5>2. (size + 1) * extra = extra * size + extra /\ extra * size \in Nat
              BY <2>1
        <5>3. n * size = extra * size + (n - extra) * size /\ (n - extra) * size \in Nat
              BY <2>1
        <5> QED
            BY <2>1, <3>1, <5>1, <5>2, <5>3
      <4>2. size # 0
        <5>1. (n - extra) * 0 = 0
              BY <2>1
        <5> QED
            BY <4>1, <5>1
      <4>3. b \in Nat /\ s \in 0 .. (size - 1) /\ m = size * b + s
            BY <2>1, <4>1, <4>2, QuotientRemainder
      <4> HIDE DEF b, s
      <4>4. b < n - extra
        <5> SUFFICES ASSUME ~ (b < n - extra) PROVE FALSE
            OBVIOUS
        <5>1. size * b = (n - extra) * size + size * (b - (n - extra)) /\ size * (b - (n - extra)) \in Nat
              BY <2>1, <4>3
        <5>2. (n - extra) * size \in Nat
              BY <2>1
        <5> QED
            BY <2>1, <4>1, <4>3, <5>1, <5>2
      <4> DEFINE c == extra + b + 1
      <4>5. c \in 1 .. n /\ c - 1 = extra + b /\ ~ (c <= extra)
            BY <2>1, <4>3, <4>4
      <4> HIDE DEF c
      <4>6. first(c) = 1 + (extra + b) * size + extra /\ count(c) = size
            BY <2>1, <4>3, <4>5
      <4>7. (extra + b) * size = extra * size + size * b /\ extra * size \in Nat /\ size * b \in Nat
            BY <2>1, <4>3
      <4>8. first(c) <= k /\ k < first(c) + count(c)
            BY <2>1, <4>1, <4>3, <4>6, <4>7
      <4> QED
          BY <4>5, <4>8
    <3> QED
        BY <3>2, <3>3
  <2> HIDE DEF first, count
  <2>7. UNION {rows(c) : c \in 1 .. n} = 1 .. total
    <3>1. ASSUME NEW c \in 1 .. n PROVE rows(c) \subseteq 1 .. total
          BY <2>2, <2>3, <2>5
    <3>2. ASSUME NEW k \in 1 .. total PROVE \E c \in 1 .. n : k \in rows(c)
      <4>1. PICK c \in 1 .. n : first(c) <= k /\ k < first(c) + count(c)
            BY <2>6
      <4>2. k \in first(c) .. (first(c) + count(c) - 1)
            BY <2>3, <4>1
      <4> QED
          BY <2>2, <4>2
    <3> QED
        BY <3>1, <3>2
  <2>8. ASSUME NEW c \in 1 .. n, NEW d \in 1 .. n, c < d, NEW k \in rows(c), NEW l \in rows(d) PROVE k < l
        BY <2>2, <2>3, <2>4, <2>8, SMTT(60)
  <2> QED
      BY <2>7, <2>8 DEF rows
<1> QED
    BY <1>1, <1>2

\* What a child of a build leaves in its file of a table.
LEMMA MateComplete ==
    ASSUME FilesInv, RowsInv, NEW p \in DOMAIN plan, ~ inv(p).validate, NEW c \in 1 .. parallelism(p),
           NEW q, Mate(p, q, c), Settled(q), NEW t \in tablesOf(p), NEW x \in Family(t),
           NEW f, f = print_start(x, [inv(p) EXCEPT !.child = c])
    PROVE  LET work == split_work(get_rowcount(t), parallelism(p), c)
           IN  /\ t \in builders /\ Increasing(rowsIn(f))
               /\ ToSet(rowsIn(f)) = {k \in work.first .. (work.first + work.count - 1) : x \in Written(t, k)}
<1>1. /\ q \in DOMAIN plan /\ q \in Procs /\ inv(p) \in CommandLine /\ inv(q) \in CommandLine
      /\ pc[q] = "done" /\ inv(q).child = c
      /\ inv(q).parallel = 0 => inv(q).child = 1
      BY PlansAssumption DEF FilesInv, RunsPlan, inv, Mate
<1>2. \A r \in CommandLine : LET s == [r EXCEPT !.child = 0, !.after = {}]
                             IN  /\ s.parallel = r.parallel /\ s.update = r.update /\ s.table = r.table
                                 /\ s.validate = r.validate
      BY DEF CommandLine
<1>3. /\ inv(q).parallel = inv(p).parallel /\ inv(q).update = inv(p).update
      /\ inv(q).table = inv(p).table /\ inv(q).validate = inv(p).validate
      BY <1>1, <1>2, ZenonT(60) DEF Mate
<1>4. f = print_start(x, inv(q))
  <2>1. LET s == [inv(p) EXCEPT !.child = c]
        IN  s.child = c /\ s.parallel = inv(p).parallel /\ s.update = inv(p).update /\ s.validate = inv(p).validate
        BY <1>1 DEF CommandLine
  <2> QED
      BY <1>1, <1>3, <2>1 DEF print_start
<1>5. parallelism(q) = parallelism(p) /\ tablesOf(q) = tablesOf(p)
      BY <1>3 DEF parallelism, tablesOf, order
<1>6. todo[q] = {}
      BY <1>1 DEF RowsInv, Through
<1>7. t \in builders /\ (Complete(f) \/ Replaced(q, f))
      BY <1>1, <1>3, <1>4, <1>5, <1>6 DEF RowsInv, TablesSoFar
<1>8. ~ Replaced(q, f)
      BY DEF Settled, Replaced, Begun
<1>9. inv(q).parallel \in Nat
      BY <1>1 DEF CommandLine
<1>10. Due(f) = {k \in share(q, t).first .. (share(q, t).first + share(q, t).count - 1) : x \in Written(t, k)}
       BY <1>1, <1>4, <1>7, <1>9, DueOf
<1>11. share(q, t) = split_work(get_rowcount(t), parallelism(p), c)
       BY <1>1, <1>5 DEF share
<1> QED
    BY <1>7, <1>8, <1>10, <1>11 DEF Complete

\* Once the children of a build are done, their files hold the rows of every table once and in
\* order, for every plan that keeps forced processes apart and every number of children.
THEOREM BuiltOnce == ASSUME ForcedApart PROVE Spec => []NothingLostOrTwice
<1>1. TurnInv /\ WalkInv /\ RowsInv => NothingLostOrTwice
  <2> SUFFICES ASSUME TurnInv, RowsInv, NEW p \in DOMAIN plan, ~ inv(p).validate,
                      \A c \in 1 .. parallelism(p) : /\ {q \in DOMAIN plan : Mate(p, q, c)} # {}
                                                     /\ \A q \in {q \in DOMAIN plan : Mate(p, q, c)} : Settled(q),
                      NEW t \in tablesOf(p), NEW x \in Family(t)
               PROVE  LET rows(c) == rowsIn(print_start(x, [inv(p) EXCEPT !.child = c]))
                      IN  /\ UNION {ToSet(rows(c)) : c \in 1 .. parallelism(p)} =
                                 {k \in 1 .. get_rowcount(t) : x \in Written(t, k)}
                          /\ \A c \in 1 .. parallelism(p) : Increasing(rows(c))
                          /\ \A c, d \in 1 .. parallelism(p) : c < d =>
                                 \A k \in ToSet(rows(c)), l \in ToSet(rows(d)) : k < l
      BY DEF NothingLostOrTwice
  <2> DEFINE n       == parallelism(p)
             rows(c) == rowsIn(print_start(x, [inv(p) EXCEPT !.child = c]))
             work(c) == split_work(get_rowcount(t), n, c).first ..
                            (split_work(get_rowcount(t), n, c).first + split_work(get_rowcount(t), n, c).count - 1)
  <2>1. ASSUME NEW c \in 1 .. n
        PROVE  Increasing(rows(c)) /\ ToSet(rows(c)) = {k \in work(c) : x \in Written(t, k)}
    <3>1. PICK q \in DOMAIN plan : Mate(p, q, c) /\ Settled(q)
          OBVIOUS
    <3>2. PICK f : f = print_start(x, [inv(p) EXCEPT !.child = c])
          OBVIOUS
    <3> QED
        BY <3>1, <3>2, MateComplete DEF TurnInv
  <2>2. n \in Nat \ {0}
        BY PlansAssumption DEF TurnInv, FilesInv, RunsPlan, parallelism, CommandLine, inv
  <2>3. get_rowcount(t) \in Nat \ {0}
        BY AskedTables, ScalingAssumption DEF get_rowcount
  <2>4. /\ UNION {work(c) : c \in 1 .. n} = 1 .. get_rowcount(t)
        /\ \A c, d \in 1 .. n : c < d => \A k \in work(c), l \in work(d) : k < l
        BY <2>2, <2>3, SharesAreTheTable
  <2> HIDE DEF n, rows, work
  <2>5. UNION {ToSet(rows(c)) : c \in 1 .. n} = {k \in 1 .. get_rowcount(t) : x \in Written(t, k)}
        BY <2>1, <2>4
  <2>6. \A c, d \in 1 .. n : c < d => \A k \in ToSet(rows(c)), l \in ToSet(rows(d)) : k < l
        BY <2>1, <2>4
  <2> QED
      BY <2>1, <2>5, <2>6 DEF n, rows
<1>2. TurnInv /\ WalkInv /\ RowsInv /\ [Next]_vars => (TurnInv /\ WalkInv /\ RowsInv)'
      BY TurnNext, WalkNext, RowsNext DEF TurnInv
<1>3. Init => TurnInv /\ WalkInv /\ RowsInv
      BY TurnInit, WalkInit, RowsInit
<1> QED
    BY <1>1, <1>2, <1>3, PTL DEF Spec

(***************************************************************************)
(* Lines and the schema.                                                   *)
(***************************************************************************)
IsLine(s, n) == s \in Seq(Nat) /\ Len(s) = n

\* Fields 0 to l are those columns.
StartsTo(s, l) == \A i \in 0 .. l : s[i + 1] = i

LEMMA ColumnsLine ==
    \A a, b, n \in Nat : n = b - a + 1 => IsLine(Cols(a, b), n) /\ (a = 0 => StartsTo(Cols(a, b), b))
<1> TAKE a, b, n \in Nat
<1>1. n = b - a + 1 => Cols(a, b) \in [1 .. n -> Nat]
      BY DEF Cols
<1> QED
    BY <1>1 DEF Cols, IsLine, StartsTo

LEMMA JoinedLine ==
    ASSUME NEW s, NEW n \in Nat, IsLine(s, n), NEW l \in Nat, StartsTo(s, l), l < n,
           NEW u, NEW m \in Nat, IsLine(u, m), NEW k \in Nat, k = n + m
    PROVE  IsLine(s \o u, k) /\ StartsTo(s \o u, l)
<1>1. IsLine(s \o u, k)
      BY DEF IsLine
<1>2. ASSUME NEW i \in 0 .. l PROVE (s \o u)[i + 1] = i
  <2>1. i + 1 \in 1 .. Len(s) /\ s[i + 1] = i /\ s \in Seq(Nat) /\ u \in Seq(Nat)
        BY DEF IsLine, StartsTo
  <2> QED
      BY <2>1
<1> QED
    BY <1>1, <1>2 DEF StartsTo

\* How long the lines are, and how far they name columns in order.
LengthsAndStarts ==
    /\ IsLine(pr_w_call_center, 31) /\ StartsTo(pr_w_call_center, 19)
    /\ IsLine(pr_w_catalog_page, 9) /\ StartsTo(pr_w_catalog_page, 3)
    /\ IsLine(pr_w_catalog_returns, 27) /\ StartsTo(pr_w_catalog_returns, 26)
    /\ IsLine(pr_w_catalog_sales, 34) /\ StartsTo(pr_w_catalog_sales, 21)
    /\ IsLine(pr_w_customer, 18) /\ StartsTo(pr_w_customer, 17)
    /\ IsLine(pr_w_customer_address, 13) /\ StartsTo(pr_w_customer_address, 12)
    /\ IsLine(pr_w_customer_demographics, 9) /\ StartsTo(pr_w_customer_demographics, 8)
    /\ IsLine(pr_w_date, 28) /\ StartsTo(pr_w_date, 1)
    /\ IsLine(pr_w_household_demographics, 5) /\ StartsTo(pr_w_household_demographics, 4)
    /\ IsLine(pr_w_income_band, 3) /\ StartsTo(pr_w_income_band, 2)
    /\ IsLine(pr_w_inventory, 4) /\ StartsTo(pr_w_inventory, 3)
    /\ IsLine(pr_w_item, 22) /\ StartsTo(pr_w_item, 21)
    /\ IsLine(pr_w_promotion, 19) /\ StartsTo(pr_w_promotion, 18)
    /\ IsLine(pr_w_reason, 3) /\ StartsTo(pr_w_reason, 2)
    /\ IsLine(pr_w_ship_mode, 6) /\ StartsTo(pr_w_ship_mode, 3)
    /\ IsLine(pr_w_store, 29) /\ StartsTo(pr_w_store, 10)
    /\ IsLine(pr_w_store_returns, 20) /\ StartsTo(pr_w_store_returns, 19)
    /\ IsLine(pr_w_store_sales, 23) /\ StartsTo(pr_w_store_sales, 18)
    /\ IsLine(pr_w_time, 10) /\ StartsTo(pr_w_time, 9)
    /\ IsLine(pr_w_warehouse, 14) /\ StartsTo(pr_w_warehouse, 13)
    /\ IsLine(pr_w_web_page, 14) /\ StartsTo(pr_w_web_page, 13)
    /\ IsLine(pr_w_web_returns, 24) /\ StartsTo(pr_w_web_returns, 23)
    /\ IsLine(pr_w_web_sales, 34) /\ StartsTo(pr_w_web_sales, 33)
    /\ IsLine(pr_w_web_site, 26) /\ StartsTo(pr_w_web_site, 25)
    /\ IsLine(pr_dbgen_version, 4) /\ StartsTo(pr_dbgen_version, 3)
    /\ IsLine(pr_s_catalog_order, 8) /\ StartsTo(pr_s_catalog_order, 6)
    /\ IsLine(pr_s_catalog_order_lineitem, 12) /\ StartsTo(pr_s_catalog_order_lineitem, 1)
    /\ IsLine(pr_s_catalog_returns, 20) /\ StartsTo(pr_s_catalog_returns, 16)
    /\ IsLine(pr_s_inventory, 4) /\ StartsTo(pr_s_inventory, 3)
    /\ IsLine(pr_s_purchase, 8) /\ StartsTo(pr_s_purchase, 7)
    /\ IsLine(pr_s_pline, 8) /\ StartsTo(pr_s_pline, 1)
    /\ IsLine(pr_s_store_returns, 17) /\ StartsTo(pr_s_store_returns, 16)
    /\ IsLine(pr_s_web_order, 8) /\ StartsTo(pr_s_web_order, 7)
    /\ IsLine(pr_s_web_order_lineitem, 11) /\ StartsTo(pr_s_web_order_lineitem, 1)

LEMMA LinesAre == LengthsAndStarts
<1>1. IsLine(pr_w_call_center, 31) /\ StartsTo(pr_w_call_center, 19)
  <2>1. IsLine(Cols(0, 19), 20) /\ StartsTo(Cols(0, 19), 19)
        BY ColumnsLine
  <2>2. IsLine([i \in 1..10 |-> 30], 10)
        BY DEF IsLine
  <2>3. IsLine(<<31>>, 1)
        BY DEF IsLine
  <2>4. IsLine(Cols(0, 19) \o [i \in 1..10 |-> 30], 30) /\ StartsTo(Cols(0, 19) \o [i \in 1..10 |-> 30], 19)
        BY <2>1, <2>2, JoinedLine
  <2>5. IsLine(Cols(0, 19) \o [i \in 1..10 |-> 30] \o <<31>>, 31) /\ StartsTo(Cols(0, 19) \o [i \in 1..10 |-> 30] \o <<31>>, 19)
        BY <2>4, <2>3, JoinedLine
  <2> QED
      BY <2>5 DEF pr_w_call_center
<1>2. IsLine(pr_w_catalog_page, 9) /\ StartsTo(pr_w_catalog_page, 3)
  <2>1. IsLine(Cols(0, 3), 4) /\ StartsTo(Cols(0, 3), 3)
        BY ColumnsLine
  <2>2. IsLine(Cols(5, 9), 5)
        BY ColumnsLine
  <2>3. IsLine(Cols(0, 3) \o Cols(5, 9), 9) /\ StartsTo(Cols(0, 3) \o Cols(5, 9), 3)
        BY <2>1, <2>2, JoinedLine
  <2> QED
      BY <2>3 DEF pr_w_catalog_page
<1>3. IsLine(pr_w_catalog_returns, 27) /\ StartsTo(pr_w_catalog_returns, 26)
      BY ColumnsLine DEF pr_w_catalog_returns
<1>4. IsLine(pr_w_catalog_sales, 34) /\ StartsTo(pr_w_catalog_sales, 21)
  <2>1. IsLine(Cols(0, 21), 22) /\ StartsTo(Cols(0, 21), 21)
        BY ColumnsLine
  <2>2. IsLine(<<24, 23>>, 2)
        BY DEF IsLine
  <2>3. IsLine(Cols(25, 27), 3)
        BY ColumnsLine
  <2>4. IsLine(<<22>>, 1)
        BY DEF IsLine
  <2>5. IsLine(Cols(28, 33), 6)
        BY ColumnsLine
  <2>6. IsLine(Cols(0, 21) \o <<24, 23>>, 24) /\ StartsTo(Cols(0, 21) \o <<24, 23>>, 21)
        BY <2>1, <2>2, JoinedLine
  <2>7. IsLine(Cols(0, 21) \o <<24, 23>> \o Cols(25, 27), 27) /\ StartsTo(Cols(0, 21) \o <<24, 23>> \o Cols(25, 27), 21)
        BY <2>6, <2>3, JoinedLine
  <2>8. IsLine(Cols(0, 21) \o <<24, 23>> \o Cols(25, 27) \o <<22>>, 28) /\ StartsTo(Cols(0, 21) \o <<24, 23>> \o Cols(25, 27) \o <<22>>, 21)
        BY <2>7, <2>4, JoinedLine
  <2>9. IsLine(Cols(0, 21) \o <<24, 23>> \o Cols(25, 27) \o <<22>> \o Cols(28, 33), 34) /\ StartsTo(Cols(0, 21) \o <<24, 23>> \o Cols(25, 27) \o <<22>> \o Cols(28, 33), 21)
        BY <2>8, <2>5, JoinedLine
  <2> QED
      BY <2>9 DEF pr_w_catalog_sales
<1>5. IsLine(pr_w_customer, 18) /\ StartsTo(pr_w_customer, 17)
      BY ColumnsLine DEF pr_w_customer
<1>6. IsLine(pr_w_customer_address, 13) /\ StartsTo(pr_w_customer_address, 12)
      BY ColumnsLine DEF pr_w_customer_address
<1>7. IsLine(pr_w_customer_demographics, 9) /\ StartsTo(pr_w_customer_demographics, 8)
      BY ColumnsLine DEF pr_w_customer_demographics
<1>8. IsLine(pr_w_date, 28) /\ StartsTo(pr_w_date, 1)
  <2>1. IsLine(<<0, 1, 0>>, 3) /\ StartsTo(<<0, 1, 0>>, 1)
        BY DEF IsLine, StartsTo
  <2>2. IsLine(Cols(3, 27), 25)
        BY ColumnsLine
  <2>3. IsLine(<<0, 1, 0>> \o Cols(3, 27), 28) /\ StartsTo(<<0, 1, 0>> \o Cols(3, 27), 1)
        BY <2>1, <2>2, JoinedLine
  <2> QED
      BY <2>3 DEF pr_w_date
<1>9. IsLine(pr_w_household_demographics, 5) /\ StartsTo(pr_w_household_demographics, 4)
      BY ColumnsLine DEF pr_w_household_demographics
<1>10. IsLine(pr_w_income_band, 3) /\ StartsTo(pr_w_income_band, 2)
      BY ColumnsLine DEF pr_w_income_band
<1>11. IsLine(pr_w_inventory, 4) /\ StartsTo(pr_w_inventory, 3)
      BY ColumnsLine DEF pr_w_inventory
<1>12. IsLine(pr_w_item, 22) /\ StartsTo(pr_w_item, 21)
      BY ColumnsLine DEF pr_w_item
<1>13. IsLine(pr_w_promotion, 19) /\ StartsTo(pr_w_promotion, 18)
      BY ColumnsLine DEF pr_w_promotion
<1>14. IsLine(pr_w_reason, 3) /\ StartsTo(pr_w_reason, 2)
      BY ColumnsLine DEF pr_w_reason
<1>15. IsLine(pr_w_ship_mode, 6) /\ StartsTo(pr_w_ship_mode, 3)
  <2>1. IsLine(Cols(0, 3), 4) /\ StartsTo(Cols(0, 3), 3)
        BY ColumnsLine
  <2>2. IsLine(<<5, 4>>, 2)
        BY DEF IsLine
  <2>3. IsLine(Cols(0, 3) \o <<5, 4>>, 6) /\ StartsTo(Cols(0, 3) \o <<5, 4>>, 3)
        BY <2>1, <2>2, JoinedLine
  <2> QED
      BY <2>3 DEF pr_w_ship_mode
<1>16. IsLine(pr_w_store, 29) /\ StartsTo(pr_w_store, 10)
  <2>1. IsLine(Cols(0, 10), 11) /\ StartsTo(Cols(0, 10), 10)
        BY ColumnsLine
  <2>2. IsLine(Cols(12, 28), 17)
        BY ColumnsLine
  <2>3. IsLine(<<11>>, 1)
        BY DEF IsLine
  <2>4. IsLine(Cols(0, 10) \o Cols(12, 28), 28) /\ StartsTo(Cols(0, 10) \o Cols(12, 28), 10)
        BY <2>1, <2>2, JoinedLine
  <2>5. IsLine(Cols(0, 10) \o Cols(12, 28) \o <<11>>, 29) /\ StartsTo(Cols(0, 10) \o Cols(12, 28) \o <<11>>, 10)
        BY <2>4, <2>3, JoinedLine
  <2> QED
      BY <2>5 DEF pr_w_store
<1>17. IsLine(pr_w_store_returns, 20) /\ StartsTo(pr_w_store_returns, 19)
      BY ColumnsLine DEF pr_w_store_returns
<1>18. IsLine(pr_w_store_sales, 23) /\ StartsTo(pr_w_store_sales, 18)
  <2>1. IsLine(Cols(0, 18), 19) /\ StartsTo(Cols(0, 18), 18)
        BY ColumnsLine
  <2>2. IsLine(<<14>>, 1)
        BY DEF IsLine
  <2>3. IsLine(Cols(19, 21), 3)
        BY ColumnsLine
  <2>4. IsLine(Cols(0, 18) \o <<14>>, 20) /\ StartsTo(Cols(0, 18) \o <<14>>, 18)
        BY <2>1, <2>2, JoinedLine
  <2>5. IsLine(Cols(0, 18) \o <<14>> \o Cols(19, 21), 23) /\ StartsTo(Cols(0, 18) \o <<14>> \o Cols(19, 21), 18)
        BY <2>4, <2>3, JoinedLine
  <2> QED
      BY <2>5 DEF pr_w_store_sales
<1>19. IsLine(pr_w_time, 10) /\ StartsTo(pr_w_time, 9)
      BY ColumnsLine DEF pr_w_time
<1>20. IsLine(pr_w_warehouse, 14) /\ StartsTo(pr_w_warehouse, 13)
      BY ColumnsLine DEF pr_w_warehouse
<1>21. IsLine(pr_w_web_page, 14) /\ StartsTo(pr_w_web_page, 13)
      BY ColumnsLine DEF pr_w_web_page
<1>22. IsLine(pr_w_web_returns, 24) /\ StartsTo(pr_w_web_returns, 23)
      BY ColumnsLine DEF pr_w_web_returns
<1>23. IsLine(pr_w_web_sales, 34) /\ StartsTo(pr_w_web_sales, 33)
      BY ColumnsLine DEF pr_w_web_sales
<1>24. IsLine(pr_w_web_site, 26) /\ StartsTo(pr_w_web_site, 25)
      BY ColumnsLine DEF pr_w_web_site
<1>25. IsLine(pr_dbgen_version, 4) /\ StartsTo(pr_dbgen_version, 3)
      BY ColumnsLine DEF pr_dbgen_version
<1>26. IsLine(pr_s_catalog_order, 8) /\ StartsTo(pr_s_catalog_order, 6)
  <2>1. IsLine(Cols(0, 6), 7) /\ StartsTo(Cols(0, 6), 6)
        BY ColumnsLine
  <2>2. IsLine(<<8>>, 1)
        BY DEF IsLine
  <2>3. IsLine(Cols(0, 6) \o <<8>>, 8) /\ StartsTo(Cols(0, 6) \o <<8>>, 6)
        BY <2>1, <2>2, JoinedLine
  <2> QED
      BY <2>3 DEF pr_s_catalog_order
<1>27. IsLine(pr_s_catalog_order_lineitem, 12) /\ StartsTo(pr_s_catalog_order_lineitem, 1)
  <2>1. IsLine(<<0, 1, 7, 2, 3, 9>>, 6) /\ StartsTo(<<0, 1, 7, 2, 3, 9>>, 1)
        BY DEF IsLine, StartsTo
  <2>2. IsLine(Cols(4, 8), 5)
        BY ColumnsLine
  <2>3. IsLine(<<10>>, 1)
        BY DEF IsLine
  <2>4. IsLine(<<0, 1, 7, 2, 3, 9>> \o Cols(4, 8), 11) /\ StartsTo(<<0, 1, 7, 2, 3, 9>> \o Cols(4, 8), 1)
        BY <2>1, <2>2, JoinedLine
  <2>5. IsLine(<<0, 1, 7, 2, 3, 9>> \o Cols(4, 8) \o <<10>>, 12) /\ StartsTo(<<0, 1, 7, 2, 3, 9>> \o Cols(4, 8) \o <<10>>, 1)
        BY <2>4, <2>3, JoinedLine
  <2> QED
      BY <2>5 DEF pr_s_catalog_order_lineitem
<1>28. IsLine(pr_s_catalog_returns, 20) /\ StartsTo(pr_s_catalog_returns, 16)
  <2>1. IsLine(Cols(0, 16), 17) /\ StartsTo(Cols(0, 16), 16)
        BY ColumnsLine
  <2>2. IsLine(Cols(18, 20), 3)
        BY ColumnsLine
  <2>3. IsLine(Cols(0, 16) \o Cols(18, 20), 20) /\ StartsTo(Cols(0, 16) \o Cols(18, 20), 16)
        BY <2>1, <2>2, JoinedLine
  <2> QED
      BY <2>3 DEF pr_s_catalog_returns
<1>29. IsLine(pr_s_inventory, 4) /\ StartsTo(pr_s_inventory, 3)
      BY ColumnsLine DEF pr_s_inventory
<1>30. IsLine(pr_s_purchase, 8) /\ StartsTo(pr_s_purchase, 7)
      BY ColumnsLine DEF pr_s_purchase
<1>31. IsLine(pr_s_pline, 8) /\ StartsTo(pr_s_pline, 1)
  <2>1. IsLine(<<0, 1, 9, 2, 4, 3, 5, 6>>, 8) /\ StartsTo(<<0, 1, 9, 2, 4, 3, 5, 6>>, 1)
        BY DEF IsLine, StartsTo
  <2> QED
      BY <2>1 DEF pr_s_pline
<1>32. IsLine(pr_s_store_returns, 17) /\ StartsTo(pr_s_store_returns, 16)
      BY ColumnsLine DEF pr_s_store_returns
<1>33. IsLine(pr_s_web_order, 8) /\ StartsTo(pr_s_web_order, 7)
      BY ColumnsLine DEF pr_s_web_order
<1>34. IsLine(pr_s_web_order_lineitem, 11) /\ StartsTo(pr_s_web_order_lineitem, 1)
  <2>1. IsLine(<<0, 1, 8, 2, 3, 8>>, 6) /\ StartsTo(<<0, 1, 8, 2, 3, 8>>, 1)
        BY DEF IsLine, StartsTo
  <2>2. IsLine(Cols(4, 6), 3)
        BY ColumnsLine
  <2>3. IsLine(<<9, 7>>, 2)
        BY DEF IsLine
  <2>4. IsLine(<<0, 1, 8, 2, 3, 8>> \o Cols(4, 6), 9) /\ StartsTo(<<0, 1, 8, 2, 3, 8>> \o Cols(4, 6), 1)
        BY <2>1, <2>2, JoinedLine
  <2>5. IsLine(<<0, 1, 8, 2, 3, 8>> \o Cols(4, 6) \o <<9, 7>>, 11) /\ StartsTo(<<0, 1, 8, 2, 3, 8>> \o Cols(4, 6) \o <<9, 7>>, 1)
        BY <2>4, <2>3, JoinedLine
  <2> QED
      BY <2>5 DEF pr_s_web_order_lineitem
<1> QED
    BY <1>1, <1>2, <1>3, <1>4, <1>5, <1>6, <1>7, <1>8, <1>9, <1>10, <1>11, <1>12, <1>13, <1>14, <1>15, <1>16, <1>17, <1>18, <1>19, <1>20, <1>21, <1>22, <1>23, <1>24, <1>25, <1>26, <1>27, <1>28, <1>29, <1>30, <1>31, <1>32, <1>33, <1>34 DEF LengthsAndStarts

\* A line that begins with the columns that are not null, of a table that says so as well.
Fits(t) == Len(fields(t)) = schema[t].fields /\ \A i \in schema[t].notNull : ~ nullCheck(t, fields(t)[i + 1])

LEMMA LinesFit == \A t \in DOMAIN schema : Fits(t)
<1> SUFFICES ASSUME NEW t \in DOMAIN schema PROVE Fits(t)
    OBVIOUS
<1>1. CASE t = "CALL_CENTER"
  <2>1. fields(t) = pr_w_call_center /\ schema[t].fields = 31 /\ schema[t].notNull = {0, 1} /\ columnTable(t) = t
        BY <1>1 DEF fields, w_lines, schema, relation, columnTable, Refresh, s_tdefs
  <2>2. {0, 1} \cap kNullBitMap(t) = {}
        BY <1>1 DEF kNullBitMap, getSimpleTdefsByNumber, Refresh, s_tdefs, w_tdefs, tdef
  <2>3. pr_w_call_center[0+1] = 0 /\ pr_w_call_center[1+1] = 1
        BY LinesAre DEF LengthsAndStarts, StartsTo
  <2> QED
      BY <2>1, <2>2, <2>3, LinesAre DEF Fits, nullCheck, LengthsAndStarts, IsLine
<1>2. CASE t = "CATALOG_PAGE"
  <2>1. fields(t) = pr_w_catalog_page /\ schema[t].fields = 9 /\ schema[t].notNull = {0, 1} /\ columnTable(t) = t
        BY <1>2 DEF fields, w_lines, schema, relation, columnTable, Refresh, s_tdefs
  <2>2. {0, 1} \cap kNullBitMap(t) = {}
        BY <1>2 DEF kNullBitMap, getSimpleTdefsByNumber, Refresh, s_tdefs, w_tdefs, tdef
  <2>3. pr_w_catalog_page[0+1] = 0 /\ pr_w_catalog_page[1+1] = 1
        BY LinesAre DEF LengthsAndStarts, StartsTo
  <2> QED
      BY <2>1, <2>2, <2>3, LinesAre DEF Fits, nullCheck, LengthsAndStarts, IsLine
<1>3. CASE t = "CATALOG_RETURNS"
  <2>1. fields(t) = pr_w_catalog_returns /\ schema[t].fields = 27 /\ schema[t].notNull = {2, 16} /\ columnTable(t) = t
        BY <1>3 DEF fields, w_lines, schema, relation, columnTable, Refresh, s_tdefs
  <2>2. {2, 16} \cap kNullBitMap(t) = {}
        BY <1>3 DEF kNullBitMap, getSimpleTdefsByNumber, Refresh, s_tdefs, w_tdefs, tdef
  <2>3. pr_w_catalog_returns[2+1] = 2 /\ pr_w_catalog_returns[16+1] = 16
        BY LinesAre DEF LengthsAndStarts, StartsTo
  <2> QED
      BY <2>1, <2>2, <2>3, LinesAre DEF Fits, nullCheck, LengthsAndStarts, IsLine
<1>4. CASE t = "CATALOG_SALES"
  <2>1. fields(t) = pr_w_catalog_sales /\ schema[t].fields = 34 /\ schema[t].notNull = {15, 17} /\ columnTable(t) = t
        BY <1>4 DEF fields, w_lines, schema, relation, columnTable, Refresh, s_tdefs
  <2>2. {15, 17} \cap kNullBitMap(t) = {}
        BY <1>4 DEF kNullBitMap, getSimpleTdefsByNumber, Refresh, s_tdefs, w_tdefs, tdef
  <2>3. pr_w_catalog_sales[15+1] = 15 /\ pr_w_catalog_sales[17+1] = 17
        BY LinesAre DEF LengthsAndStarts, StartsTo
  <2> QED
      BY <2>1, <2>2, <2>3, LinesAre DEF Fits, nullCheck, LengthsAndStarts, IsLine
<1>5. CASE t = "CUSTOMER"
  <2>1. fields(t) = pr_w_customer /\ schema[t].fields = 18 /\ schema[t].notNull = {0, 1} /\ columnTable(t) = t
        BY <1>5 DEF fields, w_lines, schema, relation, columnTable, Refresh, s_tdefs
  <2>2. {0, 1} \cap kNullBitMap(t) = {}
        BY <1>5 DEF kNullBitMap, getSimpleTdefsByNumber, Refresh, s_tdefs, w_tdefs, tdef
  <2>3. pr_w_customer[0+1] = 0 /\ pr_w_customer[1+1] = 1
        BY LinesAre DEF LengthsAndStarts, StartsTo
  <2> QED
      BY <2>1, <2>2, <2>3, LinesAre DEF Fits, nullCheck, LengthsAndStarts, IsLine
<1>6. CASE t = "CUSTOMER_ADDRESS"
  <2>1. fields(t) = pr_w_customer_address /\ schema[t].fields = 13 /\ schema[t].notNull = {0, 1} /\ columnTable(t) = t
        BY <1>6 DEF fields, w_lines, schema, relation, columnTable, Refresh, s_tdefs
  <2>2. {0, 1} \cap kNullBitMap(t) = {}
        BY <1>6 DEF kNullBitMap, getSimpleTdefsByNumber, Refresh, s_tdefs, w_tdefs, tdef
  <2>3. pr_w_customer_address[0+1] = 0 /\ pr_w_customer_address[1+1] = 1
        BY LinesAre DEF LengthsAndStarts, StartsTo
  <2> QED
      BY <2>1, <2>2, <2>3, LinesAre DEF Fits, nullCheck, LengthsAndStarts, IsLine
<1>7. CASE t = "CUSTOMER_DEMOGRAPHICS"
  <2>1. fields(t) = pr_w_customer_demographics /\ schema[t].fields = 9 /\ schema[t].notNull = {0} /\ columnTable(t) = t
        BY <1>7 DEF fields, w_lines, schema, relation, columnTable, Refresh, s_tdefs
  <2>2. kNullBitMap(t) = {}
        BY <1>7 DEF kNullBitMap, nNullPct, Warehouse
  <2> QED
      BY <2>1, <2>2, LinesAre DEF Fits, nullCheck, LengthsAndStarts, IsLine
<1>8. CASE t = "DATE"
  <2>1. fields(t) = pr_w_date /\ schema[t].fields = 28 /\ schema[t].notNull = {0, 1, 2} /\ columnTable(t) = t
        BY <1>8 DEF fields, w_lines, schema, relation, columnTable, Refresh, s_tdefs
  <2>2. kNullBitMap(t) = {}
        BY <1>8 DEF kNullBitMap, nNullPct, Warehouse
  <2> QED
      BY <2>1, <2>2, LinesAre DEF Fits, nullCheck, LengthsAndStarts, IsLine
<1>9. CASE t = "HOUSEHOLD_DEMOGRAPHICS"
  <2>1. fields(t) = pr_w_household_demographics /\ schema[t].fields = 5 /\ schema[t].notNull = {0} /\ columnTable(t) = t
        BY <1>9 DEF fields, w_lines, schema, relation, columnTable, Refresh, s_tdefs
  <2>2. kNullBitMap(t) = {}
        BY <1>9 DEF kNullBitMap, nNullPct, Warehouse
  <2> QED
      BY <2>1, <2>2, LinesAre DEF Fits, nullCheck, LengthsAndStarts, IsLine
<1>10. CASE t = "INCOME_BAND"
  <2>1. fields(t) = pr_w_income_band /\ schema[t].fields = 3 /\ schema[t].notNull = {0} /\ columnTable(t) = t
        BY <1>10 DEF fields, w_lines, schema, relation, columnTable, Refresh, s_tdefs
  <2>2. kNullBitMap(t) = {}
        BY <1>10 DEF kNullBitMap, nNullPct, Warehouse
  <2> QED
      BY <2>1, <2>2, LinesAre DEF Fits, nullCheck, LengthsAndStarts, IsLine
<1>11. CASE t = "INVENTORY"
  <2>1. fields(t) = pr_w_inventory /\ schema[t].fields = 4 /\ schema[t].notNull = {0, 1, 2} /\ columnTable(t) = t
        BY <1>11 DEF fields, w_lines, schema, relation, columnTable, Refresh, s_tdefs
  <2>2. {0, 1, 2} \cap kNullBitMap(t) = {}
        BY <1>11 DEF kNullBitMap, getSimpleTdefsByNumber, Refresh, s_tdefs, w_tdefs, tdef
  <2>3. pr_w_inventory[0+1] = 0 /\ pr_w_inventory[1+1] = 1 /\ pr_w_inventory[2+1] = 2
        BY LinesAre DEF LengthsAndStarts, StartsTo
  <2> QED
      BY <2>1, <2>2, <2>3, LinesAre DEF Fits, nullCheck, LengthsAndStarts, IsLine
<1>12. CASE t = "ITEM"
  <2>1. fields(t) = pr_w_item /\ schema[t].fields = 22 /\ schema[t].notNull = {0, 1} /\ columnTable(t) = t
        BY <1>12 DEF fields, w_lines, schema, relation, columnTable, Refresh, s_tdefs
  <2>2. {0, 1} \cap kNullBitMap(t) = {}
        BY <1>12 DEF kNullBitMap, getSimpleTdefsByNumber, Refresh, s_tdefs, w_tdefs, tdef
  <2>3. pr_w_item[0+1] = 0 /\ pr_w_item[1+1] = 1
        BY LinesAre DEF LengthsAndStarts, StartsTo
  <2> QED
      BY <2>1, <2>2, <2>3, LinesAre DEF Fits, nullCheck, LengthsAndStarts, IsLine
<1>13. CASE t = "PROMOTION"
  <2>1. fields(t) = pr_w_promotion /\ schema[t].fields = 19 /\ schema[t].notNull = {0, 1} /\ columnTable(t) = t
        BY <1>13 DEF fields, w_lines, schema, relation, columnTable, Refresh, s_tdefs
  <2>2. {0, 1} \cap kNullBitMap(t) = {}
        BY <1>13 DEF kNullBitMap, getSimpleTdefsByNumber, Refresh, s_tdefs, w_tdefs, tdef
  <2>3. pr_w_promotion[0+1] = 0 /\ pr_w_promotion[1+1] = 1
        BY LinesAre DEF LengthsAndStarts, StartsTo
  <2> QED
      BY <2>1, <2>2, <2>3, LinesAre DEF Fits, nullCheck, LengthsAndStarts, IsLine
<1>14. CASE t = "REASON"
  <2>1. fields(t) = pr_w_reason /\ schema[t].fields = 3 /\ schema[t].notNull = {0, 1} /\ columnTable(t) = t
        BY <1>14 DEF fields, w_lines, schema, relation, columnTable, Refresh, s_tdefs
  <2>2. kNullBitMap(t) = {}
        BY <1>14 DEF kNullBitMap, nNullPct, Warehouse
  <2> QED
      BY <2>1, <2>2, LinesAre DEF Fits, nullCheck, LengthsAndStarts, IsLine
<1>15. CASE t = "SHIP_MODE"
  <2>1. fields(t) = pr_w_ship_mode /\ schema[t].fields = 6 /\ schema[t].notNull = {0, 1} /\ columnTable(t) = t
        BY <1>15 DEF fields, w_lines, schema, relation, columnTable, Refresh, s_tdefs
  <2>2. kNullBitMap(t) = {}
        BY <1>15 DEF kNullBitMap, nNullPct, Warehouse
  <2> QED
      BY <2>1, <2>2, LinesAre DEF Fits, nullCheck, LengthsAndStarts, IsLine
<1>16. CASE t = "STORE"
  <2>1. fields(t) = pr_w_store /\ schema[t].fields = 29 /\ schema[t].notNull = {0, 1} /\ columnTable(t) = t
        BY <1>16 DEF fields, w_lines, schema, relation, columnTable, Refresh, s_tdefs
  <2>2. {0, 1} \cap kNullBitMap(t) = {}
        BY <1>16 DEF kNullBitMap, getSimpleTdefsByNumber, Refresh, s_tdefs, w_tdefs, tdef
  <2>3. pr_w_store[0+1] = 0 /\ pr_w_store[1+1] = 1
        BY LinesAre DEF LengthsAndStarts, StartsTo
  <2> QED
      BY <2>1, <2>2, <2>3, LinesAre DEF Fits, nullCheck, LengthsAndStarts, IsLine
<1>17. CASE t = "STORE_RETURNS"
  <2>1. fields(t) = pr_w_store_returns /\ schema[t].fields = 20 /\ schema[t].notNull = {2, 9} /\ columnTable(t) = t
        BY <1>17 DEF fields, w_lines, schema, relation, columnTable, Refresh, s_tdefs
  <2>2. {2, 9} \cap kNullBitMap(t) = {}
        BY <1>17 DEF kNullBitMap, getSimpleTdefsByNumber, Refresh, s_tdefs, w_tdefs, tdef
  <2>3. pr_w_store_returns[2+1] = 2 /\ pr_w_store_returns[9+1] = 9
        BY LinesAre DEF LengthsAndStarts, StartsTo
  <2> QED
      BY <2>1, <2>2, <2>3, LinesAre DEF Fits, nullCheck, LengthsAndStarts, IsLine
<1>18. CASE t = "STORE_SALES"
  <2>1. fields(t) = pr_w_store_sales /\ schema[t].fields = 23 /\ schema[t].notNull = {2, 9} /\ columnTable(t) = t
        BY <1>18 DEF fields, w_lines, schema, relation, columnTable, Refresh, s_tdefs
  <2>2. {2, 9} \cap kNullBitMap(t) = {}
        BY <1>18 DEF kNullBitMap, getSimpleTdefsByNumber, Refresh, s_tdefs, w_tdefs, tdef
  <2>3. pr_w_store_sales[2+1] = 2 /\ pr_w_store_sales[9+1] = 9
        BY LinesAre DEF LengthsAndStarts, StartsTo
  <2> QED
      BY <2>1, <2>2, <2>3, LinesAre DEF Fits, nullCheck, LengthsAndStarts, IsLine
<1>19. CASE t = "TIME"
  <2>1. fields(t) = pr_w_time /\ schema[t].fields = 10 /\ schema[t].notNull = {0, 1, 2} /\ columnTable(t) = t
        BY <1>19 DEF fields, w_lines, schema, relation, columnTable, Refresh, s_tdefs
  <2>2. kNullBitMap(t) = {}
        BY <1>19 DEF kNullBitMap, nNullPct, Warehouse
  <2> QED
      BY <2>1, <2>2, LinesAre DEF Fits, nullCheck, LengthsAndStarts, IsLine
<1>20. CASE t = "WAREHOUSE"
  <2>1. fields(t) = pr_w_warehouse /\ schema[t].fields = 14 /\ schema[t].notNull = {0, 1} /\ columnTable(t) = t
        BY <1>20 DEF fields, w_lines, schema, relation, columnTable, Refresh, s_tdefs
  <2>2. {0, 1} \cap kNullBitMap(t) = {}
        BY <1>20 DEF kNullBitMap, getSimpleTdefsByNumber, Refresh, s_tdefs, w_tdefs, tdef
  <2>3. pr_w_warehouse[0+1] = 0 /\ pr_w_warehouse[1+1] = 1
        BY LinesAre DEF LengthsAndStarts, StartsTo
  <2> QED
      BY <2>1, <2>2, <2>3, LinesAre DEF Fits, nullCheck, LengthsAndStarts, IsLine
<1>21. CASE t = "WEB_PAGE"
  <2>1. fields(t) = pr_w_web_page /\ schema[t].fields = 14 /\ schema[t].notNull = {0, 1} /\ columnTable(t) = t
        BY <1>21 DEF fields, w_lines, schema, relation, columnTable, Refresh, s_tdefs
  <2>2. {0, 1} \cap kNullBitMap(t) = {}
        BY <1>21 DEF kNullBitMap, getSimpleTdefsByNumber, Refresh, s_tdefs, w_tdefs, tdef
  <2>3. pr_w_web_page[0+1] = 0 /\ pr_w_web_page[1+1] = 1
        BY LinesAre DEF LengthsAndStarts, StartsTo
  <2> QED
      BY <2>1, <2>2, <2>3, LinesAre DEF Fits, nullCheck, LengthsAndStarts, IsLine
<1>22. CASE t = "WEB_RETURNS"
  <2>1. fields(t) = pr_w_web_returns /\ schema[t].fields = 24 /\ schema[t].notNull = {2, 13} /\ columnTable(t) = t
        BY <1>22 DEF fields, w_lines, schema, relation, columnTable, Refresh, s_tdefs
  <2>2. {2, 13} \cap kNullBitMap(t) = {}
        BY <1>22 DEF kNullBitMap, getSimpleTdefsByNumber, Refresh, s_tdefs, w_tdefs, tdef
  <2>3. pr_w_web_returns[2+1] = 2 /\ pr_w_web_returns[13+1] = 13
        BY LinesAre DEF LengthsAndStarts, StartsTo
  <2> QED
      BY <2>1, <2>2, <2>3, LinesAre DEF Fits, nullCheck, LengthsAndStarts, IsLine
<1>23. CASE t = "WEB_SALES"
  <2>1. fields(t) = pr_w_web_sales /\ schema[t].fields = 34 /\ schema[t].notNull = {3, 17} /\ columnTable(t) = t
        BY <1>23 DEF fields, w_lines, schema, relation, columnTable, Refresh, s_tdefs
  <2>2. {3, 17} \cap kNullBitMap(t) = {}
        BY <1>23 DEF kNullBitMap, getSimpleTdefsByNumber, Refresh, s_tdefs, w_tdefs, tdef
  <2>3. pr_w_web_sales[3+1] = 3 /\ pr_w_web_sales[17+1] = 17
        BY LinesAre DEF LengthsAndStarts, StartsTo
  <2> QED
      BY <2>1, <2>2, <2>3, LinesAre DEF Fits, nullCheck, LengthsAndStarts, IsLine
<1>24. CASE t = "WEB_SITE"
  <2>1. fields(t) = pr_w_web_site /\ schema[t].fields = 26 /\ schema[t].notNull = {0, 1} /\ columnTable(t) = t
        BY <1>24 DEF fields, w_lines, schema, relation, columnTable, Refresh, s_tdefs
  <2>2. {0, 1} \cap kNullBitMap(t) = {}
        BY <1>24 DEF kNullBitMap, getSimpleTdefsByNumber, Refresh, s_tdefs, w_tdefs, tdef
  <2>3. pr_w_web_site[0+1] = 0 /\ pr_w_web_site[1+1] = 1
        BY LinesAre DEF LengthsAndStarts, StartsTo
  <2> QED
      BY <2>1, <2>2, <2>3, LinesAre DEF Fits, nullCheck, LengthsAndStarts, IsLine
<1>25. CASE t = "DBGEN_VERSION"
  <2>1. fields(t) = pr_dbgen_version /\ schema[t].fields = 4 /\ schema[t].notNull = {} /\ columnTable(t) = t
        BY <1>25 DEF fields, w_lines, schema, relation, columnTable, Refresh, s_tdefs
  <2>2. kNullBitMap(t) = {}
        BY <1>25 DEF kNullBitMap, nNullPct, Warehouse
  <2> QED
      BY <2>1, <2>2, LinesAre DEF Fits, nullCheck, LengthsAndStarts, IsLine
<1>26. CASE t = "S_CATALOG_ORDER"
  <2>1. fields(t) = pr_s_catalog_order /\ schema[t].fields = 8 /\ schema[t].notNull = {0} /\ columnTable(t) = t
        BY <1>26 DEF fields, s_lines, schema, relation, columnTable, Refresh, s_tdefs
  <2>2. kNullBitMap(t) = {}
        BY <1>26 DEF kNullBitMap, nNullPct, Warehouse, w_tdefs
  <2> QED
      BY <2>1, <2>2, LinesAre DEF Fits, nullCheck, LengthsAndStarts, IsLine
<1>27. CASE t = "S_CATALOG_ORDER_LINEITEM"
  <2>1. fields(t) = pr_s_catalog_order_lineitem /\ schema[t].fields = 12 /\ schema[t].notNull = {0, 1} /\ columnTable(t) = t
        BY <1>27 DEF fields, s_lines, schema, relation, columnTable, Refresh, s_tdefs
  <2>2. kNullBitMap(t) = {}
        BY <1>27 DEF kNullBitMap, nNullPct, Warehouse, w_tdefs
  <2> QED
      BY <2>1, <2>2, LinesAre DEF Fits, nullCheck, LengthsAndStarts, IsLine
<1>28. CASE t = "S_CATALOG_RETURNS"
  <2>1. fields(t) = pr_s_catalog_returns /\ schema[t].fields = 20 /\ schema[t].notNull = {1, 2, 3} /\ columnTable(t) = t
        BY <1>28 DEF fields, s_lines, schema, relation, columnTable, Refresh, s_tdefs
  <2>2. kNullBitMap(t) = {}
        BY <1>28 DEF kNullBitMap, nNullPct, Warehouse, w_tdefs
  <2> QED
      BY <2>1, <2>2, LinesAre DEF Fits, nullCheck, LengthsAndStarts, IsLine
<1>29. CASE t = "S_INVENTORY"
  <2>1. fields(t) = pr_s_inventory /\ schema[t].fields = 4 /\ schema[t].notNull = {0, 1, 2} /\ columnTable(t) = t
        BY <1>29 DEF fields, s_lines, schema, relation, columnTable, Refresh, s_tdefs
  <2>2. kNullBitMap(t) = {}
        BY <1>29 DEF kNullBitMap, nNullPct, Warehouse, w_tdefs
  <2> QED
      BY <2>1, <2>2, LinesAre DEF Fits, nullCheck, LengthsAndStarts, IsLine
<1>30. CASE t = "S_PURCHASE"
  <2>1. fields(t) = pr_s_purchase /\ schema[t].fields = 8 /\ schema[t].notNull = {0} /\ columnTable(t) = t
        BY <1>30 DEF fields, s_lines, schema, relation, columnTable, Refresh, s_tdefs
  <2>2. kNullBitMap(t) = {}
        BY <1>30 DEF kNullBitMap, nNullPct, Warehouse, w_tdefs
  <2> QED
      BY <2>1, <2>2, LinesAre DEF Fits, nullCheck, LengthsAndStarts, IsLine
<1>31. CASE t = "S_PURCHASE_LINEITEM"
  <2>1. fields(t) = pr_s_pline /\ schema[t].fields = 8 /\ schema[t].notNull = {0, 1} /\ columnTable(t) = t
        BY <1>31 DEF fields, s_lines, schema, relation, columnTable, Refresh, s_tdefs
  <2>2. kNullBitMap(t) = {}
        BY <1>31 DEF kNullBitMap, nNullPct, Warehouse, w_tdefs
  <2> QED
      BY <2>1, <2>2, LinesAre DEF Fits, nullCheck, LengthsAndStarts, IsLine
<1>32. CASE t = "S_STORE_RETURNS"
  <2>1. fields(t) = pr_s_store_returns /\ schema[t].fields = 17 /\ schema[t].notNull = {1, 2, 3} /\ columnTable(t) = t
        BY <1>32 DEF fields, s_lines, schema, relation, columnTable, Refresh, s_tdefs
  <2>2. kNullBitMap(t) = {}
        BY <1>32 DEF kNullBitMap, nNullPct, Warehouse, w_tdefs
  <2> QED
      BY <2>1, <2>2, LinesAre DEF Fits, nullCheck, LengthsAndStarts, IsLine
<1>33. CASE t = "S_WEB_ORDER"
  <2>1. fields(t) = pr_s_web_order /\ schema[t].fields = 8 /\ schema[t].notNull = {0} /\ columnTable(t) = t
        BY <1>33 DEF fields, s_lines, schema, relation, columnTable, Refresh, s_tdefs
  <2>2. kNullBitMap(t) = {}
        BY <1>33 DEF kNullBitMap, nNullPct, Warehouse, w_tdefs
  <2> QED
      BY <2>1, <2>2, LinesAre DEF Fits, nullCheck, LengthsAndStarts, IsLine
<1>34. CASE t = "S_WEB_ORDER_LINEITEM"
  <2>1. fields(t) = pr_s_web_order_lineitem /\ schema[t].fields = 11 /\ schema[t].notNull = {0, 1} /\ columnTable(t) = t
        BY <1>34 DEF fields, s_lines, schema, relation, columnTable, Refresh, s_tdefs
  <2>2. kNullBitMap(t) = {}
        BY <1>34 DEF kNullBitMap, nNullPct, Warehouse, w_tdefs
  <2> QED
      BY <2>1, <2>2, LinesAre DEF Fits, nullCheck, LengthsAndStarts, IsLine
<1> QED
    BY <1>1, <1>2, <1>3, <1>4, <1>5, <1>6, <1>7, <1>8, <1>9, <1>10, <1>11, <1>12, <1>13, <1>14, <1>15, <1>16, <1>17, <1>18, <1>19, <1>20, <1>21, <1>22, <1>23, <1>24, <1>25, <1>26, <1>27, <1>28, <1>29, <1>30, <1>31, <1>32, <1>33, <1>34 DEF schema

\* The lines of every plan fit the schema they are loaded into.
THEOREM LinesAlwaysFit == Spec => []LinesFitSchema
<1>1. LinesFitSchema
      BY LinesFit DEF LinesFitSchema, Fits
<1> QED
    BY <1>1, PTL
===============================================================================
