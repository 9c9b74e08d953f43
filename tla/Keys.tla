--------------------------------- MODULE Keys ---------------------------------
(***************************************************************************)
(* The keys of the dimensions that change slowly (scd.c), of the tables    *)
(* whose keys name combinations of entries (build_support.c), and of       *)
(* tables by their names (driver.c, tdefs.c).  An id has one, two or three *)
(* revisions, in turn; every six rows hold three ids.                      *)
(***************************************************************************)
EXTENDS Integers, SequencesExt

CONSTANTS DATA_START_DATE, DATA_END_DATE  \* days

jMinimumDataDate == DATA_START_DATE
jMaximumDataDate == DATA_END_DATE
jH1DataDate == jMinimumDataDate + (jMaximumDataDate - jMinimumDataDate) \div 2
jT1DataDate == jMinimumDataDate + (jMaximumDataDate - jMinimumDataDate) \div 3
jT2DataDate == jT1DataDate + (jMaximumDataDate - jMinimumDataDate) \div 3

\* The business key of row kIndex as the row it is made from, and the days the revision
\* is in force from and to; -1 is no end.  Dates are six days earlier for each table.
setSCDKeys(nTableID, kIndex) ==
    LET at(date) == date - nTableID * 6
        revision(row, begin, end) ==
            [bNewBKey |-> row = kIndex, of |-> row, begin |-> begin,
             end |-> IF end > jMaximumDataDate THEN -1 ELSE end]
    IN  CASE kIndex % 6 = 1 -> revision(kIndex, at(jMinimumDataDate), -1)
          [] kIndex % 6 = 2 -> revision(kIndex, at(jMinimumDataDate), at(jH1DataDate))
          [] kIndex % 6 = 3 -> revision(kIndex - 1, at(jH1DataDate) + 1, -1)
          [] kIndex % 6 = 4 -> revision(kIndex, at(jMinimumDataDate), at(jT1DataDate))
          [] kIndex % 6 = 5 -> revision(kIndex - 1, at(jT1DataDate) + 1, at(jT2DataDate))
          [] kIndex % 6 = 0 -> revision(kIndex - 2, at(jT2DataDate) + 1, -1)

\* The row of the first revision of id kID.
getFirstSK(kID) ==
    CASE kID % 3 = 1 -> (kID \div 3) * 6 + 1
      [] kID % 3 = 2 -> (kID \div 3) * 6 + 2
      [] kID % 3 = 0 -> (kID \div 3 - 1) * 6 + 4

\* A row of any revision of it.
getSKFromID(kID) ==
    CASE kID % 3 = 1 -> {getFirstSK(kID)}
      [] kID % 3 = 2 -> {getFirstSK(kID), getFirstSK(kID) + 1}
      [] kID % 3 = 0 -> {getFirstSK(kID), getFirstSK(kID) + 1, getFirstSK(kID) + 2}

matchSCDSK_FirstThird(kUnique, jDate, rows) ==
    LET after(date) == IF jDate > date THEN 1 ELSE 0
        kReturn ==
            CASE kUnique % 3 = 1 -> (kUnique \div 3) * 6 + 1
              [] kUnique % 3 = 2 -> (kUnique \div 3) * 6 + 2 + after(jH1DataDate)
              [] kUnique % 3 = 0 -> (kUnique \div 3) * 6 - 2 + 2 * after(jT1DataDate)
    IN  IF kReturn > rows THEN rows ELSE kReturn

\* The revision for a day, by the dates without the shift of the table. Rows that are not
\* there become the last.
matchSCDSK(kUnique, jDate, rows) ==
    LET after(date) == IF jDate > date THEN 1 ELSE 0
        kReturn ==
            CASE kUnique % 3 = 1 -> (kUnique \div 3) * 6 + 1
              [] kUnique % 3 = 2 -> (kUnique \div 3) * 6 + 2 + after(jH1DataDate)
              [] kUnique % 3 = 0 -> (kUnique \div 3) * 6 - 2 + after(jT1DataDate) + after(jT2DataDate)
    IN  IF kReturn > rows THEN rows ELSE kReturn

\* No revision lies in the future.
scd_join(kUnique, jDate, rows) == IF jDate > jMaximumDataDate THEN -1 ELSE matchSCDSK(kUnique, jDate, rows)

\* changeSCD(): what a column and the last value kept for it become. The revision after the
\* first keeps the last value when its flag is odd, but not a text that is pointed to: only
\* the routine's own copy of the pointer is moved, so that neither text changes.
changeSCD(nDataType, new, old, nFlags, bFirst) ==
    LET retained == nFlags % 2 = 1 /\ ~bFirst
        byValue  == nDataType # "SCD_PTR"
    IN  [new   |-> IF retained /\ byValue THEN old ELSE new,
         old   |-> IF ~retained /\ byValue THEN new ELSE old,
         flags |-> nFlags \div 2]

(***************************************************************************)
(* Tables whose row number says which entries of distributions it is for.  *)
(***************************************************************************)

\* The entry, from 1, and what is left of the number for the next distribution.
bitmap_to_dist(modulus, size) == [entry |-> (modulus % size) + 1, rest |-> modulus \div size]

\* The entries of row number k in distributions of these sizes.
entriesOf(k, sizes) ==
    LET left[i \in 1..(Len(sizes) + 1)] ==
            IF i = 1 THEN k - 1 ELSE bitmap_to_dist(left[i - 1], sizes[i - 1]).rest
    IN  [i \in DOMAIN sizes |-> bitmap_to_dist(left[i], sizes[i]).entry]

\* A word of syllables, one for each digit of the number, until one has no room. Every
\* syllable takes a letter at least.
mk_word(syllables, src, char_cnt) ==
    LET syllable(i) == syllables[(i % Len(syllables)) + 1]
        word[n \in Nat] ==
            IF n = 0 THEN [text |-> << >>, i |-> src]
            ELSE LET w == word[n - 1]
                 IN  IF w.i = 0 THEN w
                     ELSE IF Len(w.text) + Len(syllable(w.i)) > char_cnt THEN [w EXCEPT !.i = 0]
                     ELSE [text |-> w.text \o syllable(w.i), i |-> w.i \div Len(syllables)]
    IN  word[char_cnt].text

\* hierarchy_item(): the ids of a category, of a class of it and of a brand of that, for
\* row kIndex; brandCount is the number of the class's brands.
hierarchy_item(category, class, brandCount, kIndex) ==
    [category_id |-> category, class_id |-> class,
     brand_id |-> (category * 1000 + class) * 1000 + (kIndex % brandCount) + 1]

\* city_hash(): of the places of a name's letters after "A" (a space is 33 before it). The
\* number that is collected goes beyond an int when a space comes first in it: such names
\* are left out.
city_hash(name) ==
    LET step(acc, c) ==
            LET hash_value == acc.hash_value * 26 + c
            IN  IF hash_value > 1000000 THEN [hash_value |-> 0, res |-> acc.res + (hash_value % 10000)]
                ELSE [acc EXCEPT !.hash_value = hash_value]
        all == FoldLeft(step, [hash_value |-> 0, res |-> 0], name)
    IN  (all.res + (all.hash_value % 1000)) % 10000

\* The catalog a page is in: three pages of each, or so.
getCatalogNumberFromPage(kPageNumber, pages) == kPageNumber \div ((pages \div 18) \div 6)

(***************************************************************************)
(* Names of tables.  names are those of w_tdefs and then s_tdefs.          *)
(***************************************************************************)
\* The place of the table of that name, or else of the first whose name begins with it; 0
\* for none, which ends the program. "ALL" is the first table, as if it were named.
find_table(names, tname) ==
    LET exact  == SelectInSeq(names, LAMBDA name : name = tname)
        prefix == SelectInSeq(names, LAMBDA name : IsPrefix(tname, name))
    IN  IF tname = <<"A", "L", "L">> THEN 1 ELSE IF exact # 0 THEN exact ELSE prefix

\* The number of a table in the distribution of row counts, from 0; -1 for no table.
GetTableNumber(rowcounts, name) == SelectInSeq(rowcounts, LAMBDA n : n = name) - 1
==============================================================================
