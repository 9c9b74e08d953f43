-------------------------------- MODULE Lines --------------------------------
(***************************************************************************)
(* How values become the text of a line (print.c, mk_bkey() of             *)
(* build_support.c).  A text is a sequence of characters.  A field is the  *)
(* text of a value, empty when the value is null, and the delimiter unless *)
(* it is the last.                                                         *)
(***************************************************************************)
EXTENDS Integers, SequencesExt

CONSTANT dttostr(_)   \* the text of a day

Figures == <<"0", "1", "2", "3", "4", "5", "6", "7", "8", "9">>

digits(n) ==
    LET of[m \in Nat] == IF m < 10 THEN <<Figures[m + 1]>> ELSE Append(of[m \div 10], Figures[(m % 10) + 1])
    IN  of[n]

\* %d, and %02d of a number that is not negative.
number(n)    == IF n < 0 THEN <<"-">> \o digits(-n) ELSE digits(n)
twoDigits(n) == IF n < 10 THEN <<"0">> \o digits(n) ELSE digits(n)

\* One character of the delimiter is written between fields.
print_separator(delimiter, sep) == IF sep THEN <<delimiter[1]>> ELSE << >>

print_integer(null, val) == IF null THEN << >> ELSE number(val)
print_varchar(null, val) == IF null THEN << >> ELSE val
print_char(null, val)    == IF null THEN << >> ELSE <<val>>
print_boolean(null, val) == IF null THEN << >> ELSE IF val THEN <<"Y">> ELSE <<"N">>
print_jdate(j)           == dttostr(j)
print_date(null, j)      == IF null \/ j <= 0 THEN << >> ELSE print_jdate(j)

\* The keys of a row that are to be null are -1.
print_key(null, val) == IF null \/ val = -1 THEN << >> ELSE number(val)

\* Hours and minutes are rounded to zero, so that -1 is still seen.
print_time(null, val) ==
    LET seconds == val % 60
    IN  IF null \/ val = -1 THEN << >>
        ELSE twoDigits(val \div 3600) \o <<":">> \o twoDigits((val % 3600) \div 60)
             \o <<":">> \o twoDigits(seconds)

\* The digits of the number, at least one before the point.
print_decimal(null, d) ==
    LET size  == IF d.number < 0 THEN -d.number ELSE d.number
        whole == digits(size \div 10 ^ d.precision)
        part  == digits(10 ^ d.precision + (size % (10 ^ d.precision)))
    IN  IF null THEN << >>
        ELSE (IF d.number < 0 THEN <<"-">> ELSE << >>) \o whole
             \o (IF d.precision = 0 THEN << >> ELSE <<".">> \o Tail(part))

szXlate == <<"A", "B", "C", "D", "E", "F", "G", "H", "I", "J", "K", "L", "M", "N", "O", "P">>

\* Eight letters, the lowest four bits first.
ltoc(nVal) == [i \in 1..8 |-> szXlate[((nVal \div 16 ^ (i - 1)) % 16) + 1]]

\* A key below 2^28, so that no power here is too large: its upper half is zero.
mk_bkey(kPrimary) == ltoc(0) \o ltoc(kPrimary)

print_id(null, val) == IF null \/ val = -1 THEN << >> ELSE mk_bkey(val)

print_string(val) == <<"R", "o", "w", " ", "#">> \o number(val) \o <<":", " ">>
print_validation(validate, k) == IF validate THEN print_string(k) ELSE << >>

\* The end of a line: the delimiter again, all of it, with TERMINATE.
print_end(delimiter, terminate) == (IF terminate THEN delimiter ELSE << >>) \o <<"\n">>

\* A line: the fields, the validated row's number before them.
print_line(delimiter, terminate, fields) ==
    FlattenSeq([i \in DOMAIN fields |-> fields[i] \o print_separator(delimiter, i < Len(fields))])
    \o print_end(delimiter, terminate)

\* A pair of days of a file of days to delete, with the whole delimiter between them.
print_delete(delimiter, terminate, pair) ==
    print_jdate(pair[1]) \o delimiter \o print_jdate(pair[2]) \o print_end(delimiter, terminate)
==============================================================================
