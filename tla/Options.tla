------------------------------- MODULE Options -------------------------------
(***************************************************************************)
(* Command lines and parameter files (r_params.c) of dsdgen, dsqgen and    *)
(* distcomp.  A word is a record: dash says that it begins with the option *)
(* character, matches is the set of the options whose names it is a prefix *)
(* of, text what it is as a value.  A parameter file is a sequence of      *)
(* lines, a name and a value; lines that name no option are left out, and  *)
(* no line names PARAMS.                                                   *)
(***************************************************************************)
EXTENDS Integers, Sequences, FiniteSets

option(type, dflt) == [type |-> type, dflt |-> dflt, preset |-> FALSE]
prog(name)         == [type |-> "STR", dflt |-> name, preset |-> TRUE]

dsdgen_options ==
    [ABREVIATION |-> option("STR", ""), DELIMITER |-> option("STR", "|"),
     DIR |-> option("STR", "."), DISTRIBUTIONS |-> option("STR", "tpcds.idx"),
     FORCE |-> option("FLG", "N"), HELP |-> option("INT", "0"),
     PARAMS |-> option("STR", ""), PROG |-> prog("dsdgen"), QUIET |-> option("FLG", "N"),
     SCALE |-> option("INT", "1"), SUFFIX |-> option("STR", ".dat"),
     TABLE |-> option("STR", "ALL"), TERMINATE |-> option("FLG", "Y"),
     UPDATE |-> option("INT", ""), VERBOSE |-> option("FLG", "N"),
     _SCALE_INDEX |-> option("INT", "1"), PARALLEL |-> option("INT", ""),
     CHILD |-> option("INT", "1"), CHKSEEDS |-> option("FLG", "N"),
     RELEASE |-> option("FLG", "N"), _FILTER |-> option("FLG", "N"),
     VALIDATE |-> option("FLG", "N"), VCOUNT |-> option("INT", "50"),
     VSUFFIX |-> option("STR", ".vld"), RNGSEED |-> option("INT", "19620718")]

dsqgen_options ==
    [PROG |-> prog("qgen2"), FILE |-> option("STR", ""), VERBOSE |-> option("FLG", "N"),
     HELP |-> option("FLG", "N"), DISTRIBUTIONS |-> option("STR", "tpcds.idx"),
     OUTPUT_DIR |-> option("STR", "."), PATH_SEP |-> option("STR", "/"),
     DUMP |-> option("FLG", "N"), YYDEBUG |-> option("FLG", "N"), QUIET |-> option("FLG", "N"),
     STREAMS |-> option("INT", "1"), INPUT |-> option("STR", ""), SCALE |-> option("INT", "1"),
     RNGSEED |-> option("INT", "19620718"), RELEASE |-> option("FLG", ""),
     TEMPLATE |-> option("STR", ""), COUNT |-> option("INT", "1"), DEBUG |-> option("FLG", "N"),
     LOG |-> option("STR", ""), FILTER |-> option("FLG", "N"), QUALIFY |-> option("FLG", "N"),
     DIALECT |-> option("STR", "ansi"), DIRECTORY |-> option("STR", "")]

distcomp_options ==
    [PROG |-> prog("distcomp"), INPUT |-> option("STR", ""), VERBOSE |-> option("FLG", "N"),
     HELP |-> option("FLG", "N"), OUTPUT |-> option("STR", "."), HEADER |-> option("STR", "")]

optionsOf ==
    [dsdgen |-> dsdgen_options, dsqgen |-> dsqgen_options, distcomp |-> distcomp_options]

\* What comes of a program's start: it goes on, or it ends with a message ("usage"), or
\* it reads through a null pointer ("crash").
Going == "going"

\* params holds the values; set the options with OPT_SET.
init_params(tool) ==
    LET options == optionsOf[tool]
    IN  [params |-> [o \in DOMAIN options |-> options[o].dflt],
         set    |-> {o \in DOMAIN options : options[o].preset},
         status |-> Going]

NoWord == [dash |-> FALSE, matches |-> {}, text |-> "no word"]

\* The option a word names: the only one it is a prefix of. "" for none.
fnd_param(matches) == IF Cardinality(matches) = 1 THEN CHOOSE o \in matches : TRUE ELSE ""

set_flg(s, o)      == [s EXCEPT !.params[o] = "Y"]
clr_flg(s, o)      == [s EXCEPT !.params[o] = "N"]
set_int(s, o, val) == [s EXCEPT !.params[o] = val, !.set = @ \cup {o}]

set_str_Unmarked(s, o, val) == [s EXCEPT !.params[o] = val]

set_str(s, o, val) == [s EXCEPT !.params[o] = val, !.set = @ \cup {o}]
get_str(s, o)      == s.params[o]

\* A number option or a text counts as set when it has a default.
is_set(tool, s, o) ==
    /\ o \in DOMAIN optionsOf[tool]
    /\ IF optionsOf[tool][o].type = "FLG" THEN s.params[o] = "Y"
       ELSE o \in s.set \/ optionsOf[tool][o].dflt # ""

\* The scale of a text, a power of ten here: the band is its number of digits.
SetScaleIndex(s, val) ==
    set_int(s, "_SCALE_INDEX",
            CASE val = "100" -> "3" [] val = "1000" -> "4" [] val = "10" -> "2" [] OTHER -> "1")

usage(s) == [s EXCEPT !.status = "usage"]

\* set_option() for an option of a known name; filed is s once the file param names is read.
set_option(tool, s, o, param, filed) ==
    LET type   == optionsOf[tool][o].type
        yes    == param = NoWord \/ param.dash \/ param.text = "Y"
        ending == o \in {"HELP", "RELEASE"} /\ (type = "INT" \/ yes)
        flag   == IF yes THEN set_flg(s, o) ELSE clr_flg(s, o)
    IN  CASE ending -> usage(s)
          [] ~ending /\ type = "FLG" -> [flag EXCEPT !.set = @ \cup {o}]
          [] ~ending /\ type # "FLG" /\ param = NoWord -> [s EXCEPT !.status = "crash"]
          [] tool = "dsdgen" /\ o = "SCALE" -> set_int(SetScaleIndex(s, param.text), o, param.text)
          [] o \in {"PARAMS", "FILE"} ->
                IF filed.status = Going THEN set_str(filed, o, param.text) ELSE filed
          [] OTHER -> set_str(s, o, param.text)

\* How many words an option takes.
taken(tool, o) == IF optionsOf[tool][o].type = "FLG" THEN 1 ELSE 2

\* A line sets an option that is not set yet, and names no file of its own here; files maps
\* names to files that can be read.
read_file(tool, files, s, file) ==
    IF file \notin DOMAIN files THEN usage(s)
    ELSE LET lines == files[file]
             after[i \in 0..Len(lines)] ==
                 IF i = 0 THEN s
                 ELSE LET o == fnd_param(lines[i].matches)
                      IN  IF o = "" \/ o \in after[i - 1].set \/ after[i - 1].status # Going
                          THEN after[i - 1]
                          ELSE set_option(tool, after[i - 1], o, lines[i].value, after[i - 1])
         IN  after[Len(lines)]

\* The words are walked by as many as set_option() returned last: a word that is no
\* option is passed over, together with the word after it when the last option had a value.
process_options(tool, files, args) ==
    LET walk[i \in 1..(Len(args) + 2)] ==
            \* the state before word i, and by how many words the walk goes on
            IF i = 1 THEN [s |-> init_params(tool), at |-> 1, res |-> 1]
            ELSE LET w == walk[i - 1]
                     o == fnd_param(args[w.at].matches)
                     next == IF w.at < Len(args) THEN args[w.at + 1] ELSE NoWord
                 IN  CASE w.at > Len(args) \/ w.s.status # Going -> w
                       [] w.at <= Len(args) /\ w.s.status = Going /\ ~args[w.at].dash ->
                             [w EXCEPT !.at = @ + w.res]
                       [] w.at <= Len(args) /\ w.s.status = Going /\ args[w.at].dash /\ o = "" ->
                             [w EXCEPT !.s = usage(w.s)]
                       [] OTHER ->
                             [s |-> set_option(tool, w.s, o, next, read_file(tool, files, w.s, next.text)),
                              at |-> w.at + taken(tool, o), res |-> taken(tool, o)]
    IN  walk[Len(args) + 2].s
==============================================================================
