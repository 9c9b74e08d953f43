---------------------------- MODULE QueryTemplates ----------------------------
(***************************************************************************)
(* The templates of dsqgen as they are read (qgen.y, keywords.c,           *)
(* substitution.c, query_handler.c, list.c, parseTemplate() of             *)
(* QgenMain.c).  A file is a sequence of statements.  Substitutions are    *)
(* numbered in the order they are defined in; those of the keywords come   *)
(* first and belong to no template.  place is the place of each name in    *)
(* alphabetical order.                                                     *)
(***************************************************************************)
EXTENDS Integers, SequencesExt

(***************************************************************************)
(* Expressions, as the parser builds them (expr.c).  A text is a sequence  *)
(* of pieces, a number that is printed one of them.  An expression that    *)
(* ends the program where it is built has kind "BAD".                      *)
(***************************************************************************)
EXPR_FL_INT       == 8
EXPR_FL_CHAR      == 16
EXPR_FL_KEYWORD   == 64
EXPR_FL_DATE      == 128
EXPR_FL_TYPESHIFT == 256

makeExpr ==
    [kind |-> "CONST", types |-> {}, op |-> "", n |-> 0, text |-> << >>, args |-> << >>,
     mods |-> {}, nValueCount |-> 1, nSubElement |-> 1]

Bad(why) == [makeExpr EXCEPT !.kind = "BAD", !.op = why]

MakeReplacement(szText, nValue) ==
    [makeExpr EXCEPT !.kind = "REPL", !.types = {EXPR_FL_CHAR}, !.text = szText, !.n = nValue]

MakeStringConstant(szText) == [makeExpr EXCEPT !.types = {EXPR_FL_CHAR}, !.text = szText]

MakeIntConstant(nValue) == [makeExpr EXCEPT !.types = {EXPR_FL_INT}, !.n = nValue]

\* UNIFORM, SALES, and the predefined substitutions.
Keyword(name) == [MakeIntConstant(0) EXCEPT !.types = @ \cup {EXPR_FL_KEYWORD}, !.op = name]

\* A reference without a suffix, or with .begin, is to the first value.
MakeVariableReference(name, nSuffix) ==
    [makeExpr EXCEPT !.kind = "SUBST", !.types = {EXPR_FL_CHAR}, !.op = name,
                     !.nSubElement = IF nSuffix >= 1 THEN nSuffix ELSE 1]

\* The types are bits of a number, and the larger number is that of the result.
makeArithmeticExpr(op, arg1, arg2) ==
    LET number(types) == FoldSet(LAMBDA t, sum : t + sum, 0, types)
        types == IF number(arg1.types) >= number(arg2.types) THEN arg1.types ELSE arg2.types
    IN  IF "BAD" \in {arg1.kind, arg2.kind} THEN Bad("argument")
        ELSE [makeExpr EXCEPT !.kind = "FUNC", !.op = op, !.types = types, !.args = <<arg1, arg2>>]

(***************************************************************************)
(* LIST, ULIST and RANGE change a call: it gets one more argument.  An     *)
(* expression without arguments has no list to add it to.                  *)
(***************************************************************************)
MakeListExpr(modifier, expr, nArg) ==
    IF expr.kind # "FUNC" THEN Bad("no arguments")
    ELSE [expr EXCEPT !.mods = @ \cup {modifier}, !.args = Append(@, MakeIntConstant(nArg)),
                      !.nValueCount = IF modifier = "RANGE" THEN 2 ELSE nArg]

\* The types that can be read as a type.
canCast(from, to) ==
    CASE to = EXPR_FL_INT  -> from \cap {EXPR_FL_KEYWORD, EXPR_FL_INT, EXPR_FL_CHAR} # {}
      [] to = EXPR_FL_CHAR -> from \cap {EXPR_FL_CHAR, EXPR_FL_INT} # {}
      [] to = EXPR_FL_TYPESHIFT -> TRUE

arFuncInfo ==
    [DATE |-> EXPR_FL_DATE, DIST |-> EXPR_FL_CHAR, RANDOM |-> EXPR_FL_INT, TEXT |-> EXPR_FL_CHAR,
     DISTMEMBER |-> EXPR_FL_CHAR, DISTWEIGHT |-> EXPR_FL_INT]

arFuncArgs ==
    LET ofDist == <<EXPR_FL_CHAR, EXPR_FL_TYPESHIFT, EXPR_FL_TYPESHIFT>>
    IN  [DATE |-> <<EXPR_FL_CHAR, EXPR_FL_CHAR, EXPR_FL_INT>>, DIST |-> ofDist,
         RANDOM |-> <<EXPR_FL_INT, EXPR_FL_INT, EXPR_FL_INT>>, TEXT |-> <<EXPR_FL_CHAR, EXPR_FL_INT>>,
         DISTMEMBER |-> ofDist, DISTWEIGHT |-> ofDist]

\* Any number of replacements will do.
ValidateParams(func, args) ==
    \/ Len(args) > 0 /\ args[1].kind = "REPL"
    \/ /\ Len(args) = Len(arFuncArgs[func])
       /\ \A i \in DOMAIN args : canCast(args[i].types, arFuncArgs[func][i])

MakeFunctionCall(func, args) ==
    IF ValidateParams(func, args) /\ \A i \in DOMAIN args : args[i].kind # "BAD"
    THEN [makeExpr EXCEPT !.kind = "FUNC", !.op = func, !.types = {arFuncInfo[func]}, !.args = args]
    ELSE Bad("QERR_SYNTAX")

(***************************************************************************)
(* Templates.                                                              *)
(***************************************************************************)

\* A keyword whose name is a substitution of all templates.
KeyWords == <<"_QUERY", "_STREAM", "_TEMPLATE", "_SEED", "_LIMIT", "_LIMITA", "_LIMITB", "_LIMITC">>

\* What is read so far: all substitutions; the numbers in the list of the template, its
\* segments; the number _LIMIT stands for, in all templates.
InitKeywords(place) ==
    [place |-> place, subs |-> [i \in DOMAIN KeyWords |-> [name |-> KeyWords[i], expr |-> Keyword(KeyWords[i])]],
     list |-> << >>, segs |-> << >>, limit |-> 0, errors |-> 0, ended |-> FALSE, templates |-> << >>]

\* A sorted list: what is not the least of it is put in after its head.
addList(p, list, sub) ==
    LET name(i) == p.place[p.subs[i].name]
    IN  CASE list = << >> -> <<sub>>
          [] list # << >> /\ name(sub) <= name(Head(list)) -> <<sub>> \o list
          [] OTHER -> <<Head(list), sub>> \o Tail(list)

findList(p, list, name) ==
    LET at == SelectInSeq(list, LAMBDA i : p.subs[i].name = name)
    IN  IF at = 0 THEN 0 ELSE list[at]

\* A substitution of the template, or the keyword of that name, 0 for none; the keyword
\* is added to the template's list. The code leaves out a number at the end of a name,
\* and would have as many uses of the substitution. But a name that is looked for has no
\* digits: in brackets the tokenizer ends it before one (SUB_ID, tokenizer.l:97), so that
\* [NAME2] is a name and a number. Every substitution has values for one use (nUse = 1),
\* whatever number follows its name, and one defined with digits is never found.
findSubstitution(p, list, name) ==
    LET own    == findList(p, list, name)
        global == SelectInSeq(KeyWords, LAMBDA k : k = name)
    IN  CASE own # 0                -> [sub |-> own, list |-> list]
          [] own = 0 /\ global # 0  -> [sub |-> global, list |-> addList(p, list, global)]
          [] OTHER                  -> [sub |-> 0, list |-> list]

defineSubstitution(p, name, expr) ==
    LET q == [p EXCEPT !.subs = Append(@, [name |-> name, expr |-> expr])]
    IN  [q EXCEPT !.list = addList(q, p.list, Len(q.subs))]

\* define _LIMIT = n;
defineLimit(p, n) ==
    [p EXCEPT !.limit = n, !.list = findSubstitution(p, @, "_LIMIT").list]

NewSegment(text) == [text |-> text, sub |-> 0, nSubUse |-> 0, nSubCount |-> 0, eos |-> FALSE]

AddQuerySegment(p, text) == [p EXCEPT !.segs = Append(@, NewSegment(text))]

\* The substitution goes to the last segment, or to a new one when that has one. What is
\* not defined yet ends the program.
AddQuerySubstitution(p, name, nUse, suffix) ==
    LET found == findSubstitution(p, p.list, name)
        q     == IF p.segs = << >> \/ (Len(p.segs) > 0 /\ p.segs[Len(p.segs)].sub # 0)
                 THEN AddQuerySegment(p, << >>) ELSE p
        many  == p.subs[found.sub].expr.mods \cap {"LIST", "ULIST"} # {}
    IN  IF found.sub = 0 THEN [p EXCEPT !.ended = TRUE]
        ELSE [q EXCEPT !.list = found.list,
                 !.segs[Len(q.segs)].sub = found.sub,
                 !.segs[Len(q.segs)].nSubUse = IF many THEN suffix - 1 ELSE suffix,
                 !.segs[Len(q.segs)].nSubCount = nUse]

(***************************************************************************)
(* Expressions that are numbers when they are read.  The second table is   *)
(* looked up, but only the first is checked.                               *)
(***************************************************************************)
rowcount(tableRows, distSizes, name) ==
    CASE name \in DOMAIN tableRows -> MakeIntConstant(tableRows[name])
      [] name \in DOMAIN distSizes -> MakeIntConstant(distSizes[name])
      [] OTHER                     -> Bad("QERR_BAD_NAME")

rowcountOfTwo(tableRows, name1, name2) ==
    CASE {name1, name2} \subseteq DOMAIN tableRows ->
            MakeIntConstant(IF tableRows[name1] > tableRows[name2] THEN tableRows[name2] ELSE tableRows[name1])
      [] OTHER -> Bad("QERR_BAD_NAME")

scaleStep(scaleSlot) == MakeIntConstant(scaleSlot + 1)

(***************************************************************************)
(* Statements.                                                             *)
(***************************************************************************)
define(name, expr)  == [kind |-> "define", name |-> name, expr |-> expr]
limit(n)            == [kind |-> "limit", n |-> n]
include(file)       == [kind |-> "include", file |-> file]
query(parts)        == [kind |-> "query", parts |-> parts]
sql(text)           == [kind |-> "sql", text |-> text]
use(name, n, suffix) == [kind |-> "use", name |-> name, n |-> n, suffix |-> suffix]

define_statement(p, s) ==
    IF s.expr.kind = "BAD" THEN [p EXCEPT !.ended = TRUE] ELSE defineSubstitution(p, s.name, s.expr)

query_component(p, c) ==
    CASE p.ended -> p
      [] ~p.ended /\ c.kind = "sql" -> AddQuerySegment(p, c.text)
      [] OTHER -> AddQuerySubstitution(p, c.name, c.n, c.suffix)

\* The segment that is last when the statement ends is the one that ends with ";".
query_statement(p, s) ==
    LET q == FoldLeft(query_component, p, s.parts)
    IN  IF q.ended THEN q ELSE [q EXCEPT !.segs[Len(q.segs)].eos = TRUE]

\* A file that is included is read in the place of the statement.
RECURSIVE statement_list(_, _, _)
statement_list(files, p, file) ==
    LET include_statement(q, s) ==
            IF s.file \in DOMAIN files THEN statement_list(files, q, s.file)
            ELSE [q EXCEPT !.errors = @ + 1]
        statement(q, s) ==
            CASE q.ended                            -> q
              [] ~q.ended /\ s.kind = "include"     -> include_statement(q, s)
              [] ~q.ended /\ s.kind = "define"      -> define_statement(q, s)
              [] ~q.ended /\ s.kind = "limit"       -> defineLimit(q, s.n)
              [] OTHER                              -> query_statement(q, s)
    IN  FoldLeft(statement, p, files[file])

workload_spec(p) ==
    LET q == AddQuerySubstitution(AddQuerySegment(p, <<"\n">>), "_END", 0, 0)
    IN  IF p.ended \/ q.ended THEN [p EXCEPT !.ended = TRUE] ELSE AddQuerySegment(q, <<"\n">>)

(***************************************************************************)
(* A template is read after its dialect, and _BEGIN is put before it.      *)
(***************************************************************************)
addTemplate(read, file) ==
    LET begin == findSubstitution(read, read.list, "_BEGIN").sub
        segs  == <<[NewSegment(<< >>) EXCEPT !.sub = begin], NewSegment(<<"\n">>)>> \o read.segs
    IN  IF read.ended \/ read.errors > 0 THEN [read EXCEPT !.ended = TRUE]
        ELSE [read EXCEPT !.templates = Append(@, [name |-> file, list |-> read.list, segs |-> segs])]

parseTemplate(files, dialect, before, file) ==
    LET fresh == [before EXCEPT !.list = << >>, !.segs = << >>]
    IN  IF before.ended \/ ~({dialect, file} \subseteq DOMAIN files) THEN [fresh EXCEPT !.ended = TRUE]
        ELSE addTemplate(workload_spec(statement_list(files, statement_list(files, fresh, dialect), file)), file)

parseQueries(files, place, dialect, names) ==
    FoldLeft(LAMBDA p, name : parseTemplate(files, dialect, p, name), InitKeywords(place), names)
==============================================================================
