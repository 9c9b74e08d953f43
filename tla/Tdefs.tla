-------------------------------- MODULE Tdefs --------------------------------
(***************************************************************************)
(* The table descriptions of dsdgen: the array w_tdefs of the warehouse    *)
(* tables and s_tdefs of the refresh set, in the order of the arrays.      *)
(* Entries flagged FL_NOP are left out: no loop of the program reaches     *)
(* their builders.  A flag is a string, the NOT NULL bit map a set of      *)
(* column positions, nParam the name of the child table.                   *)
(***************************************************************************)
EXTENDS Naturals, Sequences, SequencesExt

NoTable == "no table"

tdef(flags, child, notNull) ==
    [flags |-> flags, nParam |-> child, kNotNullBitMap |-> notNull]

w_tdefs ==
    [CALL_CENTER            |-> tdef({"TYPE_2", "SMALL"}, NoTable, {0, 1, 3}),
     CATALOG_PAGE           |-> tdef({}, NoTable, {0, 1}),
     CATALOG_RETURNS        |-> tdef({"CHILD"}, NoTable, {0, 1, 2, 16}),
     CATALOG_SALES          |-> tdef({"PARENT", "DATE_BASED"}, "CATALOG_RETURNS", {15, 17}),
     CUSTOMER               |-> tdef({}, NoTable, {0, 1, 4}),
     CUSTOMER_ADDRESS       |-> tdef({}, NoTable, {0, 1}),
     CUSTOMER_DEMOGRAPHICS  |-> tdef({}, NoTable, {0}),
     DATE                   |-> tdef({}, NoTable, {0, 1}),
     HOUSEHOLD_DEMOGRAPHICS |-> tdef({}, NoTable, {0}),
     INCOME_BAND            |-> tdef({}, NoTable, {0}),
     INVENTORY              |-> tdef({"DATE_BASED"}, NoTable, {0, 1, 2}),
     ITEM                   |-> tdef({"TYPE_2"}, NoTable, {0, 1, 3}),
     PROMOTION              |-> tdef({}, NoTable, {0, 1}),
     REASON                 |-> tdef({}, NoTable, {0, 1}),
     SHIP_MODE              |-> tdef({}, NoTable, {0, 1}),
     STORE                  |-> tdef({"TYPE_2", "SMALL"}, NoTable, {0, 1, 3}),
     STORE_RETURNS          |-> tdef({"CHILD"}, NoTable, {2, 9}),
     STORE_SALES            |-> tdef({"PARENT", "DATE_BASED"}, "STORE_RETURNS", {2, 9}),
     TIME                   |-> tdef({}, NoTable, {0, 1}),
     WAREHOUSE              |-> tdef({"SMALL"}, NoTable, {0, 1}),
     WEB_PAGE               |-> tdef({"TYPE_2"}, NoTable, {0, 1, 3}),
     WEB_RETURNS            |-> tdef({"CHILD"}, NoTable, {2, 13}),
     WEB_SALES              |-> tdef({"PARENT", "DATE_BASED"}, "WEB_RETURNS", {3, 17}),
     WEB_SITE               |-> tdef({"TYPE_2", "SMALL"}, NoTable, {0, 1, 3}),
     DBGEN_VERSION          |-> tdef({}, NoTable, {})]

\* FL_SOURCE_DDL is set for every entry of s_tdefs.
s_tdef(flags, child, notNull) == tdef(flags \cup {"SOURCE_DDL"}, child, notNull)

s_tdefs ==
    [S_CUSTOMER_ADDRESS |-> s_tdef({"PASSTHRU"}, NoTable, {0}),
     S_CALL_CENTER      |-> s_tdef({}, NoTable, {1}),
     S_CATALOG_ORDER    |-> s_tdef({"PARENT", "DATE_BASED"}, "S_CATALOG_ORDER_LINEITEM", {0}),
     S_CATALOG_ORDER_LINEITEM |-> s_tdef({"CHILD", "PARENT"}, "S_CATALOG_RETURNS", {0, 1, 2}),
     S_CATALOG_PAGE     |-> s_tdef({"PASSTHRU"}, NoTable, {0, 1, 4, 5}),
     S_CATALOG_RETURNS  |-> s_tdef({"CHILD"}, NoTable, {1, 2, 3}),
     S_CUSTOMER         |-> s_tdef({}, NoTable, {0}),
     S_INVENTORY        |-> s_tdef({"DATE_BASED"}, NoTable, {0, 1, 2}),
     S_ITEM             |-> s_tdef({}, NoTable, {0}),
     S_PROMOTION        |-> s_tdef({"PASSTHRU"}, NoTable, {0}),
     S_PURCHASE         |-> s_tdef({"PARENT", "DATE_BASED"}, "S_PURCHASE_LINEITEM", {0}),
     S_PURCHASE_LINEITEM |-> s_tdef({"CHILD", "PARENT"}, "S_STORE_RETURNS", {0, 1, 2}),
     S_STORE            |-> s_tdef({}, NoTable, {0}),
     S_STORE_RETURNS    |-> s_tdef({"CHILD"}, NoTable, {1, 2, 3}),
     S_WAREHOUSE        |-> s_tdef({}, NoTable, {0}),
     S_WEB_ORDER        |-> s_tdef({"PARENT", "DATE_BASED"}, "S_WEB_ORDER_LINEITEM", {0}),
     S_WEB_ORDER_LINEITEM |-> s_tdef({"CHILD", "PARENT"}, "S_WEB_RETURNS", {0, 1, 2}),
     S_WEB_PAGE         |-> s_tdef({"PASSTHRU"}, NoTable, {0}),
     S_WEB_RETURNS      |-> s_tdef({"CHILD"}, NoTable, {1, 2, 3}),
     S_WEB_SITE         |-> s_tdef({}, NoTable, {0}),
     S_ZIPG             |-> s_tdef({}, NoTable, {0, 1})]

\* The arrays in the order main() walks them.
warehouseOrder ==
    <<"CALL_CENTER", "CATALOG_PAGE", "CATALOG_RETURNS", "CATALOG_SALES", "CUSTOMER",
      "CUSTOMER_ADDRESS", "CUSTOMER_DEMOGRAPHICS", "DATE", "HOUSEHOLD_DEMOGRAPHICS",
      "INCOME_BAND", "INVENTORY", "ITEM", "PROMOTION", "REASON", "SHIP_MODE", "STORE",
      "STORE_RETURNS", "STORE_SALES", "TIME", "WAREHOUSE", "WEB_PAGE", "WEB_RETURNS",
      "WEB_SALES", "WEB_SITE", "DBGEN_VERSION">>

refreshOrder ==
    <<"S_CUSTOMER_ADDRESS", "S_CALL_CENTER", "S_CATALOG_ORDER",
      "S_CATALOG_ORDER_LINEITEM", "S_CATALOG_PAGE", "S_CATALOG_RETURNS", "S_CUSTOMER",
      "S_INVENTORY", "S_ITEM", "S_PROMOTION", "S_PURCHASE", "S_PURCHASE_LINEITEM",
      "S_STORE", "S_STORE_RETURNS", "S_WAREHOUSE", "S_WEB_ORDER",
      "S_WEB_ORDER_LINEITEM", "S_WEB_PAGE", "S_WEB_RETURNS", "S_WEB_SITE", "S_ZIPG">>

Warehouse == DOMAIN w_tdefs
Refresh   == DOMAIN s_tdefs
Tables    == Warehouse \cup Refresh

getSimpleTdefsByNumber(t) == IF t \in Refresh THEN s_tdefs[t] ELSE w_tdefs[t]

IsFlagSet(t, flag) == flag \in getSimpleTdefsByNumber(t).flags

\* A table, its child and the child of its child: what row_stop() covers.
Family(t) ==
    LET child(x) == IF IsFlagSet(x, "PARENT") THEN {getSimpleTdefsByNumber(x).nParam} ELSE {}
    IN  {t} \cup child(t) \cup UNION {child(c) : c \in child(t)}
==============================================================================
