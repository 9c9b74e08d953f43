------------------------------ MODULE FlatFiles ------------------------------
(***************************************************************************)
(* The flat files of dsdgen: which file a process writes a table to        *)
(* (print.c), and what the fields of its lines are (pr_* of the tables).   *)
(* A field is the position of its column in the bit map of nulls: the      *)
(* number of the column less that of the first column of its table.        *)
(***************************************************************************)
EXTENDS Tdefs, Integers

Cols(first, last) == [i \in 1..(last - first + 1) |-> first + i - 1]

pr_dbgen_version == Cols(0, 3)
pr_w_call_center == Cols(0, 19) \o [i \in 1..10 |-> 30] \o <<31>>
pr_w_catalog_page == Cols(0, 3) \o Cols(5, 9)
pr_w_catalog_returns == Cols(0, 26)
pr_w_catalog_sales == Cols(0, 21) \o <<24, 23>> \o Cols(25, 27) \o <<22>> \o Cols(28, 33)
pr_w_customer == Cols(0, 17)
pr_w_customer_address == Cols(0, 12)
pr_w_customer_demographics == Cols(0, 8)
pr_w_date == <<0, 1, 0>> \o Cols(3, 27)
pr_w_household_demographics == Cols(0, 4)
pr_w_income_band == Cols(0, 2)
pr_w_inventory == Cols(0, 3)
pr_w_item_NoFormulation == Cols(0, 17) \o Cols(19, 21)
pr_w_item == Cols(0, 21)
pr_w_promotion == Cols(0, 18)
pr_w_reason == Cols(0, 2)
pr_w_ship_mode == Cols(0, 3) \o <<5, 4>>
pr_w_store == Cols(0, 10) \o Cols(12, 28) \o <<11>>
pr_w_store_returns == Cols(0, 19)
pr_w_store_sales == Cols(0, 18) \o <<14>> \o Cols(19, 21)
pr_w_time == Cols(0, 9)
pr_w_warehouse == Cols(0, 13)
pr_w_web_page == Cols(0, 13)
pr_w_web_returns == Cols(0, 23)
pr_w_web_sales == Cols(0, 33)
pr_w_web_site == Cols(0, 25)

pr_s_call_center == <<0, 5, 4>> \o Cols(6, 11) \o <<31>>
pr_s_catalog_order == Cols(0, 6) \o <<8>>
pr_s_catalog_order_lineitem == <<0, 1, 7, 2, 3, 9>> \o Cols(4, 8) \o <<10>>
pr_s_catalog_page == Cols(0, 7)
pr_s_catalog_returns == Cols(0, 16) \o Cols(18, 20)
pr_s_customer ==
    Cols(0, 5) \o Cols(8, 11) \o <<7, 6>> \o Cols(12, 14) \o <<16, 20>> \o Cols(17, 19)
    \o Cols(21, 37)
pr_s_customer_address == Cols(0, 10)
pr_s_inventory == Cols(0, 3)
pr_s_item == <<0>> \o Cols(3, 5) \o Cols(7, 11) \o <<6>>
pr_s_pline == <<0, 1, 9, 2, 4, 3, 5, 6>>
pr_s_promotion == <<1, 7, 2, 2, 5, 6>> \o Cols(8, 18)
pr_s_purchase == Cols(0, 7)
pr_s_store == <<1>> \o Cols(4, 10) \o <<12, 14, 11>>
pr_s_store_returns == Cols(0, 16)
pr_s_warehouse == Cols(1, 3)
pr_s_web_order == Cols(0, 7)
pr_s_web_order_lineitem == <<0, 1, 8, 2, 3, 8>> \o Cols(4, 6) \o <<9, 7>>
pr_s_web_page == <<1>> \o Cols(4, 6) \o Cols(8, 13)
pr_s_web_return == Cols(0, 7) \o [i \in 1..8 |-> 9] \o <<8>>
pr_s_web_site == <<1, 5, 6, 4, 7, 8, 25>>
pr_s_zip == <<0, 1>>

\* loader of w_tdef_funcs and s_tdef_funcs: the fields of a line of the table.
w_lines ==
    [CALL_CENTER |-> pr_w_call_center, CATALOG_PAGE |-> pr_w_catalog_page,
     CATALOG_RETURNS |-> pr_w_catalog_returns, CATALOG_SALES |-> pr_w_catalog_sales,
     CUSTOMER |-> pr_w_customer, CUSTOMER_ADDRESS |-> pr_w_customer_address,
     CUSTOMER_DEMOGRAPHICS |-> pr_w_customer_demographics, DATE |-> pr_w_date,
     HOUSEHOLD_DEMOGRAPHICS |-> pr_w_household_demographics,
     INCOME_BAND |-> pr_w_income_band, INVENTORY |-> pr_w_inventory, ITEM |-> pr_w_item,
     PROMOTION |-> pr_w_promotion, REASON |-> pr_w_reason, SHIP_MODE |-> pr_w_ship_mode,
     STORE |-> pr_w_store, STORE_RETURNS |-> pr_w_store_returns,
     STORE_SALES |-> pr_w_store_sales, TIME |-> pr_w_time, WAREHOUSE |-> pr_w_warehouse,
     WEB_PAGE |-> pr_w_web_page, WEB_RETURNS |-> pr_w_web_returns,
     WEB_SALES |-> pr_w_web_sales, WEB_SITE |-> pr_w_web_site,
     DBGEN_VERSION |-> pr_dbgen_version]

s_lines ==
    [S_CALL_CENTER |-> pr_s_call_center, S_CATALOG_ORDER |-> pr_s_catalog_order,
     S_CATALOG_ORDER_LINEITEM |-> pr_s_catalog_order_lineitem,
     S_CATALOG_PAGE |-> pr_s_catalog_page, S_CATALOG_RETURNS |-> pr_s_catalog_returns,
     S_CUSTOMER |-> pr_s_customer, S_CUSTOMER_ADDRESS |-> pr_s_customer_address,
     S_INVENTORY |-> pr_s_inventory, S_ITEM |-> pr_s_item,
     S_PURCHASE_LINEITEM |-> pr_s_pline, S_PROMOTION |-> pr_s_promotion,
     S_PURCHASE |-> pr_s_purchase, S_STORE |-> pr_s_store,
     S_STORE_RETURNS |-> pr_s_store_returns, S_WAREHOUSE |-> pr_s_warehouse,
     S_WEB_ORDER |-> pr_s_web_order, S_WEB_ORDER_LINEITEM |-> pr_s_web_order_lineitem,
     S_WEB_PAGE |-> pr_s_web_page, S_WEB_RETURNS |-> pr_s_web_return,
     S_WEB_SITE |-> pr_s_web_site, S_ZIPG |-> pr_s_zip]

fields(t) == IF t \in Refresh THEN s_lines[t] ELSE w_lines[t]

\* The table whose columns the loader of t names, and whose nulls it prints.
columnTable(t) ==
    CASE t = "S_CALL_CENTER" -> "CALL_CENTER" [] t = "S_PROMOTION" -> "PROMOTION"
      [] t = "S_STORE" -> "STORE" [] t = "S_WAREHOUSE" -> "WAREHOUSE"
      [] t = "S_WEB_PAGE" -> "WEB_PAGE" [] t = "S_WEB_SITE" -> "WEB_SITE" [] OTHER -> t

\* The tables with a share of rows with nulls: nNullPct > 0.
nNullPct == Warehouse \ {"CUSTOMER_DEMOGRAPHICS", "DATE", "HOUSEHOLD_DEMOGRAPHICS",
                         "INCOME_BAND", "REASON", "SHIP_MODE", "TIME", "DBGEN_VERSION"}

\* The bit map is a key of at most MAXINT: bits 0 to 30, less those declared NOT NULL.
kNullBitMap(t) ==
    IF t \in nNullPct THEN 0..30 \ getSimpleTdefsByNumber(t).kNotNullBitMap ELSE {}

\* Some row of the table has the column of position p null.
nullCheck(t, p) == p \in kNullBitMap(columnTable(t))

(***************************************************************************)
(* File names.  inv is the command line: parallel and update are 0 when    *)
(* the option is not set.                                                  *)
(***************************************************************************)
print_start(t, inv) ==
    [table    |-> t,
     child    |-> IF inv.parallel > 0 THEN <<inv.child, inv.parallel>> ELSE <<>>,
     update   |-> IF inv.parallel = 0 THEN inv.update ELSE 0,
     validate |-> inv.validate]

\* The files of the days to delete have no number of a child.
openDeleteFile(name, inv) ==
    [table |-> name, child |-> <<>>, update |-> inv.update, validate |-> FALSE]

deleteFiles(inv) ==
    IF inv.update > 0 THEN {openDeleteFile(n, inv) : n \in {"delete", "inventory_delete"}} ELSE {}

\* The files print_close() closes: the table's, its child's and so on.
print_close(t, inv) == {print_start(f, inv) : f \in Family(t)}
==============================================================================
