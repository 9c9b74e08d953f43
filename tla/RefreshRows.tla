----------------------------- MODULE RefreshRows -----------------------------
(***************************************************************************)
(* The builders of the refresh set (s_*.c): what row k draws.  A dimension *)
(* of the refresh set is a row of the warehouse dimension, chosen by a     *)
(* permutation of the business keys that the first row draws.  The entry   *)
(* of row k in the permutation is abstracted to k.                         *)
(***************************************************************************)
EXTENDS WarehouseRows

mk_s_call_center(k, bInit) ==
    If(bInit, makePermutation("S_CALL_CENTER_ID", getIDCount("CALL_CENTER")))
    (+) getSKFromID(k, "S_CALL_CENTER_ID") (+) mk_w_call_center(k, bInit)

mk_s_store(k, bInit) ==
    If(bInit, makePermutation("S_STORE_ID", getIDCount("STORE")))
    (+) getSKFromID(k, "S_STORE_ID") (+) mk_w_store(k, bInit)

mk_s_warehouse(k, bInit) ==
    If(bInit, makePermutation("S_WRHS_ID", getIDCount("WAREHOUSE")))
    (+) mk_w_warehouse(k, bInit)

mk_s_web_page(k, bInit) ==
    If(bInit, makePermutation("S_WPAG_PERMUTE", getIDCount("WEB_PAGE")))
    (+) getSKFromID(k, "S_WPAG_ID") (+) mk_w_web_page(k, bInit)

mk_s_item(k, bInit) ==
    If(bInit, makePermutation("S_ITEM_PERMUTE", getIDCount("ITEM")))
    (+) getSKFromID(k, "S_ITEM_ID") (+) mk_w_item(k, bInit)

mk_s_promotion(k, bInit) ==
    If(bInit, makePermutation("S_PROMOTION_ID", getIDCount("PROMOTION")))
    (+) mk_w_promotion(k, bInit)

mk_s_catalog_page(k, bInit) == mk_w_catalog_page(k, bInit)

mk_s_customer(k, bInit) ==
    If(bInit, makePermutation("S_CUST_ID", getIDCount("CUSTOMER")))
    (+) Each(1, {"S_CUST_GENDER", "S_CUST_FIRST_NAME", "S_CUST_SALUTATION", "S_CUST_LAST_NAME",
                 "S_CUST_PREFERRED_FLAG", "S_CUST_BIRTH_DATE", "S_CUST_FIRST_PURCHASE_DATE",
                 "S_CUST_FIRST_SHIPTO_DATE", "S_CUST_LAST_LOGIN", "S_CUST_LAST_REVIEW",
                 "S_CUST_LOCATION_TYPE", "S_CUST_PURCHASE_ESTIMATE", "S_CUST_VEHICLE_CNT",
                 "S_CUST_INCOME"})
    (+) gen_charset("S_CUST_LOGIN", 13) (+) genrand_email("S_CUST_EMAIL")
    (+) genrand_ipaddr("S_CUST_PRIMARY_MACHINE") (+) genrand_ipaddr("S_CUST_SECONDARY_MACHINE")
    (+) mk_w_customer_address(k, bInit)

mk_s_inventory(k, bInit) == genrand_integer("S_INVN_QUANTITY")
mk_s_zip(k, bInit)       == EmptyBag

(***************************************************************************)
(* Orders: a master, then a fixed number of lines.  The line builder draws *)
(* the permutation of the items with the first line of the process.        *)
(* How many lines of order k are returned is a random choice of the row.   *)
(***************************************************************************)
Lines(n, k, returned, kept) ==
    LET r == k % (n + 1)
    IN  If(r > 0, Times(r, returned)) (+) If(r < n, Times(n - r, kept))

mk_s_catalog_order_lineitem ==
    mk_join("S_CLIN_PROMOTION_ID", "PROMOTION") (+) mk_join("S_CLIN_WAREHOUSE_ID", "WAREHOUSE")
    (+) genrand_integer("S_CLIN_SHIP_DATE")
    (+) mk_join("S_CLIN_CATALOG_PAGE_ID", "CATALOG_PAGE") (+) set_pricing("S_CLIN_PRICING")

mk_s_catalog_returns ==
    genrand_integer("S_CRET_DATE") (+) mk_join("S_CRET_TIME", "TIME")
    (+) mk_join("S_CRET_CALL_CENTER_ID", "CALL_CENTER") (+) mk_join("S_CRET_REASON_ID", "REASON")
    (+) genrand_integer("S_CRET_PRICING") (+) set_pricing("S_CRET_PRICING")
    (+) mk_join("S_CRET_SHIPMODE_ID", "SHIP_MODE") (+) mk_join("S_CRET_WAREHOUSE_ID", "WAREHOUSE")

catalog_order_mk_master(k) ==
    genrand_integer("S_CORD_ORDER_TIME") (+) mk_join("S_CORD_BILL_CUSTOMER_ID", "CUSTOMER")
    (+) genrand_integer("S_CORD_SHIP_CUSTOMER_ID")
    (+) If(Chance(k), mk_join("S_CORD_SHIP_CUSTOMER_ID", "CUSTOMER"))
    (+) mk_join("S_CORD_SHIP_MODE_ID", "SHIP_MODE") (+) gen_text("S_CORD_COMMENT", k, 100)

catalog_order_mk_detail(returned) ==
    mk_s_catalog_order_lineitem (+) genrand_integer("S_CLIN_IS_RETURNED")
    (+) If(returned, mk_s_catalog_returns)

mk_s_catalog_order(k, bInit) ==
    catalog_order_mk_master(k) (+) genrand_integer("S_CLIN_ITEM_ID")
    (+) If(bInit, makePermutation("S_CLIN_PERMUTE", getIDCount("ITEM")))
    (+) Lines(9, k, catalog_order_mk_detail(TRUE), catalog_order_mk_detail(FALSE))

mk_s_pline(k) ==
    mk_join("S_PLINE_PROMOTION_ID", "PROMOTION") (+) genrand_integer("S_PLINE_QUANTITY")
    (+) set_pricing("S_PLINE_PRICING") (+) gen_text("S_PLINE_COMMENT", k, 100)

mk_s_store_returns ==
    mk_join("S_SRET_RETURN_TIME", "TIME") (+) genrand_integer("S_SRET_RETURN_DATE")
    (+) mk_join("S_SRET_REASON_ID", "REASON")
    (+) genrand_integer("S_SRET_PRICING") (+) set_pricing("S_SRET_PRICING")

purchase_mk_master(k) ==
    mk_join("S_PURCHASE_STORE_ID", "STORE") (+) mk_join("S_PURCHASE_CUSTOMER_ID", "CUSTOMER")
    (+) Each(1, {"S_PURCHASE_REGISTER", "S_PURCHASE_CLERK"})
    (+) gen_text("S_PURCHASE_COMMENT", k, 100)

purchase_mk_detail(k, returned) ==
    mk_s_pline(k) (+) genrand_integer("S_PLINE_IS_RETURNED")
    (+) If(returned, mk_s_store_returns)

mk_s_purchase(k, bInit) ==
    purchase_mk_master(k) (+) genrand_integer("S_PLINE_ITEM_ID")
    (+) If(bInit, makePermutation("S_PLINE_PERMUTE", getIDCount("ITEM")))
    (+) Lines(12, k, purchase_mk_detail(k, TRUE), purchase_mk_detail(k, FALSE))

mk_s_web_order_lineitem ==
    mk_join("S_WLIN_PROMOTION_ID", "PROMOTION") (+) mk_join("S_WLIN_WAREHOUSE_ID", "WAREHOUSE")
    (+) genrand_integer("S_WLIN_SHIP_DATE") (+) mk_join("S_WLIN_WEB_PAGE_ID", "WEB_PAGE")
    (+) set_pricing("S_WLIN_PRICING")

mk_s_web_return ==
    mk_join("S_WRET_RETURN_TIME", "TIME") (+) genrand_integer("S_WRET_RETURN_DATE")
    (+) Times(2, mk_join("S_WRET_REASON_ID", "REASON"))
    (+) genrand_integer("S_WRET_PRICING") (+) set_pricing("S_WRET_PRICING")

web_order_mk_master(k) ==
    mk_join("S_WORD_BILL_CUSTOMER_ID", "CUSTOMER") (+) genrand_integer("S_WORD_SHIP_CUSTOMER_ID")
    (+) If(Chance(k), mk_join("S_WORD_SHIP_CUSTOMER_ID", "CUSTOMER"))
    (+) genrand_integer("S_WORD_ORDER_TIME")
    (+) mk_join("S_WORD_SHIP_MODE_ID", "SHIP_MODE") (+) mk_join("S_WORD_WEB_SITE_ID", "WEB_SITE")
    (+) gen_text("S_WORD_COMMENT", k, 100)

web_order_mk_detail(returned) ==
    mk_s_web_order_lineitem (+) genrand_integer("S_WLIN_IS_RETURNED")
    (+) If(returned, mk_s_web_return)

mk_s_web_order(k, bInit) ==
    web_order_mk_master(k) (+) genrand_integer("S_WLIN_ITEM_ID")
    (+) If(bInit, makePermutation("S_WLIN_PERMUTE", getIDCount("ITEM")))
    (+) Lines(12, k, web_order_mk_detail(TRUE), web_order_mk_detail(FALSE))

\* builder of s_tdef_funcs.
s_tdef_funcs(t, k, bInit) ==
    CASE t = "S_CUSTOMER_ADDRESS" -> mk_w_customer_address(k, bInit)
      [] t = "S_CALL_CENTER"      -> mk_s_call_center(k, bInit)
      [] t = "S_CATALOG_ORDER"    -> mk_s_catalog_order(k, bInit)
      [] t = "S_CATALOG_PAGE"     -> mk_s_catalog_page(k, bInit)
      [] t = "S_CUSTOMER"         -> mk_s_customer(k, bInit)
      [] t = "S_INVENTORY"        -> mk_s_inventory(k, bInit)
      [] t = "S_ITEM"             -> mk_s_item(k, bInit)
      [] t = "S_PROMOTION"        -> mk_s_promotion(k, bInit)
      [] t = "S_PURCHASE"         -> mk_s_purchase(k, bInit)
      [] t = "S_STORE"            -> mk_s_store(k, bInit)
      [] t = "S_WAREHOUSE"        -> mk_s_warehouse(k, bInit)
      [] t = "S_WEB_ORDER"        -> mk_s_web_order(k, bInit)
      [] t = "S_WEB_PAGE"         -> mk_s_web_page(k, bInit)
      [] t = "S_WEB_SITE"         -> mk_w_web_site(k, bInit)
      [] t = "S_ZIPG"             -> mk_s_zip(k, bInit)

getTdefFunctionsByNumber(t, k, bInit) ==
    IF t \in Refresh THEN s_tdef_funcs(t, k, bInit) ELSE w_tdef_funcs(t, k, bInit)

\* The warehouse table a builder of the refresh set stops by itself.
ownRowStop(t) ==
    CASE t = "S_ITEM" -> {"ITEM"} [] t = "S_PROMOTION" -> {"PROMOTION"}
      [] t = "S_CATALOG_PAGE" -> {"CATALOG_PAGE"} [] OTHER -> {}
==============================================================================
