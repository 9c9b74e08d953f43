----------------------------- MODULE WarehouseRows -----------------------------
(***************************************************************************)
(* The builders of the warehouse tables (w_*.c): what row k draws, and     *)
(* from the streams of which columns.  bInit is TRUE for the first row a   *)
(* process builds of the table, where a builder sets up its statics.       *)
(***************************************************************************)
EXTENDS Streams, Scaling

(***************************************************************************)
(* Joins: a key of another table, valid at the date of the fact.           *)
(***************************************************************************)
cp_join(c)   == pick_distribution(c) (+) genrand_integer(c)
time_join(c) == pick_distribution(c) (+) genrand_integer(c)
scd_join(c)  == genrand_key(c)

\* Dates of sites and pages.  The creation date of a page is drawn when its site is
\* one in nParam, and nParam of WEB_PAGE is -1: always.  The others are computed.
web_join(c) == If(c = "WP_CREATION_DATE_SK", genrand_integer(c))

\* The day a fact happens on, or that of a column of WEB_SITE or WEB_PAGE.
date_join(c) ==
    IF c \in {"WEB_OPEN_DATE", "WEB_CLOSE_DATE", "WP_CREATION_DATE_SK"} THEN web_join(c) ELSE Each(1, {c})

\* A join to DATE draws the year first.
mk_join(c, to) ==
    CASE to = "CATALOG_PAGE" -> cp_join(c)
      [] to = "TIME"         -> time_join(c)
      [] to = "DATE"         -> genrand_integer(c) (+) date_join(c)
      [] IsFlagSet(to, "TYPE_2") -> scd_join(c)
      [] OTHER               -> genrand_key(c)

\* A permutation of n numbers takes n draws.
makePermutation(c, n) == Each(n, {c})

\* Sales draw eight numbers, returns four of their own.  The returns of a refresh
\* set have no case: nothing is drawn and no amount is computed.
set_pricing(c) ==
    CASE c \in {"CS_PRICING", "SS_PRICING", "WS_PRICING", "S_CLIN_PRICING",
                "S_PLINE_PRICING", "S_WLIN_PRICING"} -> Each(8, {c})
      [] c \in {"CR_PRICING", "SR_PRICING", "WR_PRICING"} -> Each(4, {c})
      [] OTHER -> EmptyBag

\* The first of the revisions of a business key: setSCDKeys() returns bNewBKey.
bNewBKey(k) == k % 6 \in {1, 2, 4}

\* Some revision of business key k: drawn when it has more than one.
getSKFromID(k, c) == If(k % 3 # 1, genrand_integer(c))

(***************************************************************************)
(* Dimensions.                                                             *)
(***************************************************************************)
mk_w_call_center(k, bInit) ==
    nullSet("CC_NULLS")
    (+) If(bNewBKey(k), genrand_integer("CC_OPEN_DATE_ID") (+) mk_address("CC_ADDRESS"))
    (+) Each(1, {"CC_SCD", "CC_CLASS", "CC_EMPLOYEES", "CC_SQ_FT", "CC_HOURS", "CC_MARKET_ID"})
    (+) Each(2, {"CC_MANAGER", "CC_MARKET_MANAGER", "CC_COMPANY"})
    (+) gen_text("CC_MARKET_CLASS", k, 50) (+) gen_text("CC_MARKET_DESC", k, 50)
    (+) genrand_decimal("CC_TAX_PERCENTAGE")

mk_w_catalog_page(k, bInit) ==
    nullSet("CP_NULLS") (+) gen_text("CP_DESCRIPTION", k, 100)

mk_w_customer(k, bInit) ==
    nullSet("C_NULLS")
    (+) mk_join("C_CURRENT_HDEMO_SK", "HOUSEHOLD_DEMOGRAPHICS")
    (+) mk_join("C_CURRENT_CDEMO_SK", "CUSTOMER_DEMOGRAPHICS")
    (+) mk_join("C_CURRENT_ADDR_SK", "CUSTOMER_ADDRESS")
    (+) Each(1, {"C_PREFERRED_CUST_FLAG", "C_FIRST_NAME", "C_LAST_NAME", "C_SALUTATION"})
    (+) genrand_date("C_BIRTH_DAY") (+) genrand_email("C_EMAIL_ADDRESS")
    (+) genrand_date("C_LAST_REVIEW_DATE") (+) genrand_date("C_FIRST_SALES_DATE_ID")
    (+) pick_distribution("C_BIRTH_COUNTRY")

mk_w_customer_address(k, bInit) ==
    nullSet("CA_NULLS") (+) pick_distribution("CA_LOCATION_TYPE") (+) mk_address("CA_ADDRESS")

\* The rows of these tables are a function of the row number but for the nulls.
mk_w_customer_demographics(k, bInit)  == nullSet("CD_NULLS")
mk_w_date(k, bInit)                   == nullSet("D_NULLS")
mk_w_household_demographics(k, bInit) == nullSet("HD_NULLS")
mk_w_income_band(k, bInit)            == nullSet("IB_NULLS")
mk_w_reason(k, bInit)                 == nullSet("R_NULLS")
mk_w_time(k, bInit)                   == nullSet("T_NULLS")
mk_dbgen_version(k, bInit)            == EmptyBag

mk_w_inventory(k, bInit) == nullSet("INV_NULLS") (+) genrand_integer("INV_QUANTITY_ON_HAND")

\* Category and class are picked with streams of their own.  The container is picked
\* with the number of the table in place of a column: that is the stream of CC_HOURS.
mk_w_item(k, bInit) ==
    nullSet("I_NULLS")
    (+) pick_distribution("I_MANAGER_ID") (+) genrand_key("I_MANAGER_ID")
    (+) Each(1, {"I_SCD", "I_WHOLESALE_COST", "I_CATEGORY", "I_CLASS", "I_SIZE"})
    (+) gen_text("I_ITEM_DESC", k, 200)
    (+) pick_distribution("I_CURRENT_PRICE") (+) genrand_decimal("I_CURRENT_PRICE")
    (+) pick_distribution("I_MANUFACT_ID") (+) genrand_integer("I_MANUFACT_ID")
    (+) gen_charset("I_FORMULATION", 20) (+) Each(2, {"I_FORMULATION"})
    (+) Each(1, {"I_COLOR", "I_UNITS", "CC_HOURS"})
    (+) mk_join("I_PROMO_SK", "PROMOTION") (+) genrand_integer("I_PROMO_SK")

mk_w_promotion(k, bInit) ==
    nullSet("P_NULLS")
    (+) Each(1, {"P_START_DATE_ID", "P_END_DATE_ID", "P_CHANNEL_DMAIL", "P_PURPOSE"})
    (+) mk_join("P_ITEM_SK", "ITEM") (+) gen_text("P_CHANNEL_DETAILS", k, 100)

mk_w_ship_mode(k, bInit) == nullSet("SM_NULLS") (+) gen_charset("SM_CONTRACT", 20)

mk_w_store(k, bInit) ==
    nullSet("W_STORE_NULLS")
    (+) Each(2, {"W_STORE_CLOSED_DATE_ID", "W_STORE_MANAGER", "W_STORE_MARKET_MANAGER"})
    (+) Each(1, {"W_STORE_SCD", "W_STORE_TYPE", "W_STORE_EMPLOYEES", "W_STORE_FLOOR_SPACE",
                 "W_STORE_HOURS", "W_STORE_MARKET_ID", "W_STORE_TAX_PERCENTAGE",
                 "W_STORE_GEOGRAPHY_CLASS", "W_STORE_DIVISION_NAME", "W_STORE_COMPANY_NAME"})
    (+) gen_text("W_STORE_MARKET_DESC", k, 100) (+) mk_address("W_STORE_ADDRESS")

mk_w_warehouse(k, bInit) ==
    nullSet("W_NULLS") (+) gen_text("W_WAREHOUSE_NAME", k, 80)
    (+) genrand_integer("W_WAREHOUSE_SQ_FT") (+) mk_address("W_WAREHOUSE_ADDRESS")

mk_w_web_page(k, bInit) ==
    nullSet("WP_NULLS")
    (+) mk_join("WP_CREATION_DATE_SK", "DATE") (+) mk_join("WP_CUSTOMER_SK", "CUSTOMER")
    (+) Each(1, {"WP_SCD", "WP_ACCESS_DATE_SK", "WP_AUTOGEN_FLAG", "WP_TYPE",
                 "WP_LINK_COUNT", "WP_IMAGE_COUNT", "WP_MAX_AD_COUNT", "WP_CHAR_COUNT"})

mk_w_web_site(k, bInit) ==
    nullSet("WEB_NULLS")
    (+) If(bNewBKey(k), mk_join("WEB_OPEN_DATE", "DATE") (+) mk_join("WEB_CLOSE_DATE", "DATE"))
    (+) Each(1, {"WEB_SCD", "WEB_MARKET_ID", "WEB_COMPANY_ID", "WEB_TAX_PERCENTAGE"})
    (+) Each(2, {"WEB_MANAGER", "WEB_MARKET_MANAGER"})
    (+) gen_text("WEB_MARKET_CLASS", k, 20) (+) gen_text("WEB_MARKET_DESC", k, 100)
    (+) mk_address("WEB_ADDRESS")

(***************************************************************************)
(* Sales and returns: the part common to an order, then a line for every   *)
(* item, some of which are returned.  The number of lines and of returned  *)
(* lines are random choices of the row.                                    *)
(***************************************************************************)
mk_w_store_returns ==
    nullSet("SR_NULLS")
    (+) mk_join("SR_CUSTOMER_SK", "CUSTOMER") (+) genrand_integer("SR_TICKET_NUMBER")
    (+) mk_join("SR_RETURNED_DATE_SK", "DATE") (+) genrand_integer("SR_RETURNED_TIME_SK")
    (+) mk_join("SR_CDEMO_SK", "CUSTOMER_DEMOGRAPHICS")
    (+) mk_join("SR_HDEMO_SK", "HOUSEHOLD_DEMOGRAPHICS")
    (+) mk_join("SR_ADDR_SK", "CUSTOMER_ADDRESS") (+) mk_join("SR_STORE_SK", "STORE")
    (+) mk_join("SR_REASON_SK", "REASON")
    (+) genrand_integer("SR_PRICING") (+) set_pricing("SR_PRICING")

store_sales_mk_master(k, bInit) ==
    If(bInit, makePermutation("SS_PERMUTATION", getIDCount("ITEM")))
    (+) mk_join("SS_SOLD_STORE_SK", "STORE") (+) mk_join("SS_SOLD_TIME_SK", "TIME")
    (+) mk_join("SS_SOLD_DATE_SK", "DATE") (+) mk_join("SS_SOLD_CUSTOMER_SK", "CUSTOMER")
    (+) mk_join("SS_SOLD_CDEMO_SK", "CUSTOMER_DEMOGRAPHICS")
    (+) mk_join("SS_SOLD_HDEMO_SK", "HOUSEHOLD_DEMOGRAPHICS")
    (+) mk_join("SS_SOLD_ADDR_SK", "CUSTOMER_ADDRESS") (+) genrand_integer("SS_SOLD_ITEM_SK")

store_sales_mk_detail ==
    nullSet("SS_NULLS") (+) mk_join("SS_SOLD_PROMO_SK", "PROMOTION")
    (+) set_pricing("SS_PRICING") (+) genrand_integer("SR_IS_RETURNED")

mk_w_store_sales(k, bInit) ==
    LET lines == Between(8, 16, k)
    IN  store_sales_mk_master(k, bInit) (+) genrand_integer("SS_TICKET_NUMBER")
        (+) Times(lines, store_sales_mk_detail)
        (+) If(k % lines > 0, Times(k % lines, mk_w_store_returns))

mk_w_web_returns(k) ==
    nullSet("WR_NULLS")
    (+) mk_join("WR_RETURNED_DATE_SK", "DATE") (+) mk_join("WR_RETURNED_TIME_SK", "TIME")
    (+) mk_join("WR_REFUNDED_CUSTOMER_SK", "CUSTOMER")
    (+) mk_join("WR_REFUNDED_CDEMO_SK", "CUSTOMER_DEMOGRAPHICS")
    (+) mk_join("WR_REFUNDED_HDEMO_SK", "HOUSEHOLD_DEMOGRAPHICS")
    (+) mk_join("WR_REFUNDED_ADDR_SK", "CUSTOMER_ADDRESS")
    (+) genrand_integer("WR_RETURNING_CUSTOMER_SK") (+) mk_join("WR_REASON_SK", "REASON")
    (+) genrand_integer("WR_PRICING") (+) set_pricing("WR_PRICING")

\* The receiver of a gift is another customer.
web_sales_mk_master(k, bInit) ==
    mk_join("WS_SOLD_DATE_SK", "DATE") (+) mk_join("WS_SOLD_TIME_SK", "TIME")
    (+) mk_join("WS_BILL_CUSTOMER_SK", "CUSTOMER")
    (+) mk_join("WS_BILL_CDEMO_SK", "CUSTOMER_DEMOGRAPHICS")
    (+) mk_join("WS_BILL_HDEMO_SK", "HOUSEHOLD_DEMOGRAPHICS")
    (+) mk_join("WS_BILL_ADDR_SK", "CUSTOMER_ADDRESS")
    (+) genrand_integer("WS_SHIP_CUSTOMER_SK")
    (+) If(Chance(k), mk_join("WS_SHIP_CUSTOMER_SK", "CUSTOMER")
                      (+) mk_join("WS_SHIP_CDEMO_SK", "CUSTOMER_DEMOGRAPHICS")
                      (+) mk_join("WS_SHIP_HDEMO_SK", "HOUSEHOLD_DEMOGRAPHICS")
                      (+) mk_join("WS_SHIP_ADDR_SK", "CUSTOMER_ADDRESS"))
    (+) genrand_integer("WS_ITEM_SK")

web_sales_mk_detail ==
    nullSet("WS_NULLS") (+) genrand_integer("WS_SHIP_DATE_SK")
    (+) mk_join("WS_WEB_PAGE_SK", "WEB_PAGE") (+) mk_join("WS_WEB_SITE_SK", "WEB_SITE")
    (+) mk_join("WS_SHIP_MODE_SK", "SHIP_MODE") (+) mk_join("WS_WAREHOUSE_SK", "WAREHOUSE")
    (+) mk_join("WS_PROMO_SK", "PROMOTION")
    (+) set_pricing("WS_PRICING") (+) genrand_integer("WR_IS_RETURNED")

mk_w_web_sales(k, bInit) ==
    LET lines == Between(8, 16, k)
    IN  web_sales_mk_master(k, bInit) (+) genrand_integer("WS_ORDER_NUMBER")
        (+) If(bInit, makePermutation("WS_PERMUTATION", getIDCount("ITEM")))
        (+) Times(lines, web_sales_mk_detail)
        (+) If(k % lines > 0, Times(k % lines, mk_w_web_returns(k)))

mk_w_catalog_returns(k) ==
    nullSet("CR_NULLS")
    (+) mk_join("CR_RETURNING_CUSTOMER_SK", "CUSTOMER")
    (+) mk_join("CR_RETURNING_CDEMO_SK", "CUSTOMER_DEMOGRAPHICS")
    (+) mk_join("CR_RETURNING_HDEMO_SK", "HOUSEHOLD_DEMOGRAPHICS")
    (+) mk_join("CR_RETURNING_ADDR_SK", "CUSTOMER_ADDRESS")
    (+) genrand_integer("CR_RETURNING_CUSTOMER_SK")
    (+) mk_join("CR_RETURNED_DATE_SK", "DATE") (+) mk_join("CR_RETURNED_TIME_SK", "TIME")
    (+) mk_join("CR_SHIP_MODE_SK", "SHIP_MODE") (+) mk_join("CR_WAREHOUSE_SK", "WAREHOUSE")
    (+) mk_join("CR_REASON_SK", "REASON")
    (+) genrand_integer("CR_PRICING") (+) set_pricing("CR_PRICING")

catalog_sales_mk_master(k, bInit) ==
    If(bInit, makePermutation("CS_PERMUTE", getIDCount("ITEM")))
    (+) mk_join("CS_SOLD_TIME_SK", "TIME") (+) mk_join("CS_CALL_CENTER_SK", "CALL_CENTER")
    (+) mk_join("CS_BILL_CUSTOMER_SK", "CUSTOMER")
    (+) mk_join("CS_BILL_CDEMO_SK", "CUSTOMER_DEMOGRAPHICS")
    (+) mk_join("CS_BILL_HDEMO_SK", "HOUSEHOLD_DEMOGRAPHICS")
    (+) mk_join("CS_BILL_ADDR_SK", "CUSTOMER_ADDRESS")
    (+) genrand_integer("CS_SHIP_CUSTOMER_SK")
    (+) If(Chance(k), mk_join("CS_SHIP_CUSTOMER_SK", "CUSTOMER")
                      (+) mk_join("CS_SHIP_CDEMO_SK", "CUSTOMER_DEMOGRAPHICS")
                      (+) mk_join("CS_SHIP_HDEMO_SK", "HOUSEHOLD_DEMOGRAPHICS")
                      (+) mk_join("CS_SHIP_ADDR_SK", "CUSTOMER_ADDRESS"))
    (+) genrand_integer("CS_SOLD_ITEM_SK")

catalog_sales_mk_detail ==
    nullSet("CS_NULLS") (+) genrand_integer("CS_SHIP_DATE_SK")
    (+) mk_join("CS_CATALOG_PAGE_SK", "CATALOG_PAGE")
    (+) mk_join("CS_SHIP_MODE_SK", "SHIP_MODE") (+) mk_join("CS_WAREHOUSE_SK", "WAREHOUSE")
    (+) mk_join("CS_PROMO_SK", "PROMOTION")
    (+) set_pricing("CS_PRICING") (+) genrand_integer("CR_IS_RETURNED")

mk_w_catalog_sales(k, bInit) ==
    LET lines == Between(4, 14, k)
    IN  catalog_sales_mk_master(k, bInit) (+) genrand_integer("CS_ORDER_NUMBER")
        (+) Times(lines, catalog_sales_mk_detail)
        (+) If(k % lines > 0, Times(k % lines, mk_w_catalog_returns(k)))

\* builder of w_tdef_funcs.  The tables of returns are built by their parents.
w_tdef_funcs(t, k, bInit) ==
    CASE t = "CALL_CENTER"            -> mk_w_call_center(k, bInit)
      [] t = "CATALOG_PAGE"           -> mk_w_catalog_page(k, bInit)
      [] t = "CATALOG_SALES"          -> mk_w_catalog_sales(k, bInit)
      [] t = "CUSTOMER"               -> mk_w_customer(k, bInit)
      [] t = "CUSTOMER_ADDRESS"       -> mk_w_customer_address(k, bInit)
      [] t = "CUSTOMER_DEMOGRAPHICS"  -> mk_w_customer_demographics(k, bInit)
      [] t = "DATE"                   -> mk_w_date(k, bInit)
      [] t = "HOUSEHOLD_DEMOGRAPHICS" -> mk_w_household_demographics(k, bInit)
      [] t = "INCOME_BAND"            -> mk_w_income_band(k, bInit)
      [] t = "INVENTORY"              -> mk_w_inventory(k, bInit)
      [] t = "ITEM"                   -> mk_w_item(k, bInit)
      [] t = "PROMOTION"              -> mk_w_promotion(k, bInit)
      [] t = "REASON"                 -> mk_w_reason(k, bInit)
      [] t = "SHIP_MODE"              -> mk_w_ship_mode(k, bInit)
      [] t = "STORE"                  -> mk_w_store(k, bInit)
      [] t = "STORE_SALES"            -> mk_w_store_sales(k, bInit)
      [] t = "TIME"                   -> mk_w_time(k, bInit)
      [] t = "WAREHOUSE"              -> mk_w_warehouse(k, bInit)
      [] t = "WEB_PAGE"               -> mk_w_web_page(k, bInit)
      [] t = "WEB_SALES"              -> mk_w_web_sales(k, bInit)
      [] t = "WEB_SITE"               -> mk_w_web_site(k, bInit)
      [] t = "DBGEN_VERSION"          -> mk_dbgen_version(k, bInit)
==============================================================================
