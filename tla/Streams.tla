------------------------------- MODULE Streams -------------------------------
(***************************************************************************)
(* The random streams of dsdgen (genrand.c, parallel.c).  Every random     *)
(* column has a stream of its own; the generator state of a stream is      *)
(* abstracted to its position: the number of draws since its initial       *)
(* seed.  What a routine draws is a bag of columns.  That a value drawn    *)
(* depends on the position alone is what makes chunks of a table agree     *)
(* with a serial run, so equal positions stand for equal values.           *)
(***************************************************************************)
EXTENDS Tdefs, Bags, TLC

\* n draws from every one of the columns, and n times the same draws.
Each(n, columns) == [c \in columns |-> n]
Times(n, draws)  == [c \in DOMAIN draws |-> n * draws[c]]

\* The draws of a branch of the code.
If(condition, draws) == IF condition THEN draws ELSE EmptyBag

\* The random columns the builders draw from, by table.
randomColumns ==
    [CALL_CENTER |-> {"CC_EMPLOYEES", "CC_SQ_FT", "CC_HOURS", "CC_MARKET_ID",
        "CC_TAX_PERCENTAGE", "CC_SCD", "CC_CLASS", "CC_MANAGER", "CC_MARKET_MANAGER",
        "CC_COMPANY", "CC_NULLS", "CC_OPEN_DATE_ID", "CC_ADDRESS", "CC_MARKET_CLASS",
        "CC_MARKET_DESC"},
     CATALOG_PAGE |-> {"CP_NULLS", "CP_DESCRIPTION"},
     CATALOG_RETURNS |-> {"CR_RETURNING_CDEMO_SK", "CR_RETURNING_HDEMO_SK",
        "CR_RETURNING_ADDR_SK", "CR_SHIP_MODE_SK", "CR_WAREHOUSE_SK", "CR_REASON_SK",
        "CR_RETURNED_DATE_SK", "CR_RETURNED_TIME_SK", "CR_RETURNING_CUSTOMER_SK", "CR_NULLS",
        "CR_PRICING"},
     CATALOG_SALES |-> {"CS_PERMUTE", "CS_BILL_CUSTOMER_SK", "CS_BILL_CDEMO_SK",
        "CS_BILL_HDEMO_SK", "CS_BILL_ADDR_SK", "CS_SHIP_CDEMO_SK", "CS_SHIP_HDEMO_SK",
        "CS_SHIP_ADDR_SK", "CS_CALL_CENTER_SK", "CS_SOLD_ITEM_SK", "CS_ORDER_NUMBER",
        "CS_SOLD_TIME_SK", "CS_SHIP_CUSTOMER_SK", "CS_SHIP_DATE_SK", "CS_SHIP_MODE_SK",
        "CS_WAREHOUSE_SK", "CS_PROMO_SK", "CR_IS_RETURNED", "CS_NULLS", "CS_CATALOG_PAGE_SK",
        "CS_PRICING"},
     CUSTOMER |-> {"C_CURRENT_CDEMO_SK", "C_CURRENT_HDEMO_SK", "C_CURRENT_ADDR_SK",
        "C_FIRST_SALES_DATE_ID", "C_SALUTATION", "C_FIRST_NAME", "C_LAST_NAME", "C_BIRTH_DAY",
        "C_BIRTH_COUNTRY", "C_LAST_REVIEW_DATE", "C_PREFERRED_CUST_FLAG", "C_NULLS",
        "C_EMAIL_ADDRESS"},
     CUSTOMER_ADDRESS |-> {"CA_LOCATION_TYPE", "CA_NULLS", "CA_ADDRESS"},
     CUSTOMER_DEMOGRAPHICS |-> {"CD_NULLS"},
     DATE |-> {"D_NULLS"},
     HOUSEHOLD_DEMOGRAPHICS |-> {"HD_NULLS"},
     INCOME_BAND |-> {"IB_NULLS"},
     INVENTORY |-> {"INV_QUANTITY_ON_HAND", "INV_NULLS"},
     ITEM |-> {"I_WHOLESALE_COST", "I_CLASS", "I_CATEGORY", "I_SIZE", "I_COLOR", "I_UNITS",
        "I_SCD", "I_CURRENT_PRICE", "I_MANUFACT_ID", "I_MANAGER_ID", "I_NULLS", "I_PROMO_SK",
        "I_FORMULATION", "I_ITEM_DESC"},
     PROMOTION |-> {"P_START_DATE_ID", "P_END_DATE_ID", "P_ITEM_SK", "P_CHANNEL_DMAIL",
        "P_PURPOSE", "P_NULLS", "P_CHANNEL_DETAILS"},
     REASON |-> {"R_NULLS"},
     SHIP_MODE |-> {"SM_NULLS", "SM_CONTRACT"},
     STORE |-> {"W_STORE_EMPLOYEES", "W_STORE_FLOOR_SPACE", "W_STORE_HOURS",
        "W_STORE_MARKET_ID", "W_STORE_TAX_PERCENTAGE", "W_STORE_GEOGRAPHY_CLASS",
        "W_STORE_DIVISION_NAME", "W_STORE_COMPANY_NAME", "W_STORE_TYPE", "W_STORE_SCD",
        "W_STORE_CLOSED_DATE_ID", "W_STORE_MANAGER", "W_STORE_MARKET_MANAGER", "W_STORE_NULLS",
        "W_STORE_ADDRESS", "W_STORE_MARKET_DESC"},
     STORE_RETURNS |-> {"SR_CUSTOMER_SK", "SR_CDEMO_SK", "SR_HDEMO_SK", "SR_ADDR_SK",
        "SR_STORE_SK", "SR_REASON_SK", "SR_TICKET_NUMBER", "SR_RETURNED_DATE_SK",
        "SR_RETURNED_TIME_SK", "SR_NULLS", "SR_PRICING"},
     STORE_SALES |-> {"SS_PERMUTATION", "SS_SOLD_ITEM_SK", "SS_SOLD_CUSTOMER_SK",
        "SS_SOLD_CDEMO_SK", "SS_SOLD_HDEMO_SK", "SS_SOLD_ADDR_SK", "SS_SOLD_STORE_SK",
        "SS_TICKET_NUMBER", "SS_SOLD_DATE_SK", "SS_SOLD_TIME_SK", "SS_SOLD_PROMO_SK",
        "SR_IS_RETURNED", "SS_NULLS", "SS_PRICING"},
     TIME |-> {"T_NULLS"},
     WAREHOUSE |-> {"W_WAREHOUSE_SQ_FT", "W_NULLS", "W_WAREHOUSE_ADDRESS", "W_WAREHOUSE_NAME"},
     WEB_PAGE |-> {"WP_ACCESS_DATE_SK", "WP_AUTOGEN_FLAG", "WP_CUSTOMER_SK", "WP_TYPE",
        "WP_CHAR_COUNT", "WP_LINK_COUNT", "WP_IMAGE_COUNT", "WP_MAX_AD_COUNT", "WP_SCD",
        "WP_CREATION_DATE_SK", "WP_NULLS"},
     WEB_RETURNS |-> {"WR_REFUNDED_CUSTOMER_SK", "WR_REFUNDED_CDEMO_SK",
        "WR_REFUNDED_HDEMO_SK", "WR_REFUNDED_ADDR_SK", "WR_RETURNING_CUSTOMER_SK",
        "WR_REASON_SK", "WR_RETURNED_DATE_SK", "WR_RETURNED_TIME_SK", "WR_NULLS", "WR_PRICING"},
     WEB_SALES |-> {"WS_PERMUTATION", "WS_ITEM_SK", "WS_BILL_CUSTOMER_SK", "WS_BILL_CDEMO_SK",
        "WS_BILL_HDEMO_SK", "WS_BILL_ADDR_SK", "WS_SHIP_HDEMO_SK", "WS_SHIP_ADDR_SK",
        "WS_ORDER_NUMBER", "WS_SOLD_DATE_SK", "WS_SOLD_TIME_SK", "WS_SHIP_CUSTOMER_SK",
        "WS_SHIP_CDEMO_SK", "WS_SHIP_DATE_SK", "WS_WEB_PAGE_SK", "WS_WEB_SITE_SK",
        "WS_SHIP_MODE_SK", "WS_WAREHOUSE_SK", "WS_PROMO_SK", "WR_IS_RETURNED", "WS_NULLS",
        "WS_PRICING"},
     WEB_SITE |-> {"WEB_OPEN_DATE", "WEB_CLOSE_DATE", "WEB_MARKET_ID", "WEB_COMPANY_ID",
        "WEB_TAX_PERCENTAGE", "WEB_MANAGER", "WEB_MARKET_MANAGER", "WEB_NULLS", "WEB_ADDRESS",
        "WEB_MARKET_CLASS", "WEB_SCD", "WEB_MARKET_DESC"},
     S_CALL_CENTER |-> {"S_CALL_CENTER_ID"},
     S_CATALOG_ORDER |-> {"S_CORD_BILL_CUSTOMER_ID", "S_CORD_ORDER_TIME",
        "S_CORD_SHIP_MODE_ID", "S_CLIN_ITEM_ID", "S_CORD_SHIP_CUSTOMER_ID", "S_CORD_COMMENT"},
     S_CATALOG_ORDER_LINEITEM |-> {"S_CLIN_PERMUTE", "S_CLIN_PROMOTION_ID",
        "S_CLIN_WAREHOUSE_ID", "S_CLIN_SHIP_DATE", "S_CLIN_IS_RETURNED",
        "S_CLIN_CATALOG_PAGE_ID", "S_CLIN_PRICING"},
     S_CATALOG_RETURNS |-> {"S_CRET_CALL_CENTER_ID", "S_CRET_DATE", "S_CRET_REASON_ID",
        "S_CRET_SHIPMODE_ID", "S_CRET_WAREHOUSE_ID", "S_CRET_TIME", "S_CRET_PRICING"},
     S_CUSTOMER |-> {"S_CUST_ID", "S_CUST_SALUTATION", "S_CUST_LAST_NAME", "S_CUST_FIRST_NAME",
        "S_CUST_PREFERRED_FLAG", "S_CUST_BIRTH_DATE", "S_CUST_FIRST_PURCHASE_DATE",
        "S_CUST_FIRST_SHIPTO_DATE", "S_CUST_LAST_LOGIN", "S_CUST_LAST_REVIEW",
        "S_CUST_LOCATION_TYPE", "S_CUST_GENDER", "S_CUST_PURCHASE_ESTIMATE",
        "S_CUST_VEHICLE_CNT", "S_CUST_INCOME", "S_CUST_PRIMARY_MACHINE",
        "S_CUST_SECONDARY_MACHINE", "S_CUST_EMAIL", "S_CUST_LOGIN"},
     S_INVENTORY |-> {"S_INVN_QUANTITY"},
     S_ITEM |-> {"S_ITEM_PERMUTE", "S_ITEM_ID"},
     S_PROMOTION |-> {"S_PROMOTION_ID"},
     S_PURCHASE |-> {"S_PURCHASE_STORE_ID", "S_PURCHASE_CUSTOMER_ID", "S_PURCHASE_REGISTER",
        "S_PURCHASE_CLERK", "S_PLINE_ITEM_ID", "S_PURCHASE_COMMENT"},
     S_PURCHASE_LINEITEM |-> {"S_PLINE_PERMUTE", "S_PLINE_PROMOTION_ID", "S_PLINE_QUANTITY",
        "S_PLINE_IS_RETURNED", "S_PLINE_PRICING", "S_PLINE_COMMENT"},
     S_STORE |-> {"S_STORE_ID"},
     S_STORE_RETURNS |-> {"S_SRET_RETURN_TIME", "S_SRET_REASON_ID", "S_SRET_RETURN_DATE",
        "S_SRET_PRICING"},
     S_WAREHOUSE |-> {"S_WRHS_ID"},
     S_WEB_ORDER |-> {"S_WORD_BILL_CUSTOMER_ID", "S_WORD_ORDER_TIME", "S_WORD_SHIP_MODE_ID",
        "S_WORD_WEB_SITE_ID", "S_WLIN_ITEM_ID", "S_WORD_SHIP_CUSTOMER_ID", "S_WORD_COMMENT"},
     S_WEB_ORDER_LINEITEM |-> {"S_WLIN_PERMUTE", "S_WLIN_PROMOTION_ID", "S_WLIN_WAREHOUSE_ID",
        "S_WLIN_SHIP_DATE", "S_WLIN_WEB_PAGE_ID", "S_WLIN_IS_RETURNED", "S_WLIN_PRICING"},
     S_WEB_PAGE |-> {"S_WPAG_PERMUTE", "S_WPAG_ID"},
     S_WEB_RETURNS |-> {"S_WRET_RETURN_TIME", "S_WRET_REASON_ID", "S_WRET_RETURN_DATE",
        "S_WRET_PRICING"}]

Random    == DOMAIN randomColumns
Columns   == UNION {randomColumns[t] : t \in Random}
columnsOf == [t \in Tables |-> IF t \in Random THEN randomColumns[t] ELSE {}]

\* The seeds of a row: as many as its builder draws at most, for an order those of all
\* its lines.
nUsedPerRow ==
    [c \in Columns |->
        CASE c \in {"CS_PERMUTE", "SS_PERMUTATION", "WS_PERMUTATION", "S_CLIN_PERMUTE",
              "S_CUST_ID", "S_ITEM_PERMUTE", "S_PLINE_PERMUTE", "S_WLIN_PERMUTE",
              "S_WPAG_PERMUTE"} -> 0
          [] c \in {"CC_CLASS", "CC_MANAGER", "CC_MARKET_MANAGER", "CC_COMPANY", "CC_NULLS",
              "CP_NULLS", "CS_SOLD_TIME_SK", "CS_SHIP_CUSTOMER_SK", "C_PREFERRED_CUST_FLAG",
              "C_NULLS", "CA_NULLS", "CD_NULLS", "D_NULLS", "HD_NULLS", "IB_NULLS",
              "INV_NULLS", "I_CURRENT_PRICE", "I_MANUFACT_ID", "I_MANAGER_ID", "I_NULLS",
              "I_PROMO_SK", "P_NULLS", "R_NULLS", "SM_NULLS", "W_STORE_CLOSED_DATE_ID",
              "W_STORE_MANAGER", "W_STORE_MARKET_MANAGER", "W_STORE_NULLS", "SS_SOLD_DATE_SK",
              "SS_SOLD_TIME_SK", "T_NULLS", "W_NULLS", "WP_CREATION_DATE_SK", "WP_NULLS",
              "WS_SOLD_DATE_SK", "WS_SOLD_TIME_SK", "WS_SHIP_CUSTOMER_SK", "WS_SHIP_CDEMO_SK",
              "WEB_MANAGER", "WEB_MARKET_MANAGER", "WEB_NULLS", "S_CORD_SHIP_CUSTOMER_ID",
              "S_CLIN_CATALOG_PAGE_ID", "S_WORD_SHIP_CUSTOMER_ID"} -> 2
          [] c \in {"S_CUST_PRIMARY_MACHINE", "S_CUST_SECONDARY_MACHINE"} -> 4
          [] c \in {"CA_ADDRESS", "W_STORE_ADDRESS", "W_WAREHOUSE_ADDRESS", "WEB_ADDRESS"} -> 7
          [] c \in {"S_CLIN_PRICING"} -> 8
          [] c \in {"S_CRET_CALL_CENTER_ID", "S_CRET_DATE", "S_CRET_REASON_ID",
              "S_CRET_SHIPMODE_ID", "S_CRET_WAREHOUSE_ID"} -> 9
          [] c \in {"CC_OPEN_DATE_ID"} -> 10
          [] c \in {"S_PLINE_PROMOTION_ID", "S_PLINE_QUANTITY", "S_PLINE_IS_RETURNED",
              "S_SRET_RETURN_TIME", "S_SRET_REASON_ID", "S_WLIN_PROMOTION_ID",
              "S_WLIN_WAREHOUSE_ID", "S_WLIN_SHIP_DATE", "S_WLIN_WEB_PAGE_ID",
              "S_WLIN_IS_RETURNED", "S_WRET_RETURN_TIME", "S_WRET_REASON_ID"} -> 12
          [] c \in {"CR_RETURNING_CDEMO_SK", "CR_RETURNING_HDEMO_SK", "CR_RETURNING_ADDR_SK",
              "CR_SHIP_MODE_SK", "CR_WAREHOUSE_SK", "CR_REASON_SK", "CS_SHIP_DATE_SK",
              "CS_SHIP_MODE_SK", "CS_WAREHOUSE_SK", "CS_PROMO_SK", "CR_IS_RETURNED"} -> 14
          [] c \in {"CC_ADDRESS"} -> 15
          [] c \in {"SR_CUSTOMER_SK", "SR_CDEMO_SK", "SR_HDEMO_SK", "SR_ADDR_SK",
              "SR_STORE_SK", "SR_REASON_SK", "SR_TICKET_NUMBER", "SS_SOLD_PROMO_SK",
              "SR_IS_RETURNED", "WR_REFUNDED_CUSTOMER_SK", "WR_REFUNDED_CDEMO_SK",
              "WR_REFUNDED_HDEMO_SK", "WR_REFUNDED_ADDR_SK", "WR_RETURNING_CUSTOMER_SK",
              "WR_REASON_SK", "WS_SHIP_DATE_SK", "WS_WEB_PAGE_SK", "WS_WEB_SITE_SK",
              "WS_SHIP_MODE_SK", "WS_WAREHOUSE_SK", "WS_PROMO_SK", "WR_IS_RETURNED"} -> 16
          [] c \in {"S_CRET_TIME"} -> 18
          [] c \in {"WEB_MARKET_CLASS"} -> 20
          [] c \in {"SM_CONTRACT"} -> 21
          [] c \in {"C_EMAIL_ADDRESS", "S_CUST_EMAIL"} -> 23
          [] c \in {"S_SRET_RETURN_DATE", "S_WRET_RETURN_DATE"} -> 24
          [] c \in {"S_CUST_LOGIN"} -> 25
          [] c \in {"CR_RETURNED_DATE_SK", "CR_RETURNED_TIME_SK", "CR_RETURNING_CUSTOMER_SK",
              "CR_NULLS", "CS_NULLS"} -> 28
          [] c \in {"SR_RETURNED_DATE_SK", "SR_RETURNED_TIME_SK", "SR_NULLS", "SS_NULLS",
              "WR_RETURNED_DATE_SK", "WR_RETURNED_TIME_SK", "WR_NULLS", "WS_NULLS"} -> 32
          [] c \in {"CS_CATALOG_PAGE_SK"} -> 42
          [] c \in {"CC_MARKET_CLASS", "CC_MARKET_DESC", "I_FORMULATION"} -> 50
          [] c \in {"CR_PRICING", "WEB_SCD"} -> 70
          [] c \in {"S_CRET_PRICING"} -> 72
          [] c \in {"SR_PRICING", "W_WAREHOUSE_NAME", "WR_PRICING"} -> 80
          [] c \in {"S_SRET_PRICING", "S_WRET_PRICING"} -> 84
          [] c \in {"S_PLINE_PRICING", "S_WLIN_PRICING"} -> 96
          [] c \in {"CP_DESCRIPTION", "P_CHANNEL_DETAILS", "W_STORE_MARKET_DESC",
              "WEB_MARKET_DESC", "S_CORD_COMMENT", "S_PURCHASE_COMMENT", "S_WORD_COMMENT"} -> 100
          [] c \in {"CS_PRICING"} -> 112
          [] c \in {"SS_PRICING", "WS_PRICING"} -> 128
          [] c \in {"I_ITEM_DESC"} -> 200
          [] c \in {"S_PLINE_COMMENT"} -> 1200
          [] OTHER -> 1]

\* nDuplicateOf, where it is another column and that column is ever drawn.
nDuplicateOf == {"CA_ADDRESS", "CP_DESCRIPTION", "I_ITEM_DESC", "I_COLOR", "I_FORMULATION",
                 "I_CURRENT_PRICE", "I_MANAGER_ID", "I_SCD", "I_SIZE", "I_UNITS",
                 "I_WHOLESALE_COST", "P_CHANNEL_DETAILS"}

(***************************************************************************)
(* The streams of a process: pos is the position of each, used the draws   *)
(* since the last row_stop().                                              *)
(***************************************************************************)
init_rand == [pos |-> Each(0, Columns), used |-> Each(0, Columns)]

counted(counts, draws) ==
    [c \in DOMAIN counts |-> IF c \in DOMAIN draws THEN counts[c] + draws[c] ELSE counts[c]]

next_random(rng, draws) == [pos |-> counted(rng.pos, draws), used |-> counted(rng.used, draws)]

\* No seed of the columns is used since a row began.
restarted(used, columns) == [c \in DOMAIN used |-> IF c \in columns THEN 0 ELSE used[c]]

\* Seeds a row has not used are thrown away, so that every row uses as many.
unused(used, perRow) == IF used < perRow THEN perRow - used ELSE 0

checkSeeds(rng, columns) ==
    [pos  |-> counted(rng.pos, [c \in columns |-> unused(rng.used[c], nUsedPerRow[c])]),
     used |-> restarted(rng.used, columns)]

row_stop(rng, t) == checkSeeds(rng, UNION {columnsOf[f] : f \in Family(t)})

\* The stream is set to where it is after n draws from its initial seed.
skip_random(rng, columns, count) ==
    [pos  |-> [c \in DOMAIN rng.pos |-> IF c \in columns THEN count * nUsedPerRow[c] ELSE rng.pos[c]],
     used |-> restarted(rng.used, columns)]

row_skip_OneShort(rng, t, count) == skip_random(rng, columnsOf[t] \cup nDuplicateOf, count - 1)

\* The duplicates are skipped whatever the table.
row_skip(rng, t, count) == skip_random(rng, columnsOf[t] \cup nDuplicateOf, count)

(***************************************************************************)
(* What the routines of genrand.c, nulls.c, address.c, text.c, join.c,     *)
(* permute.c and pricing.c draw from the stream of column c.               *)
(***************************************************************************)
genrand_integer(c)   == Each(1, {c})
genrand_key(c)       == Each(1, {c})
genrand_decimal(c)   == Each(1, {c})
genrand_date(c)      == Each(1, {c})
pick_distribution(c) == Each(1, {c})

\* The length and one draw for every place, used or not.
gen_charset(c, max)  == Each(1 + max, {c})
\* A top level domain, a length and the characters of the company.
genrand_email(c)     == pick_distribution(c) (+) genrand_integer(c) (+) gen_charset(c, 20)
genrand_ipaddr(c)    == Each(4, {c})
genrand_url(c)       == EmptyBag

\* A threshold and a bit map.
nullSet(c)    == genrand_integer(c) (+) genrand_key(c)
\* Number, two parts of the name, type, suite, city and zip code or county.
mk_address(c) == Each(7, {c})

(***************************************************************************)
(* The outcome of a random choice of row k: a fixed function of the row,   *)
(* for every process draws it from the same place.                         *)
(***************************************************************************)
Chance(k)          == k % 2 = 0
Between(lo, hi, k) == lo + (k % (hi - lo + 1))

\* A text draws its length, then a plan and a word at a time for its sentences:
\* as many as it takes to reach the length, at most max draws.
mk_sentence(c, k, max) == Each(Between(1, max - 1, k), {c})
gen_text(c, k, max)    == genrand_integer(c) (+) mk_sentence(c, k, max)
==============================================================================
