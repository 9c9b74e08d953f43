------------------------------- MODULE Pricing -------------------------------
(***************************************************************************)
(* Amounts of money (decimal.c) and how the amounts of a sale and of its   *)
(* return are computed from what is drawn for them (pricing.c).  A decimal *)
(* is a number and how many of its digits are decimals; the number of all  *)
(* its digits is never used and left out.                                  *)
(***************************************************************************)
EXTENDS Integers

decimal(number, precision) == [number |-> number, precision |-> precision]

itodec(n) == decimal(n, 0)

\* What a text with decimals stands for. The decimals are added to the whole number, also
\* to a negative one.
strtodec(negative, whole, decimals, precision) ==
    LET read == (IF negative THEN -whole ELSE whole) * 10 ^ precision + decimals
    IN  decimal(IF negative /\ read > 0 THEN -read ELSE read, precision)

NegateDecimal(d) == [d EXCEPT !.number = -@]

\* Division in C drops what is after the point.
quotient(a, b) == IF a >= 0 THEN a \div b ELSE -((-a) \div b)

\* The result has the decimals of the operand that has more. A sum is one of the numbers
\* as they are, whatever their decimals.
precisionOf(d1, d2) == IF d1.precision > d2.precision THEN d1.precision ELSE d2.precision

OP_PLUS(d1, d2)  == decimal(d1.number + d2.number, precisionOf(d1, d2))
OP_MINUS(d1, d2) == decimal(d1.number - d2.number, precisionOf(d1, d2))

OP_MULT(d1, d2) ==
    LET p == precisionOf(d1, d2)
    IN  decimal(quotient(d1.number * d2.number, 10 ^ (d1.precision + d2.precision - p)), p)

\* The dividend is shifted to the result's decimals, and once more by as many. Divisors
\* are not zero.
OP_DIV(d1, d2) ==
    LET p == precisionOf(d1, d2)
    IN  decimal(quotient(d1.number * 10 ^ (2 * p - d1.precision), d2.number * 10 ^ (p - d2.precision)), p)

cents(n) == decimal(n, 2)
dOne     == strtodec(FALSE, 1, 0, 2)
dZero    == strtodec(FALSE, 0, 0, 2)
dHundred == strtodec(FALSE, 100, 0, 2)

\* The greatest quantity, markup, discount and wholesale cost; half a price is the most
\* that shipping costs, and 0.09 the highest tax.
limits(markup) == [quantity |-> 100, markup |-> markup, discount |-> 100, wholesale |-> 10000]

aPriceLimits ==
    [CS_PRICING |-> limits(200), SS_PRICING |-> limits(100), WS_PRICING |-> limits(200),
     CR_PRICING |-> limits(200), SR_PRICING |-> limits(100), WR_PRICING |-> limits(200),
     S_PLINE_PRICING |-> limits(200), S_CLIN_PRICING |-> limits(200), S_WLIN_PRICING |-> limits(200),
     S_SRET_PRICING |-> limits(200), S_CRET_PRICING |-> limits(200), S_WRET_PRICING |-> limits(200)]

ofSales   == {"CS_PRICING", "SS_PRICING", "WS_PRICING", "S_PLINE_PRICING", "S_CLIN_PRICING", "S_WLIN_PRICING"}
ofReturns == {"CR_PRICING", "SR_PRICING", "WR_PRICING"}

\* A sale, from what is drawn for it, in hundredths.
set_pricing_sale(d) ==
    LET wholesale    == cents(d.wholesale)
        dQuantity    == itodec(d.quantity)
        list_price   == OP_MULT(wholesale, OP_PLUS(cents(d.markup), dOne))
        sales_price  == OP_MULT(list_price, OP_PLUS(NegateDecimal(cents(d.discount)), dOne))
        ext_sales    == OP_MULT(sales_price, dQuantity)
        coupon       == IF d.couponUsage <= 20 THEN OP_MULT(ext_sales, cents(d.coupon)) ELSE dZero
        net_paid     == OP_MINUS(ext_sales, coupon)
        ship_cost    == OP_MULT(list_price, cents(d.shipping))
        ext_ship     == OP_MULT(ship_cost, dQuantity)
        ext_tax      == OP_MULT(net_paid, cents(d.tax))
        ext_list     == OP_MULT(list_price, dQuantity)
        inc_ship     == OP_PLUS(net_paid, ext_ship)
        ext_wholesale == OP_MULT(dQuantity, wholesale)
    IN  [quantity |-> d.quantity, wholesale_cost |-> wholesale, list_price |-> list_price,
         sales_price |-> sales_price, tax_pct |-> cents(d.tax), ext_wholesale_cost |-> ext_wholesale,
         ext_list_price |-> ext_list, ext_sales_price |-> ext_sales,
         ext_discount_amt |-> OP_MINUS(ext_list, ext_sales), coupon_amt |-> coupon,
         net_paid |-> net_paid, ship_cost |-> ship_cost, ext_ship_cost |-> ext_ship,
         net_paid_inc_ship |-> inc_ship, ext_tax |-> ext_tax,
         net_paid_inc_tax |-> OP_PLUS(net_paid, ext_tax),
         net_paid_inc_ship_tax |-> OP_PLUS(inc_ship, ext_tax),
         net_profit |-> OP_MINUS(net_paid, ext_wholesale),
         refunded_cash |-> dZero, reversed_charge |-> dZero, store_credit |-> dZero,
         fee |-> dZero, net_loss |-> dZero]

\* What is left of a return after the reversed charge goes to the customer's credit.
creditOf_ChargeOnly(net_paid, charge, cash) == OP_MINUS(net_paid, charge)
creditOf(net_paid, charge, cash) == OP_MINUS(OP_MINUS(net_paid, charge), cash)

\* The amounts of a return: those of the sale, for the quantity that comes back.
set_pricing_return(sale, d) ==
    LET dQuantity == itodec(d.quantity)
        ext_sales == OP_MULT(sale.sales_price, dQuantity)
        ship_cost == OP_MULT(sale.list_price, cents(d.shipping))
        ext_ship  == OP_MULT(ship_cost, dQuantity)
        ext_tax   == OP_MULT(ext_sales, sale.tax_pct)
        inc_ship  == OP_PLUS(ext_sales, ext_ship)
        all       == OP_PLUS(inc_ship, ext_tax)
        cash      == OP_MULT(OP_DIV(itodec(d.cashPct), dHundred), ext_sales)
        charge    == OP_MULT(OP_MINUS(ext_sales, cash), OP_DIV(itodec(d.creditPct), dHundred))
        credit    == creditOf(ext_sales, charge, cash)
        back      == OP_MINUS(OP_MINUS(OP_MINUS(all, credit), cash), charge)
        ext_wholesale == OP_MULT(dQuantity, sale.wholesale_cost)
    IN  [sale EXCEPT !.quantity = d.quantity, !.ext_wholesale_cost = ext_wholesale,
             !.ext_list_price = OP_MULT(sale.list_price, dQuantity), !.ext_sales_price = ext_sales,
             !.net_paid = ext_sales, !.ship_cost = ship_cost, !.ext_ship_cost = ext_ship,
             !.net_paid_inc_ship = inc_ship, !.ext_tax = ext_tax,
             !.net_paid_inc_tax = OP_PLUS(ext_sales, ext_tax), !.net_paid_inc_ship_tax = all,
             !.net_profit = OP_MINUS(ext_sales, ext_wholesale),
             !.refunded_cash = cash, !.reversed_charge = charge, !.store_credit = credit,
             !.fee = cents(d.fee), !.net_loss = OP_PLUS(back, cents(d.fee))]

\* set_pricing(): nothing is computed for the returns of the refresh set.
set_pricing(nTabId, p, d) ==
    CASE nTabId \in ofSales   -> set_pricing_sale(d)
      [] nTabId \in ofReturns -> set_pricing_return(p, d)
      [] OTHER                -> p
==============================================================================
