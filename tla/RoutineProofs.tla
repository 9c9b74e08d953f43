---------------------------- MODULE RoutineProofs ----------------------------
(***************************************************************************)
(* Routines of the toolkit for whatever they are given: the draws of the   *)
(* random routines, the amounts of sales and returns, the revisions of the *)
(* dimensions that change slowly, the entries of distributions that a row  *)
(* stands for, and the orders of the days of a refresh set.                *)
(***************************************************************************)
EXTENDS Streams, Routines, TLAPS, FiniteSetTheorems

(***************************************************************************)
(* What the random routines take from the stream of one column, and what   *)
(* their sums do: the facts by which the draws of a row are counted.  Each *)
(* is about a fixed column c.                                              *)
(***************************************************************************)
drawnFrom(c, d) == IF c \in DOMAIN d THEN d[c] ELSE 0

\* The draws d are n from the stream of column x, or at most n.
Exactly(d, c, x, n) == (c \in DOMAIN d <=> c = x) /\ drawnFrom(c, d) = IF c = x THEN n ELSE 0
AtMost(d, c, x, n) ==
    (c \in DOMAIN d <=> c = x) /\ drawnFrom(c, d) \in Nat /\ drawnFrom(c, d) <= IF c = x THEN n ELSE 0

SumsAt(c) ==
    \A a, b : /\ c \in DOMAIN (a (+) b) <=> c \in DOMAIN a \/ c \in DOMAIN b
              /\ drawnFrom(c, a (+) b) = drawnFrom(c, a) + drawnFrom(c, b)

BranchesAt(c) ==
    \A d : \A p \in BOOLEAN :
        /\ c \in DOMAIN If(p, d) <=> p /\ c \in DOMAIN d
        /\ drawnFrom(c, If(p, d)) = IF p THEN drawnFrom(c, d) ELSE 0

LinesAt(c) ==
    \A d : \A n \in Nat :
        /\ c \in DOMAIN Times(n, d) <=> c \in DOMAIN d
        /\ drawnFrom(c, Times(n, d)) = n * drawnFrom(c, d)

RoutinesAt(c) ==
    /\ \A n, S : (c \in DOMAIN Each(n, S) <=> c \in S) /\ drawnFrom(c, Each(n, S)) = IF c \in S THEN n ELSE 0
    /\ \A x : /\ Exactly(nullSet(x), c, x, 2) /\ Exactly(mk_address(x), c, x, 7)
              /\ Exactly(genrand_integer(x), c, x, 1) /\ Exactly(genrand_key(x), c, x, 1)
              /\ Exactly(genrand_decimal(x), c, x, 1) /\ Exactly(genrand_date(x), c, x, 1)
              /\ Exactly(pick_distribution(x), c, x, 1)
              /\ Exactly(gen_charset(x, 20), c, x, 21) /\ Exactly(gen_charset(x, 13), c, x, 14)
              /\ Exactly(genrand_email(x), c, x, 23) /\ Exactly(genrand_ipaddr(x), c, x, 4)

TextsAt(c, k) ==
    \A x : /\ AtMost(gen_text(x, k, 20), c, x, 20) /\ AtMost(gen_text(x, k, 50), c, x, 50)
           /\ AtMost(gen_text(x, k, 80), c, x, 80) /\ AtMost(gen_text(x, k, 100), c, x, 100)
           /\ AtMost(gen_text(x, k, 200), c, x, 200)

\* Draws of several routines are added.
LEMMA Sums == \A c : SumsAt(c)
<1> SUFFICES ASSUME NEW a, NEW b, NEW c
             PROVE  /\ c \in DOMAIN (a (+) b) <=> c \in DOMAIN a \/ c \in DOMAIN b
                    /\ drawnFrom(c, a (+) b) = drawnFrom(c, a) + drawnFrom(c, b)
    BY DEF SumsAt
<1>1. c \in DOMAIN (a (+) b) <=> c \in DOMAIN a \/ c \in DOMAIN b
      BY DEF (+)
<1>2. c \in DOMAIN (a (+) b) => (a (+) b)[c] = drawnFrom(c, a) + drawnFrom(c, b)
      BY DEF (+), drawnFrom
<1> QED
    BY <1>1, <1>2 DEF drawnFrom

\* A branch draws what it draws when it is taken, and n lines n times what a line does.
LEMMA Branches == \A c : BranchesAt(c) /\ LinesAt(c)
<1>1. \A c : BranchesAt(c)
      BY DEF BranchesAt, If, EmptyBag, SetToBag, drawnFrom
<1>2. \A c : LinesAt(c)
      BY DEF LinesAt, Times, drawnFrom
<1> QED
    BY <1>1, <1>2

\* The routines of genrand.c, nulls.c and address.c draw a fixed number.
LEMMA RoutinesDraw == \A c : RoutinesAt(c)
<1> TAKE c
<1>1. \A n, S : (c \in DOMAIN Each(n, S) <=> c \in S) /\ drawnFrom(c, Each(n, S)) = IF c \in S THEN n ELSE 0
      BY DEF Each, drawnFrom
<1> QED
    BY <1>1, Sums
    DEF SumsAt, RoutinesAt, Exactly, nullSet, mk_address, genrand_email, genrand_integer, genrand_key, genrand_decimal,
        genrand_date, pick_distribution, gen_charset, genrand_ipaddr

\* A text draws no more than its length.
LEMMA TextsDraw == \A k \in Nat : \A c : TextsAt(c, k)
<1>1. ASSUME NEW k \in Nat, NEW max \in Nat \ {0, 1}, NEW c, NEW x
      PROVE  AtMost(gen_text(x, k, max), c, x, max)
  <2> DEFINE n == Between(1, max - 1, k)
  <2>1. n \in 1..(max - 1)
    <3>1. \A d \in Nat \ {0} : k % d \in 0..(d - 1)
          OBVIOUS
    <3> QED
        BY <3>1 DEF Between
  <2>2. gen_text(x, k, max) = Each(1, {x}) (+) Each(n, {x})
        BY DEF gen_text, mk_sentence, genrand_integer
  <2> HIDE DEF n
  <2> QED
      BY <2>1, <2>2, RoutinesDraw, Sums DEF AtMost, RoutinesAt, SumsAt
<1> QED
    BY <1>1 DEF TextsAt

\* Nothing is drawn.
LEMMA NoDraws == \A c : c \notin DOMAIN EmptyBag /\ drawnFrom(c, EmptyBag) = 0
BY DEF EmptyBag, SetToBag, drawnFrom

(***************************************************************************)
(* Amounts.                                                                *)
(***************************************************************************)
\* A share of an amount, in hundredths, that is not more than all of it.
LEMMA Share ==
    ASSUME NEW a \in Nat, NEW b \in Nat
    PROVE  /\ (a * b) \div 100 \in Nat
           /\ b <= 100 => (a * b) \div 100 <= a
OBVIOUS

\* A greater price is a greater amount.
LEMMA Greater ==
    ASSUME NEW a \in Nat, NEW b \in Nat, NEW n \in Nat, a <= b
    PROVE  a * n <= b * n /\ n * a <= n * b /\ a * n \in Nat
OBVIOUS

LEMMA Powers == 10 ^ 0 = 1 /\ 10 ^ 2 = 100 /\ 10 ^ 4 = 10000
OBVIOUS

\* Division does not round numbers that are not below zero up.
LEMMA Quotients ==
    ASSUME NEW c \in Nat
    PROVE  P!quotient(c, 1) = c /\ P!quotient(c, 100) = c \div 100 /\ P!quotient(c * 10000, 10000) = c
BY DEF P!quotient

\* Numbers with two decimals, and whole numbers.
LEMMA Arithmetic ==
    ASSUME NEW a \in Int, NEW b \in Int
    PROVE  /\ P!OP_PLUS(P!cents(a), P!cents(b)) = P!cents(a + b)
           /\ P!OP_MINUS(P!cents(a), P!cents(b)) = P!cents(a - b)
           /\ P!NegateDecimal(P!cents(a)) = P!cents(-a)
           /\ a * b \in Nat => P!OP_MULT(P!cents(a), P!cents(b)) = P!cents((a * b) \div 100)
           /\ a * b \in Nat => P!OP_MULT(P!cents(a), P!itodec(b)) = P!cents(a * b)
           /\ a * b \in Nat => P!OP_MULT(P!itodec(a), P!cents(b)) = P!cents(a * b)
           /\ a \in Nat => P!OP_DIV(P!itodec(a), P!dHundred) = P!cents(a)
           /\ P!dOne = P!cents(100) /\ P!dZero = P!cents(0)
<1>1. /\ P!cents(a).number = a /\ P!cents(a).precision = 2 /\ P!itodec(a).number = a /\ P!itodec(a).precision = 0
      /\ P!cents(b).number = b /\ P!cents(b).precision = 2 /\ P!itodec(b).number = b /\ P!itodec(b).precision = 0
      BY DEF P!cents, P!itodec, P!decimal
<1>2. P!OP_PLUS(P!cents(a), P!cents(b)) = P!cents(a + b) /\ P!OP_MINUS(P!cents(a), P!cents(b)) = P!cents(a - b)
      BY <1>1 DEF P!OP_PLUS, P!OP_MINUS, P!precisionOf, P!cents
<1>3. P!NegateDecimal(P!cents(a)) = P!cents(-a)
      BY DEF P!NegateDecimal, P!cents, P!decimal
<1>4. /\ P!OP_MULT(P!cents(a), P!cents(b)) = P!decimal(P!quotient(a * b, 10 ^ 2), 2)
      /\ P!OP_MULT(P!cents(a), P!itodec(b)) = P!decimal(P!quotient(a * b, 10 ^ 0), 2)
      /\ P!OP_MULT(P!itodec(a), P!cents(b)) = P!decimal(P!quotient(a * b, 10 ^ 0), 2)
  <2>1. 2 + 2 - 2 = 2 /\ 2 + 0 - 2 = 0 /\ 0 + 2 - 2 = 0
        BY SMTT(60)
  <2>2. P!OP_MULT(P!cents(a), P!cents(b)) = P!decimal(P!quotient(a * b, 10 ^ (2 + 2 - 2)), 2)
        BY <1>1 DEF P!OP_MULT, P!precisionOf
  <2>3. P!OP_MULT(P!cents(a), P!itodec(b)) = P!decimal(P!quotient(a * b, 10 ^ (2 + 0 - 2)), 2)
        BY <1>1 DEF P!OP_MULT, P!precisionOf
  <2>4. P!OP_MULT(P!itodec(a), P!cents(b)) = P!decimal(P!quotient(a * b, 10 ^ (0 + 2 - 2)), 2)
        BY <1>1 DEF P!OP_MULT, P!precisionOf
  <2> QED
      BY <2>1, <2>2, <2>3, <2>4
<1>5. ASSUME a * b \in Nat
      PROVE  /\ P!OP_MULT(P!cents(a), P!cents(b)) = P!cents((a * b) \div 100)
             /\ P!OP_MULT(P!cents(a), P!itodec(b)) = P!cents(a * b)
             /\ P!OP_MULT(P!itodec(a), P!cents(b)) = P!cents(a * b)
      BY <1>4, <1>5, Powers, Quotients DEF P!cents
<1>6. P!dOne = P!cents(100) /\ P!dZero = P!cents(0) /\ P!dHundred = P!cents(10000)
      BY Powers DEF P!dOne, P!dZero, P!dHundred, P!strtodec, P!cents, P!decimal
<1>7. ASSUME a \in Nat PROVE P!OP_DIV(P!itodec(a), P!dHundred) = P!cents(a)
  <2>1. P!dHundred.number = 10000 /\ P!dHundred.precision = 2
        BY <1>6 DEF P!cents, P!decimal
  <2>2. P!OP_DIV(P!itodec(a), P!dHundred) = P!decimal(P!quotient(a * 10 ^ (2 * 2 - 0), 10000 * 10 ^ (2 - 2)), 2)
        BY <1>1, <2>1 DEF P!OP_DIV, P!precisionOf
  <2>3. 10 ^ (2 * 2 - 0) = 10000 /\ 10000 * 10 ^ (2 - 2) = 10000
        OBVIOUS
  <2> QED
      BY <1>7, <2>2, <2>3, Quotients DEF P!cents
<1> QED
    BY <1>2, <1>3, <1>5, <1>6, <1>7

\* The same, each for itself.
LEMMA Added ==
    \A a, b \in Int : /\ P!OP_PLUS(P!cents(a), P!cents(b)) = P!cents(a + b)
                      /\ P!OP_MINUS(P!cents(a), P!cents(b)) = P!cents(a - b)
BY Arithmetic

LEMMA Shared == \A a, b \in Int : a * b \in Nat => P!OP_MULT(P!cents(a), P!cents(b)) = P!cents((a * b) \div 100)
BY Arithmetic, ZenonT(60)

LEMMA Repeated == \A a, b \in Int : a * b \in Nat => P!OP_MULT(P!cents(a), P!itodec(b)) = P!cents(a * b)
BY Arithmetic, ZenonT(60)

LEMMA Constants == P!dOne = P!cents(100) /\ P!dZero = P!cents(0)
<1>1. 0 \in Int
      OBVIOUS
<1> QED
    BY <1>1, Arithmetic

\* What is drawn for a sale and for its return: no more than all of the price is discounted,
\* all of the amount paid with a coupon, and all of the quantity brought back.
SaleDraws ==
    [wholesale : Nat, quantity : Nat, markup : Nat, discount : 0..100, couponUsage : Nat, coupon : 0..100,
     shipping : Nat, tax : Nat]
BackDraws == [quantity : Nat, shipping : Nat, cashPct : 0..100, creditPct : 0..100, fee : Nat]

\* The amounts of a sale of n pieces at the list price l and the price s, with a coupon of c.
IsSale(sale, n, l, s, c, ship, rate, tax) ==
    /\ {"net_paid", "ext_ship_cost", "ext_tax", "refunded_cash", "reversed_charge", "store_credit", "fee", "net_loss"}
           \subseteq DOMAIN sale
    /\ sale.list_price = P!cents(l) /\ sale.sales_price = P!cents(s) /\ sale.tax_pct = P!cents(rate)
    /\ sale.ext_list_price = P!cents(l * n) /\ sale.ext_sales_price = P!cents(s * n)
    /\ sale.ext_discount_amt = P!cents(l * n - s * n)
    /\ sale.coupon_amt = P!cents(c) /\ sale.net_paid = P!cents(s * n - c)
    /\ sale.ext_ship_cost = P!cents(ship) /\ sale.ext_tax = P!cents(tax)
    /\ sale.net_paid_inc_ship_tax = P!cents(s * n - c + ship + tax)
    /\ sale.refunded_cash = P!cents(0) /\ sale.reversed_charge = P!cents(0) /\ sale.store_credit = P!cents(0)

\* The amounts of a sale are those of its pieces, and the price is at most the list price.
LEMMA SaleAmounts ==
    ASSUME NEW d \in SaleDraws
    PROVE  \E l, s, c, ship, rate, tax \in Nat :
               /\ IsSale(P!set_pricing_sale(d), d.quantity, l, s, c, ship, rate, tax)
               /\ s <= l /\ c <= s * d.quantity
<1> DEFINE n     == d.quantity
           l     == (d.wholesale * (d.markup + 100)) \div 100
           s     == (l * (100 - d.discount)) \div 100
           c     == IF d.couponUsage <= 20 THEN (s * n * d.coupon) \div 100 ELSE 0
           ship  == ((l * d.shipping) \div 100) * n
           tax   == ((s * n - c) * d.tax) \div 100
<1>1. /\ d.wholesale \in Nat /\ n \in Nat /\ d.markup \in Nat /\ d.discount \in 0..100 /\ d.couponUsage \in Nat
      /\ d.coupon \in 0..100 /\ d.shipping \in Nat /\ d.tax \in Nat
      BY DEF SaleDraws
<1>2. l \in Nat /\ d.wholesale * (d.markup + 100) \in Nat
      BY <1>1, Share, Greater
<1> HIDE DEF l
<1>3. s \in Nat /\ s <= l /\ l * (100 - d.discount) \in Nat /\ 100 - d.discount \in Nat
  <2>1. 100 - d.discount \in Nat /\ 100 - d.discount <= 100
        BY <1>1
  <2> QED
      BY <1>2, <2>1, Share, Greater
<1> HIDE DEF s
<1>4. s * n \in Nat /\ l * n \in Nat /\ n * s \in Nat
      BY <1>1, <1>2, <1>3, Greater
<1>5. c \in Nat /\ c <= s * n /\ s * n * d.coupon \in Nat
  <2> DEFINE price == s * n
  <2>1. price \in Nat /\ d.coupon \in Nat /\ d.coupon <= 100
        BY <1>1, <1>4
  <2> HIDE DEF price
  <2>2. (price * d.coupon) \div 100 \in Nat /\ (price * d.coupon) \div 100 <= price /\ price * d.coupon \in Nat
        BY <2>1, Share, Greater
  <2> QED
      BY <2>1, <2>2 DEF price
<1> HIDE DEF c
<1>6. s * n - c \in Nat /\ (s * n - c) * d.tax \in Nat /\ tax \in Nat
  <2>1. s * n - c \in Nat
        BY <1>4, <1>5
  <2> QED
      BY <1>1, <2>1, Share, Greater
<1>7. l * d.shipping \in Nat /\ (l * d.shipping) \div 100 \in Nat /\ ship \in Nat
      BY <1>1, <1>2, Share, Greater
<1> HIDE DEF tax, ship, n
<1>8. P!OP_MULT(P!cents(d.wholesale), P!OP_PLUS(P!cents(d.markup), P!dOne)) = P!cents(l)
  <2>1. d.wholesale \in Int /\ d.markup \in Int /\ 100 \in Int /\ d.markup + 100 \in Int
        BY <1>1
  <2>2. P!OP_PLUS(P!cents(d.markup), P!dOne) = P!cents(d.markup + 100)
        BY <2>1, Constants, Added, ZenonT(60)
  <2>3. P!OP_MULT(P!cents(d.wholesale), P!cents(d.markup + 100)) = P!cents((d.wholesale * (d.markup + 100)) \div 100)
        BY <1>2, <2>1, Shared, Zenon
  <2> QED
      BY <2>2, <2>3, Zenon DEF l
<1>9. P!OP_MULT(P!cents(l), P!OP_PLUS(P!NegateDecimal(P!cents(d.discount)), P!dOne)) = P!cents(s)
  <2>1. /\ d.discount \in Int /\ -d.discount \in Int /\ 100 \in Int /\ l \in Int /\ 100 - d.discount \in Int
        /\ -d.discount + 100 = 100 - d.discount
        BY <1>1, <1>2
  <2>2. P!NegateDecimal(P!cents(d.discount)) = P!cents(-d.discount)
        BY <2>1, Arithmetic, Zenon
  <2>3. P!OP_PLUS(P!cents(-d.discount), P!dOne) = P!cents(-d.discount + 100)
        BY <2>1, Constants, Added, ZenonT(60)
  <2>4. P!OP_MULT(P!cents(l), P!cents(100 - d.discount)) = P!cents((l * (100 - d.discount)) \div 100)
        BY <1>3, <2>1, Shared, Zenon
  <2> QED
      BY <2>1, <2>2, <2>3, <2>4, Zenon DEF s
<1>10. P!OP_MULT(P!cents(s), P!itodec(n)) = P!cents(s * n) /\ P!OP_MULT(P!cents(l), P!itodec(n)) = P!cents(l * n)
  <2>1. s \in Int /\ n \in Int /\ l \in Int
        BY <1>1, <1>2, <1>3 DEF n
  <2> QED
      BY <1>4, <2>1, Repeated, Zenon
<1>11. (IF d.couponUsage <= 20 THEN P!OP_MULT(P!cents(s * n), P!cents(d.coupon)) ELSE P!dZero) = P!cents(c)
  <2>1. s * n \in Int /\ d.coupon \in Int
        BY <1>1, <1>4
  <2>2. P!OP_MULT(P!cents(s * n), P!cents(d.coupon)) = P!cents((s * n * d.coupon) \div 100)
        BY <1>5, <2>1, Shared, Zenon
  <2> QED
      BY <2>2, Constants DEF c
<1>12. P!OP_MINUS(P!cents(s * n), P!cents(c)) = P!cents(s * n - c)
  <2>1. s * n \in Int /\ c \in Int
        BY <1>4, <1>5
  <2> QED
      BY <2>1, Added, Zenon
<1>13. P!OP_MULT(P!cents(s * n - c), P!cents(d.tax)) = P!cents(tax)
  <2>1. s * n - c \in Int /\ d.tax \in Int
        BY <1>1, <1>6
  <2> QED
      BY <1>6, <2>1, Shared, Zenon DEF tax
<1>14. P!OP_MULT(P!OP_MULT(P!cents(l), P!cents(d.shipping)), P!itodec(n)) = P!cents(ship)
  <2>1. l \in Int /\ d.shipping \in Int /\ n \in Int /\ (l * d.shipping) \div 100 \in Int
        BY <1>1, <1>2, <1>7 DEF n
  <2>2. P!OP_MULT(P!cents(l), P!cents(d.shipping)) = P!cents((l * d.shipping) \div 100)
        BY <1>7, <2>1, Shared, Zenon
  <2>3. P!OP_MULT(P!cents((l * d.shipping) \div 100), P!itodec(n)) = P!cents(((l * d.shipping) \div 100) * n)
        BY <1>7, <2>1, Repeated, Zenon DEF ship
  <2> QED
      BY <2>2, <2>3, Zenon DEF ship
<1>15. /\ P!OP_MINUS(P!cents(l * n), P!cents(s * n)) = P!cents(l * n - s * n)
       /\ P!OP_PLUS(P!OP_PLUS(P!cents(s * n - c), P!cents(ship)), P!cents(tax)) = P!cents(s * n - c + ship + tax)
  <2>1. /\ l * n \in Int /\ s * n \in Int /\ s * n - c \in Int /\ ship \in Int /\ tax \in Int
        /\ s * n - c + ship \in Int
        BY <1>4, <1>6, <1>7
  <2> QED
      BY <2>1, Added, ZenonT(60)
<1>16. P!dZero = P!cents(0)
       BY Constants
<1>17. IsSale(P!set_pricing_sale(d), n, l, s, c, ship, d.tax, tax)
       BY <1>8, <1>9, <1>10, <1>11, <1>12, <1>13, <1>14, <1>15, <1>16, ZenonT(60) DEF IsSale, P!set_pricing_sale, n
<1> QED
    BY <1>1, <1>2, <1>3, <1>5, <1>6, <1>7, <1>17 DEF n
\* The amounts of a return that is worth e: what is spent on it and the fee are lost.
IsReturn(back, e, cash, charge, credit, ship, tax, fee) ==
    /\ cash + charge + credit = e
    /\ back.refunded_cash = P!cents(cash) /\ back.reversed_charge = P!cents(charge)
    /\ back.store_credit = P!cents(credit) /\ back.net_paid = P!cents(e)
    /\ back.ext_ship_cost = P!cents(ship) /\ back.ext_tax = P!cents(tax) /\ back.fee = P!cents(fee)
    /\ back.net_loss = P!cents(ship + tax + fee)

\* What is paid back in cash, taken from a charge and given as credit is what was paid.
LEMMA ReturnAmounts ==
    ASSUME NEW d \in BackDraws, NEW sale, NEW n \in Nat, NEW l \in Nat, NEW s \in Nat, NEW c \in Nat,
           NEW x \in Nat, NEW rate \in Nat, NEW y \in Nat, IsSale(sale, n, l, s, c, x, rate, y)
    PROVE  \E cash, charge, credit, ship, tax \in Nat :
               IsReturn(P!set_pricing_return(sale, d), s * d.quantity, cash, charge, credit, ship, tax, d.fee)
<1> DEFINE m      == d.quantity
           e      == s * m
           cash   == (d.cashPct * e) \div 100
           charge == ((e - cash) * d.creditPct) \div 100
           credit == e - charge - cash
           ship   == ((l * d.shipping) \div 100) * m
           tax    == (e * rate) \div 100
<1>1. m \in Nat /\ d.shipping \in Nat /\ d.cashPct \in 0..100 /\ d.creditPct \in 0..100 /\ d.fee \in Nat
      BY DEF BackDraws
<1> HIDE DEF m
<1>2. s * m \in Nat /\ e \in Nat
      BY <1>1, Greater
<1> HIDE DEF e
<1>3. cash \in Nat /\ cash <= e /\ d.cashPct * e \in Nat
  <2>1. d.cashPct * e = e * d.cashPct
        BY <1>1, <1>2
  <2> QED
      BY <1>1, <1>2, <2>1, Share, Greater
<1> HIDE DEF cash
<1>4. e - cash \in Nat /\ charge \in Nat /\ charge <= e - cash /\ (e - cash) * d.creditPct \in Nat
  <2>1. e - cash \in Nat
        BY <1>2, <1>3
  <2> QED
      BY <1>1, <2>1, Share, Greater
<1> HIDE DEF charge
<1>5. credit \in Nat /\ cash + charge + credit = e
      BY <1>2, <1>3, <1>4
<1>6. /\ l * d.shipping \in Nat /\ (l * d.shipping) \div 100 \in Nat /\ ship \in Nat
      /\ e * rate \in Nat /\ tax \in Nat
      BY <1>1, <1>2, Share, Greater
<1> HIDE DEF credit, ship, tax
<1>7. P!OP_MULT(P!cents(s), P!itodec(m)) = P!cents(e)
  <2>1. s \in Int /\ m \in Int
        BY <1>1
  <2> QED
      BY <1>2, <2>1, Repeated, Zenon DEF e
<1>8. P!OP_MULT(P!OP_MULT(P!cents(l), P!cents(d.shipping)), P!itodec(m)) = P!cents(ship)
  <2>1. l \in Int /\ d.shipping \in Int /\ m \in Int /\ (l * d.shipping) \div 100 \in Int
        BY <1>1, <1>6
  <2>2. P!OP_MULT(P!cents(l), P!cents(d.shipping)) = P!cents((l * d.shipping) \div 100)
        BY <1>6, <2>1, Shared, Zenon
  <2>3. P!OP_MULT(P!cents((l * d.shipping) \div 100), P!itodec(m)) = P!cents(((l * d.shipping) \div 100) * m)
        BY <1>6, <2>1, Repeated, Zenon DEF ship
  <2> QED
      BY <2>2, <2>3, Zenon DEF ship
<1>9. P!OP_MULT(P!cents(e), P!cents(rate)) = P!cents(tax)
  <2>1. e \in Int /\ rate \in Int
        BY <1>2
  <2> QED
      BY <1>6, <2>1, Shared, Zenon DEF tax
<1>10. P!OP_DIV(P!itodec(d.cashPct), P!dHundred) = P!cents(d.cashPct)
       /\ P!OP_DIV(P!itodec(d.creditPct), P!dHundred) = P!cents(d.creditPct)
  <2>1. d.cashPct \in Nat /\ d.creditPct \in Nat /\ d.cashPct \in Int /\ d.creditPct \in Int
        BY <1>1
  <2> QED
      BY <2>1, Arithmetic, Zenon
<1>11. P!OP_MULT(P!cents(d.cashPct), P!cents(e)) = P!cents(cash)
  <2>1. d.cashPct \in Int /\ e \in Int
        BY <1>1, <1>2
  <2> QED
      BY <1>3, <2>1, Shared, Zenon DEF cash
<1>12. P!OP_MULT(P!OP_MINUS(P!cents(e), P!cents(cash)), P!cents(d.creditPct)) = P!cents(charge)
  <2>1. e \in Int /\ cash \in Int /\ e - cash \in Int /\ d.creditPct \in Int
        BY <1>1, <1>2, <1>3
  <2>2. P!OP_MINUS(P!cents(e), P!cents(cash)) = P!cents(e - cash)
        BY <2>1, Added, Zenon
  <2>3. P!OP_MULT(P!cents(e - cash), P!cents(d.creditPct)) = P!cents(((e - cash) * d.creditPct) \div 100)
        BY <1>4, <2>1, Shared, Zenon
  <2> QED
      BY <2>2, <2>3, Zenon DEF charge
<1>13. P!creditOf(P!cents(e), P!cents(charge), P!cents(cash)) = P!cents(credit)
  <2>1. e \in Int /\ cash \in Int /\ charge \in Int /\ e - charge \in Int
        BY <1>2, <1>3, <1>4
  <2> QED
      BY <2>1, Added, Zenon DEF P!creditOf, credit
<1> DEFINE all  == P!OP_PLUS(P!OP_PLUS(P!cents(e), P!cents(ship)), P!cents(tax))
           left == P!OP_MINUS(P!OP_MINUS(P!OP_MINUS(all, P!cents(credit)), P!cents(cash)), P!cents(charge))
<1>14. P!OP_PLUS(left, P!cents(d.fee)) = P!cents(ship + tax + d.fee)
  <2> DEFINE t1 == e + ship
             t2 == t1 + tax
             t3 == t2 - credit
             t4 == t3 - cash
  <2>1. /\ e \in Int /\ ship \in Int /\ tax \in Int /\ credit \in Int /\ cash \in Int /\ charge \in Int /\ d.fee \in Int
        /\ t1 \in Int /\ t2 \in Int /\ t3 \in Int /\ t4 \in Int
        BY <1>1, <1>2, <1>3, <1>4, <1>5, <1>6
  <2>2. t4 - charge = ship + tax
        BY <1>5, <2>1
  <2>3. P!OP_PLUS(P!cents(e), P!cents(ship)) = P!cents(t1)
        BY <2>1, Added, Zenon
  <2> HIDE DEF t1
  <2>4. P!OP_PLUS(P!cents(t1), P!cents(tax)) = P!cents(t2)
        BY <2>1, Added, Zenon
  <2> HIDE DEF t2
  <2>5. P!OP_MINUS(P!cents(t2), P!cents(credit)) = P!cents(t3)
        BY <2>1, Added, Zenon
  <2> HIDE DEF t3
  <2>6. P!OP_MINUS(P!cents(t3), P!cents(cash)) = P!cents(t4)
        BY <2>1, Added, Zenon
  <2> HIDE DEF t4
  <2>7. P!OP_MINUS(P!cents(t4), P!cents(charge)) = P!cents(ship + tax)
    <3>1. P!OP_MINUS(P!cents(t4), P!cents(charge)) = P!cents(t4 - charge)
          BY <2>1, Added, Zenon
    <3> QED
        BY <2>2, <3>1
  <2>8. ship + tax \in Int /\ d.fee \in Int
        BY <2>1
  <2>9. P!OP_PLUS(P!cents(ship + tax), P!cents(d.fee)) = P!cents(ship + tax + d.fee)
    <3> DEFINE t5 == ship + tax
    <3>1. t5 \in Int
          BY <2>8
    <3> HIDE DEF t5
    <3>2. P!OP_PLUS(P!cents(t5), P!cents(d.fee)) = P!cents(t5 + d.fee)
          BY <2>8, <3>1, Added, Zenon
    <3> QED
        BY <3>2 DEF t5
  <2> QED
      BY <2>3, <2>4, <2>5, <2>6, <2>7, <2>9, Zenon
<1>15. /\ sale.list_price = P!cents(l) /\ sale.sales_price = P!cents(s) /\ sale.tax_pct = P!cents(rate)
       /\ {"net_paid", "ext_ship_cost", "ext_tax", "refunded_cash", "reversed_charge", "store_credit", "fee", "net_loss"}
              \subseteq DOMAIN sale
       BY DEF IsSale
<1> DEFINE back == P!set_pricing_return(sale, d)
<1>16. /\ back.refunded_cash = P!cents(cash) /\ back.reversed_charge = P!cents(charge)
       /\ back.store_credit = P!cents(credit) /\ back.net_paid = P!cents(e)
       /\ back.ext_ship_cost = P!cents(ship) /\ back.ext_tax = P!cents(tax) /\ back.fee = P!cents(d.fee)
       /\ back.net_loss = P!cents(ship + tax + d.fee)
       BY <1>7, <1>8, <1>9, <1>10, <1>11, <1>12, <1>13, <1>14, <1>15 DEF P!set_pricing_return, m
<1>17. IsReturn(back, s * d.quantity, cash, charge, credit, ship, tax, d.fee)
       BY <1>5, <1>16 DEF e, m, IsReturn
<1>18. cash \in Nat /\ charge \in Nat /\ credit \in Nat /\ ship \in Nat /\ tax \in Nat
       BY <1>3, <1>4, <1>5, <1>6
<1> QED
    BY <1>17, <1>18, Zenon

\* The sales channels and what is returned to them; nothing is computed for the returns of a
\* refresh set.
Returns == P!ofReturns \cup {"S_SRET_PRICING", "S_CRET_PRICING", "S_WRET_PRICING"}

\* Whatever is drawn for a sale and for its return, if no more comes back than was sold: the
\* amounts follow from each other, and those returned add up to the total returned.
THEOREM AmountsAlwaysAddUp ==
    ASSUME sample.of \in P!ofSales, sample.return \in Returns, sample.sale \in SaleDraws, sample.back \in BackDraws,
           sample.back.quantity <= sample.sale.quantity
    PROVE  AmountsAddUp
<1> DEFINE d    == sample.sale
           b    == sample.back
           sale == P!set_pricing_sale(d)
           n    == d.quantity
           m    == b.quantity
<1>1. P!set_pricing(sample.of, [none |-> 0], d) = sale
      BY DEF P!set_pricing, P!ofSales, P!ofReturns
<1>2. PICK l, s, c, ship, rate, tax \in Nat : IsSale(sale, n, l, s, c, ship, rate, tax) /\ s <= l /\ c <= s * n
      BY SaleAmounts
<1>3. n \in Nat /\ m \in Nat /\ m <= n /\ b.fee \in Nat
      BY DEF SaleDraws, BackDraws
<1>4. s * n \in Nat /\ l * n \in Nat /\ s * m \in Nat /\ s * n <= l * n /\ s * m <= s * n
      BY <1>2, <1>3, Greater
<1>5. \A x : P!cents(x).number = x
      BY DEF P!cents, P!decimal
<1> HIDE DEF n, m, sale
<1> DEFINE price == s * n
           total == l * n
           worth == s * m
<1>6. price \in Nat /\ total \in Nat /\ worth \in Nat /\ price <= total /\ worth <= price /\ c <= price
      BY <1>2, <1>4
<1> HIDE DEF price, total, worth
<1>7. /\ sale.ext_list_price.number = total /\ sale.ext_sales_price.number = price
      /\ sale.ext_discount_amt.number = total - price /\ sale.coupon_amt.number = c
      /\ sale.net_paid.number = price - c /\ sale.ext_ship_cost.number = ship /\ sale.ext_tax.number = tax
      /\ sale.net_paid_inc_ship_tax.number = price - c + ship + tax
      /\ sale.refunded_cash.number = 0 /\ sale.reversed_charge.number = 0 /\ sale.store_credit.number = 0
      BY <1>2, <1>5 DEF IsSale, price, total
<1>8. ASSUME sample.return \in P!ofReturns
      PROVE  SaleAndReturn(sample, sale, P!set_pricing(sample.return, sale, b))
  <2> DEFINE back == P!set_pricing_return(sale, b)
  <2>1. P!set_pricing(sample.return, sale, b) = back
        BY <1>8 DEF P!set_pricing, P!ofSales, P!ofReturns
  <2>2. PICK cash, charge, credit, x, y \in Nat : IsReturn(back, s * m, cash, charge, credit, x, y, b.fee)
        BY <1>2, <1>3, ReturnAmounts DEF m
  <2> HIDE DEF back
  <2>3. /\ cash + charge + credit = worth
        /\ back.refunded_cash.number = cash /\ back.reversed_charge.number = charge
        /\ back.store_credit.number = credit /\ back.net_paid.number = worth
        /\ back.ext_ship_cost.number = x /\ back.ext_tax.number = y /\ back.fee.number = b.fee
        /\ back.net_loss.number = x + y + b.fee
        BY <2>2, <1>5 DEF IsReturn, worth
  <2> QED
      BY <1>2, <1>3, <1>6, <1>7, <1>8, <2>1, <2>2, <2>3 DEF SaleAndReturn
<1>9. ASSUME sample.return \notin P!ofReturns
      PROVE  SaleAndReturn(sample, sale, P!set_pricing(sample.return, sale, b))
  <2>1. P!set_pricing(sample.return, sale, b) = sale
        BY <1>9 DEF P!set_pricing, P!ofSales, P!ofReturns, Returns
  <2> QED
      BY <1>2, <1>6, <1>7, <1>9, <2>1 DEF SaleAndReturn
<1> QED
    BY <1>1, <1>8, <1>9 DEF AmountsAddUp, SaleReturned

(***************************************************************************)
(* Revisions.                                                              *)
(***************************************************************************)
LEMMA Days ==
    /\ K!jMinimumDataDate = 2450815 /\ K!jMaximumDataDate = 2453005
    /\ K!jH1DataDate = 2451910 /\ K!jT1DataDate = 2451545 /\ K!jT2DataDate = 2452275
BY DEF K!jMinimumDataDate, K!jMaximumDataDate, K!jH1DataDate, K!jT1DataDate, K!jT2DataDate, DataStart, DataEnd

\* The revision that is row k of a table: of which row, and the days it is in force.
IsRevision(t, k, of, begin, end) ==
    K!setSCDKeys(t, k) = [bNewBKey |-> of = k, of |-> of, begin |-> begin, end |-> end]

\* Rows by their places among six.
LEMMA RowKeys ==
    ASSUME NEW t \in Nat, NEW k \in Nat
    PROVE  /\ k % 6 = 1 => IsRevision(t, k, k, 2450815 - 6 * t, -1)
           /\ k % 6 = 2 => IsRevision(t, k, k, 2450815 - 6 * t, 2451910 - 6 * t)
           /\ k % 6 = 3 => IsRevision(t, k, k - 1, 2451911 - 6 * t, -1)
           /\ k % 6 = 4 => IsRevision(t, k, k, 2450815 - 6 * t, 2451545 - 6 * t)
           /\ k % 6 = 5 => IsRevision(t, k, k - 1, 2451546 - 6 * t, 2452275 - 6 * t)
           /\ k % 6 = 0 => IsRevision(t, k, k - 2, 2452276 - 6 * t, -1)
<1>1. t * 6 = 6 * t /\ k % 6 \in 0..5
      OBVIOUS
<1>2. ASSUME k % 6 = 1 PROVE IsRevision(t, k, k, 2450815 - 6 * t, -1)
      BY <1>1, <1>2, Days DEF IsRevision, K!setSCDKeys
<1>3. ASSUME k % 6 = 2 PROVE IsRevision(t, k, k, 2450815 - 6 * t, 2451910 - 6 * t)
      BY <1>1, <1>3, Days DEF IsRevision, K!setSCDKeys
<1>4. ASSUME k % 6 = 3 PROVE IsRevision(t, k, k - 1, 2451911 - 6 * t, -1)
      BY <1>1, <1>4, Days DEF IsRevision, K!setSCDKeys
<1>5. ASSUME k % 6 = 4 PROVE IsRevision(t, k, k, 2450815 - 6 * t, 2451545 - 6 * t)
      BY <1>1, <1>5, Days DEF IsRevision, K!setSCDKeys
<1>6. ASSUME k % 6 = 5 PROVE IsRevision(t, k, k - 1, 2451546 - 6 * t, 2452275 - 6 * t)
      BY <1>1, <1>6, Days DEF IsRevision, K!setSCDKeys
<1>7. ASSUME k % 6 = 0 PROVE IsRevision(t, k, k - 2, 2452276 - 6 * t, -1)
      BY <1>1, <1>7, Days DEF IsRevision, K!setSCDKeys
<1> QED
    BY <1>2, <1>3, <1>4, <1>5, <1>6, <1>7, SMT

\* A number and what it is more than a multiple.
LEMMA Parts6 == \A k \in Nat : \E q \in Nat, j \in 0..5 : k = 6 * q + j /\ k % 6 = j
<1> TAKE k \in Nat
<1>1. k \div 6 \in Nat
      OBVIOUS
<1>2. k % 6 \in 0..5
      OBVIOUS
<1>3. k = 6 * (k \div 6) + (k % 6)
      OBVIOUS
<1> QED
    BY <1>1, <1>2, <1>3

LEMMA Parts3 == \A k \in Nat : \E q \in Nat, j \in 0..2 : k = 3 * q + j /\ k % 3 = j /\ k \div 3 = q
<1> TAKE k \in Nat
<1>1. k \div 3 \in Nat
      OBVIOUS
<1>2. k % 3 \in 0..2
      OBVIOUS
<1>3. k = 3 * (k \div 3) + (k % 3)
      OBVIOUS
<1> QED
    BY <1>1, <1>2, <1>3

\* The row a row is a revision of.
LEMMA FirstOfRow ==
    ASSUME NEW t \in Nat, NEW k \in Nat
    PROVE  /\ k % 6 \in {1, 2, 4} => K!setSCDKeys(t, k).of = k
           /\ k % 6 \in {3, 5} => K!setSCDKeys(t, k).of = k - 1
           /\ k % 6 = 0 => K!setSCDKeys(t, k).of = k - 2
<1>1. \A of, begin, end : IsRevision(t, k, of, begin, end) => K!setSCDKeys(t, k).of = of
      BY DEF IsRevision
<1> QED
    BY <1>1, RowKeys

\* The rows of an id, by its place among three.
LEMMA IdRows1 ==
    ASSUME NEW id \in Nat \ {0}, NEW p \in Nat, id \div 3 = p, id % 3 = 1
    PROVE  K!getFirstSK(id) = 6 * p + 1 /\ K!getSKFromID(id) = {6 * p + 1}
<1>1. K!getFirstSK(id) = 6 * p + 1
      BY DEF K!getFirstSK
<1> QED
    BY <1>1 DEF K!getSKFromID

LEMMA IdRows2 ==
    ASSUME NEW id \in Nat \ {0}, NEW p \in Nat, id \div 3 = p, id % 3 = 2
    PROVE  K!getFirstSK(id) = 6 * p + 2 /\ K!getSKFromID(id) = {6 * p + 2, 6 * p + 3}
<1>1. K!getFirstSK(id) = 6 * p + 2
      BY DEF K!getFirstSK
<1>2. K!getSKFromID(id) = {K!getFirstSK(id), K!getFirstSK(id) + 1} /\ 6 * p + 2 + 1 = 6 * p + 3
      BY DEF K!getSKFromID
<1> QED
    BY <1>1, <1>2

LEMMA IdRows3 ==
    ASSUME NEW id \in Nat \ {0}, NEW p \in Nat, id \div 3 = p, id % 3 = 0
    PROVE  K!getFirstSK(id) = 6 * p - 2 /\ K!getSKFromID(id) = {6 * p - 2, 6 * p - 1, 6 * p}
<1>1. K!getFirstSK(id) = 6 * p - 2
      BY DEF K!getFirstSK
<1>2. K!getSKFromID(id) = {K!getFirstSK(id), K!getFirstSK(id) + 1, K!getFirstSK(id) + 2}
      BY DEF K!getSKFromID
<1>3. 6 * p - 2 + 1 = 6 * p - 1 /\ 6 * p - 2 + 2 = 6 * p
      OBVIOUS
<1> QED
    BY <1>1, <1>2, <1>3

\* The row that is joined, in a table that has all rows of the id.
LEMMA Joined1 ==
    ASSUME NEW id \in Nat \ {0}, NEW p \in Nat, id \div 3 = p, NEW day \in Int, NEW last \in Nat, 2 * id <= last,
           id % 3 = 1
    PROVE  K!matchSCDSK(id, day, last) = 6 * p + 1
<1>1. id = 3 * p + 1
      OBVIOUS
<1> QED
    BY <1>1 DEF K!matchSCDSK

LEMMA Joined2 ==
    ASSUME NEW id \in Nat \ {0}, NEW p \in Nat, id \div 3 = p, NEW day \in Int, NEW last \in Nat, 2 * id <= last,
           id % 3 = 2
    PROVE  K!matchSCDSK(id, day, last) = IF day > K!jH1DataDate THEN 6 * p + 3 ELSE 6 * p + 2
<1>1. id = 3 * p + 2
      OBVIOUS
<1> QED
    BY <1>1, Days DEF K!matchSCDSK

LEMMA Joined3 ==
    ASSUME NEW id \in Nat \ {0}, NEW p \in Nat, id \div 3 = p, NEW day \in Int, NEW last \in Nat, 2 * id <= last,
           id % 3 = 0
    PROVE  K!matchSCDSK(id, day, last) = IF day > K!jT2DataDate THEN 6 * p
                                         ELSE IF day > K!jT1DataDate THEN 6 * p - 1 ELSE 6 * p - 2
<1>1. id = 3 * p
      OBVIOUS
<1>2. K!jT1DataDate = 2451545 /\ K!jT2DataDate = 2452275 /\ 6 * p <= last /\ p * 6 = 6 * p
      BY <1>1, Days
<1>3. CASE day > 2452275
      BY <1>2, <1>3 DEF K!matchSCDSK
<1>4. CASE ~ (day > 2452275) /\ day > 2451545
      BY <1>2, <1>4 DEF K!matchSCDSK
<1>5. CASE ~ (day > 2451545)
      BY <1>2, <1>5 DEF K!matchSCDSK
<1> QED
    BY <1>2, <1>3, <1>4, <1>5

\* The rows of an id are the rows whose business key is made from its first row.
LEMMA RowsOfId ==
    ASSUME NEW t \in Nat, NEW id \in Nat \ {0}, NEW k \in Nat \ {0}
    PROVE  /\ K!setSCDKeys(t, k).of = K!getFirstSK(id) <=> k \in K!getSKFromID(id)
           /\ k \in K!getSKFromID(id) => k <= 2 * id
<1>1. PICK p \in Nat, i \in 0..2 : id = 3 * p + i /\ id % 3 = i /\ id \div 3 = p
      BY Parts3
<1>2. PICK q \in Nat, j \in 0..5 : k = 6 * q + j /\ k % 6 = j
      BY Parts6
<1> DEFINE of == IF j \in {1, 2, 4} THEN k ELSE IF j \in {3, 5} THEN k - 1 ELSE k - 2
<1>3. K!setSCDKeys(t, k).of = of
      BY <1>2, FirstOfRow
<1>4. CASE i = 1
  <2>1. K!getFirstSK(id) = 6 * p + 1 /\ K!getSKFromID(id) = {6 * p + 1}
        BY <1>1, <1>4, IdRows1
  <2> QED
      BY <1>1, <1>2, <1>3, <1>4, <2>1
<1>5. CASE i = 2
  <2>1. K!getFirstSK(id) = 6 * p + 2 /\ K!getSKFromID(id) = {6 * p + 2, 6 * p + 3}
        BY <1>1, <1>5, IdRows2
  <2> QED
      BY <1>1, <1>2, <1>3, <1>5, <2>1
<1>6. CASE i = 0
  <2>1. K!getFirstSK(id) = 6 * p - 2 /\ K!getSKFromID(id) = {6 * p - 2, 6 * p - 1, 6 * p}
        BY <1>1, <1>6, IdRows3
  <2> QED
      BY <1>1, <1>2, <1>3, <1>6, <2>1
<1> QED
    BY <1>4, <1>5, <1>6

\* When a revision is in force.
LEMMA ForceOf ==
    ASSUME NEW t, NEW k, NEW of, NEW begin, NEW end, NEW day, IsRevision(t, k, of, begin, end)
    PROVE  /\ InForce(t, k, day) <=> begin <= day /\ (end = -1 \/ day <= end)
           /\ K!setSCDKeys(t, k).begin = begin /\ K!setSCDKeys(t, k).end = end
           /\ of = k => K!setSCDKeys(t, k).bNewBKey
<1>1. K!setSCDKeys(t, k).begin = begin /\ K!setSCDKeys(t, k).end = end
      BY DEF IsRevision
<1>2. ASSUME of = k PROVE K!setSCDKeys(t, k).bNewBKey
  <2>1. (of = k) = TRUE
        BY <1>2
  <2>2. K!setSCDKeys(t, k).bNewBKey = (of = k)
        BY DEF IsRevision
  <2> QED
      BY <2>1, <2>2, Zenon
<1> QED
    BY <1>1, <1>2, Zenon DEF InForce

\* Whatever the id, the table and the day from the first of the data on: for tables whose dates
\* are days at all.
THEOREM RevisionsAlwaysMatch ==
    ASSUME sample.kind = "revision", sample.id \in Nat \ {0}, sample.table \in Nat, 6 * sample.table <= DataStart,
           sample.day \in Int, sample.day >= DataStart - 6 * sample.table
    PROVE  KeysAndLines
<1> DEFINE id   == sample.id
           t    == sample.table
           day  == sample.day
           last == 2 * id + 6
           of   == {r \in 1..last : K!setSCDKeys(t, r).of = K!getFirstSK(id)}
           rows == K!getSKFromID(id)
           in   == {r \in of : InForce(t, r, day)}
           joined == K!matchSCDSK(id, day, last)
           first  == K!getFirstSK(id)
<1>1. /\ id \in Nat \ {0} /\ t \in Nat /\ day \in Int /\ 6 * t <= 2450815 /\ day >= 2450815 - 6 * t
      BY DEF DataStart
<1> HIDE DEF id, t, day
<1>11. last \in Nat /\ 2 * id <= last
       BY <1>1
<1> HIDE DEF last
<1>12. day \in Int
       BY <1>1
<1>2. PICK p \in Nat, i \in 0..2 : id = 3 * p + i /\ id % 3 = i /\ id \div 3 = p
      BY <1>1, Parts3
<1>3. ASSUME rows \subseteq Nat \ {0} PROVE of = rows
  <2>1. \A k \in Nat \ {0} : /\ K!setSCDKeys(t, k).of = first <=> k \in rows
                             /\ k \in rows => k \in 1..last
        BY <1>1, RowsOfId DEF last
  <2> QED
      BY <1>1, <1>3, <1>11, <2>1
<1> DEFINE Match ==
               /\ joined \in rows /\ K!setSCDKeys(t, first).bNewBKey
               /\ \E r \in rows : {x \in rows : InForce(t, x, day)} = {r}
               /\ InForce(t, joined, day) \/ Shifted(t, day)
               /\ \A r \in rows : r + 1 \in rows => K!setSCDKeys(t, r + 1).begin = K!setSCDKeys(t, r).end + 1
               /\ rows \subseteq Nat \ {0}
<1>4. ASSUME i = 1 PROVE Match
  <2> DEFINE a == 6 * p + 1
  <2>1. first = a /\ rows = {a} /\ joined = a /\ a \in Nat \ {0} /\ a % 6 = 1
    <3>5. id \in Nat \ {0} /\ id % 3 = 1 /\ id \div 3 = p
          BY <1>1, <1>2, <1>4
    <3>2. first = a /\ rows = {a}
          BY <3>5, IdRows1
    <3>3. K!matchSCDSK(id, day, last) = 6 * p + 1
          BY <1>1, <1>11, <3>5, Joined1
    <3>4. a \in Nat \ {0} /\ a % 6 = 1
          OBVIOUS
    <3> QED
        BY <3>2, <3>3, <3>4
  <2>2. IsRevision(t, a, a, 2450815 - 6 * t, -1)
        BY <1>1, <2>1, RowKeys, SMT
  <2> HIDE DEF a
  <2>3. InForce(t, a, day) /\ K!setSCDKeys(t, a).bNewBKey
        BY <1>1, <2>2, ForceOf
  <2>4. {x \in rows : InForce(t, x, day)} = {a}
        BY <2>1, <2>3
  <2>5. \A r \in rows : r + 1 \notin rows
        BY <2>1
  <2> QED
      BY <2>1, <2>3, <2>4, <2>5
<1>5. ASSUME i = 2 PROVE Match
  <2> DEFINE a == 6 * p + 2
             b == a + 1
  <2>1. /\ first = a /\ rows = {a, b} /\ joined = (IF day > 2451910 THEN b ELSE a)
        /\ a \in Nat \ {0} /\ b \in Nat \ {0} /\ a % 6 = 2 /\ b % 6 = 3
    <3>1. b = 6 * p + 3
          OBVIOUS
    <3>5. id \in Nat \ {0} /\ id % 3 = 2 /\ id \div 3 = p
          BY <1>1, <1>2, <1>5
    <3>6. K!getFirstSK(id) = 6 * p + 2 /\ K!getSKFromID(id) = {6 * p + 2, 6 * p + 3}
          BY <3>5, IdRows2
    <3>2. first = a /\ rows = {a, b}
          BY <3>1, <3>6
    <3>3. K!matchSCDSK(id, day, last) = IF day > K!jH1DataDate THEN 6 * p + 3 ELSE 6 * p + 2
          BY <1>11, <1>12, <3>5, Joined2, ZenonT(60)
    <3>4. a \in Nat \ {0} /\ b \in Nat \ {0} /\ a % 6 = 2 /\ b % 6 = 3
          BY <3>1
    <3> QED
        BY <3>1, <3>2, <3>3, <3>4, Days
  <2>2. IsRevision(t, a, a, 2450815 - 6 * t, 2451910 - 6 * t)
        BY <1>1, <2>1, RowKeys, SMT
  <2>3. IsRevision(t, b, b - 1, 2451911 - 6 * t, -1)
        BY <1>1, <2>1, RowKeys, SMT
  <2>4. a \in Int /\ b = a + 1
        OBVIOUS
  <2> HIDE DEF a, b
  <2>5. /\ InForce(t, a, day) <=> day <= 2451910 - 6 * t
        /\ InForce(t, b, day) <=> 2451911 - 6 * t <= day
        /\ K!setSCDKeys(t, a).end = 2451910 - 6 * t /\ K!setSCDKeys(t, b).begin = 2451911 - 6 * t
        /\ K!setSCDKeys(t, a).bNewBKey
        BY <1>1, <2>2, <2>3, ForceOf
  <2>6. day \in (K!jH1DataDate - 6 * t + 1)..K!jH1DataDate => Shifted(t, day)
        BY Zenon DEF Shifted
  <2>7. \E r \in rows : {x \in rows : InForce(t, x, day)} = {r}
    <3>1. CASE day <= 2451910 - 6 * t
      <4>1. {x \in rows : InForce(t, x, day)} = {a}
            BY <1>1, <2>1, <2>4, <2>5, <3>1
      <4> QED
          BY <2>1, <4>1
    <3>2. CASE ~ (day <= 2451910 - 6 * t)
      <4>1. {x \in rows : InForce(t, x, day)} = {b}
            BY <1>1, <2>1, <2>4, <2>5, <3>2
      <4> QED
          BY <2>1, <4>1
    <3> QED
        BY <3>1, <3>2
  <2>8. InForce(t, joined, day) \/ Shifted(t, day)
        BY <1>1, <2>1, <2>4, <2>5, <2>6, Days
  <2>9. \A r \in rows : r + 1 \in rows => K!setSCDKeys(t, r + 1).begin = K!setSCDKeys(t, r).end + 1
        BY <1>1, <2>1, <2>4, <2>5
  <2> QED
      BY <2>1, <2>5, <2>7, <2>8, <2>9
<1>6. ASSUME i = 0 PROVE Match
  <2> DEFINE a == 6 * p - 2
             b == a + 1
             c == b + 1
  <2>1. /\ first = a /\ rows = {a, b, c}
        /\ joined = (IF day > 2452275 THEN c ELSE IF day > 2451545 THEN b ELSE a)
        /\ a \in Nat \ {0} /\ b \in Nat \ {0} /\ c \in Nat \ {0} /\ a % 6 = 4 /\ b % 6 = 5 /\ c % 6 = 0
    <3>1. b = 6 * p - 1 /\ c = 6 * p /\ p >= 1
          BY <1>1, <1>2, <1>6
    <3>5. id \in Nat \ {0} /\ id % 3 = 0 /\ id \div 3 = p
          BY <1>1, <1>2, <1>6
    <3>6. K!getFirstSK(id) = 6 * p - 2 /\ K!getSKFromID(id) = {6 * p - 2, 6 * p - 1, 6 * p}
          BY <3>5, IdRows3
    <3>2. first = a /\ rows = {a, b, c}
          BY <3>1, <3>6
    <3>3. K!matchSCDSK(id, day, last) =
              IF day > K!jT2DataDate THEN 6 * p ELSE IF day > K!jT1DataDate THEN 6 * p - 1 ELSE 6 * p - 2
          BY <1>11, <1>12, <3>5, Joined3, ZenonT(60)
    <3>4. a \in Nat \ {0} /\ b \in Nat \ {0} /\ c \in Nat \ {0} /\ a % 6 = 4 /\ b % 6 = 5 /\ c % 6 = 0
          BY <3>1
    <3> QED
        BY <3>1, <3>2, <3>3, <3>4, Days
  <2>2. IsRevision(t, a, a, 2450815 - 6 * t, 2451545 - 6 * t)
        BY <1>1, <2>1, RowKeys, SMT
  <2>3. IsRevision(t, b, b - 1, 2451546 - 6 * t, 2452275 - 6 * t)
        BY <1>1, <2>1, RowKeys, SMT
  <2>4. IsRevision(t, c, c - 2, 2452276 - 6 * t, -1)
        BY <1>1, <2>1, RowKeys, SMT
  <2>5. a \in Int /\ b = a + 1 /\ c = b + 1
        OBVIOUS
  <2> HIDE DEF a, b, c
  <2>61. /\ InForce(t, a, day) <=> day <= 2451545 - 6 * t
         /\ K!setSCDKeys(t, a).end = 2451545 - 6 * t
         /\ K!setSCDKeys(t, a).bNewBKey
         BY <1>1, <2>2, ForceOf
  <2>62. /\ InForce(t, b, day) <=> 2451546 - 6 * t <= day /\ day <= 2452275 - 6 * t
         /\ K!setSCDKeys(t, b).begin = 2451546 - 6 * t
         /\ K!setSCDKeys(t, b).end = 2452275 - 6 * t
    <3> DEFINE begin == 2451546 - 6 * t
               end   == 2452275 - 6 * t
    <3>1. IsRevision(t, b, b - 1, begin, end)
          BY <2>3
    <3> HIDE DEF begin, end
    <3>2. /\ InForce(t, b, day) <=> begin <= day /\ (end = -1 \/ day <= end)
          /\ K!setSCDKeys(t, b).begin = begin /\ K!setSCDKeys(t, b).end = end
          BY <3>1, ForceOf
    <3> QED
        BY <1>1, <3>2 DEF begin, end
  <2>63. /\ InForce(t, c, day) <=> 2452276 - 6 * t <= day
         /\ K!setSCDKeys(t, c).begin = 2452276 - 6 * t
         BY <1>1, <2>4, ForceOf
  <2>6. /\ InForce(t, a, day) <=> day <= 2451545 - 6 * t
        /\ InForce(t, b, day) <=> 2451546 - 6 * t <= day /\ day <= 2452275 - 6 * t
        /\ InForce(t, c, day) <=> 2452276 - 6 * t <= day
        /\ K!setSCDKeys(t, a).end = 2451545 - 6 * t /\ K!setSCDKeys(t, b).begin = 2451546 - 6 * t
        /\ K!setSCDKeys(t, b).end = 2452275 - 6 * t /\ K!setSCDKeys(t, c).begin = 2452276 - 6 * t
        /\ K!setSCDKeys(t, a).bNewBKey
        BY <2>61, <2>62, <2>63
  <2>7. /\ day \in (K!jT1DataDate - 6 * t + 1)..K!jT1DataDate => Shifted(t, day)
        /\ day \in (K!jT2DataDate - 6 * t + 1)..K!jT2DataDate => Shifted(t, day)
        BY Zenon DEF Shifted
  <2>8. \E r \in rows : {x \in rows : InForce(t, x, day)} = {r}
    <3>1. CASE day <= 2451545 - 6 * t
      <4>1. {x \in rows : InForce(t, x, day)} = {a}
            BY <1>1, <2>1, <2>5, <2>6, <3>1
      <4> QED
          BY <2>1, <4>1
    <3>2. CASE 2451546 - 6 * t <= day /\ day <= 2452275 - 6 * t
      <4>1. {x \in rows : InForce(t, x, day)} = {b}
            BY <1>1, <2>1, <2>5, <2>6, <3>2
      <4> QED
          BY <2>1, <4>1
    <3>3. CASE 2452276 - 6 * t <= day
      <4>1. {x \in rows : InForce(t, x, day)} = {c}
            BY <1>1, <2>1, <2>5, <2>6, <3>3
      <4> QED
          BY <2>1, <4>1
    <3> QED
        BY <1>1, <3>1, <3>2, <3>3
  <2>9. InForce(t, joined, day) \/ Shifted(t, day)
        BY <1>1, <2>1, <2>5, <2>6, <2>7, Days
  <2>10. \A r \in rows : r + 1 \in rows => K!setSCDKeys(t, r + 1).begin = K!setSCDKeys(t, r).end + 1
         BY <1>1, <2>1, <2>5, <2>6
  <2> QED
      BY <2>1, <2>6, <2>8, <2>9, <2>10
<1>7. Match
      BY <1>2, <1>4, <1>5, <1>6
<1>8. of = rows
      BY <1>3, <1>7
<1>9. Cardinality({r \in of : InForce(t, r, day)}) = 1
      BY <1>7, <1>8, FS_Singleton
<1>10. RevisionsMatch(sample)
       BY <1>7, <1>8, <1>9 DEF RevisionsMatch, id, t, day, last
<1> QED
    BY <1>10 DEF KeysAndLines

(***************************************************************************)
(* Rows whose number stands for entries of distributions.                  *)
(***************************************************************************)
\* Quotient and remainder say what a number is made of.
LEMMA QuotientOf ==
    ASSUME NEW n \in Nat \ {0}, NEW q \in Nat, NEW r \in 0..(n - 1)
    PROVE  (q * n + r) \div n = q /\ (q * n + r) % n = r
<1> DEFINE m == q * n + r
           d == m \div n
           e == m % n
<1>1. q * n \in Nat /\ m \in Nat
      OBVIOUS
<1>2. d \in Nat /\ e \in 0..(n - 1) /\ m = n * d + e
  <2> HIDE DEF m
  <2> QED
      BY <1>1
<1> HIDE DEF d, e
<1>3. n * (q - d) = e - r /\ e - r \in (1 - n)..(n - 1)
      BY <1>1, <1>2
<1>4. ASSUME q - d >= 1 PROVE FALSE
      BY <1>2, <1>3, <1>4
<1>5. ASSUME q - d <= -1 PROVE FALSE
      BY <1>2, <1>3, <1>5
<1>6. d = q
      BY <1>2, <1>4, <1>5
<1> QED
    BY <1>1, <1>2, <1>6 DEF d, e

\* What is left of the number before each distribution.
RestsOf(k, sizes) ==
    CHOOSE rest : rest = [i \in 1..(Len(sizes) + 1) |->
        IF i = 1 THEN k - 1 ELSE K!bitmap_to_dist(rest[i - 1], sizes[i - 1]).rest]

LEMMA EntriesOf ==
    ASSUME NEW k \in Nat \ {0}, NEW a \in Nat \ {0}, NEW b \in Nat \ {0}, NEW c \in Nat \ {0}
    PROVE  K!entriesOf(k, <<a, b, c>>) =
               <<((k - 1) % a) + 1, (((k - 1) \div a) % b) + 1, ((((k - 1) \div a) \div b) % c) + 1>>
<1> DEFINE sizes == <<a, b, c>>
           rests == RestsOf(k, sizes)
           IsRest(rest) == rest = [i \in 1..(Len(sizes) + 1) |->
                               IF i = 1 THEN k - 1 ELSE K!bitmap_to_dist(rest[i - 1], sizes[i - 1]).rest]
           some  == [i \in 1..4 |-> CASE i = 1 -> k - 1 [] i = 2 -> (k - 1) \div a
                                      [] i = 3 -> ((k - 1) \div a) \div b
                                      [] i = 4 -> (((k - 1) \div a) \div b) \div c]
<1>1. IsRest(some)
  <2>1. Len(sizes) + 1 = 4 /\ sizes[1] = a /\ sizes[2] = b /\ sizes[3] = c
        OBVIOUS
  <2>2. \A m, n : K!bitmap_to_dist(m, n).rest = m \div n
        BY DEF K!bitmap_to_dist
  <2> HIDE DEF sizes
  <2>3. \A i \in 1..4 : some[i] = IF i = 1 THEN k - 1 ELSE K!bitmap_to_dist(some[i - 1], sizes[i - 1]).rest
        BY <2>1, <2>2, SMTT(60)
  <2> QED
      BY <2>1, <2>3, SMTT(60)
<1>2. IsRest(rests)
      BY <1>1, ZenonT(60) DEF RestsOf
<1>3. K!entriesOf(k, sizes) = [i \in DOMAIN sizes |-> K!bitmap_to_dist(rests[i], sizes[i]).entry]
      BY DEF K!entriesOf, RestsOf
<1>4. rests[1] = k - 1 /\ rests[2] = (k - 1) \div a /\ rests[3] = ((k - 1) \div a) \div b
  <2>1. Len(sizes) + 1 = 4 /\ sizes[1] = a /\ sizes[2] = b
        OBVIOUS
  <2>2. \A m, n : K!bitmap_to_dist(m, n).rest = m \div n
        BY DEF K!bitmap_to_dist
  <2> HIDE DEF sizes, rests
  <2> QED
      BY <1>2, <2>1, <2>2
<1>5. \A m, n : K!bitmap_to_dist(m, n).entry = (m % n) + 1
      BY DEF K!bitmap_to_dist
<1> HIDE DEF rests
<1> QED
    BY <1>3, <1>4, <1>5

\* Whatever the sizes of three distributions.
THEOREM EntriesAlwaysCombine ==
    ASSUME sample.kind = "entries", NEW a \in Nat \ {0}, NEW b \in Nat \ {0}, NEW c \in Nat \ {0},
           sample.sizes = <<a, b, c>>
    PROVE  KeysAndLines
<1> DEFINE all == {K!entriesOf(k, <<a, b, c>>) : k \in 1..(a * b * c)}
<1>1. ASSUME NEW k \in 1..(a * b * c)
      PROVE  \E x \in 1..a, y \in 1..b, z \in 1..c : K!entriesOf(k, <<a, b, c>>) = <<x, y, z>>
  <2>1. k \in Nat \ {0} /\ k - 1 \in Nat
        BY SMT
  <2>2. (k - 1) \div a \in Nat /\ (k - 1) % a \in 0..(a - 1)
        BY <2>1
  <2> DEFINE m == (k - 1) \div a
  <2>3. m \div b \in Nat /\ m % b \in 0..(b - 1)
    <3> HIDE DEF m
    <3> QED
        BY <2>2 DEF m
  <2>4. (m \div b) % c \in 0..(c - 1)
        BY <2>3
  <2>5. /\ ((k - 1) % a) + 1 \in 1..a /\ (m % b) + 1 \in 1..b /\ ((m \div b) % c) + 1 \in 1..c
        BY <2>2, <2>3, <2>4
  <2>6. K!entriesOf(k, <<a, b, c>>) = <<((k - 1) % a) + 1, (m % b) + 1, ((m \div b) % c) + 1>>
        BY <2>1, EntriesOf
  <2> QED
      BY <2>5, <2>6
<1>2. ASSUME NEW x \in 1..a, NEW y \in 1..b, NEW z \in 1..c
      PROVE  \E k \in 1..(a * b * c) : K!entriesOf(k, <<a, b, c>>) = <<x, y, z>>
  <2> DEFINE m == (z - 1) * b + (y - 1)
             k == m * a + (x - 1) + 1
  <2>10. /\ x - 1 \in 0..(a - 1) /\ y - 1 \in 0..(b - 1) /\ z - 1 \in 0..(c - 1) /\ z - 1 \in Nat
         /\ (x - 1) + 1 = x /\ (y - 1) + 1 = y /\ (z - 1) + 1 = z
         OBVIOUS
  <2>11. (z - 1) * b \in Nat
         BY <2>10
  <2>1. m \in Nat /\ m \div b = z - 1 /\ m % b = y - 1
    <3>1. ((z - 1) * b + (y - 1)) \div b = z - 1 /\ ((z - 1) * b + (y - 1)) % b = y - 1
          BY <2>10, QuotientOf
    <3> QED
        BY <2>10, <2>11, <3>1
  <2>2. m <= c * b - 1
    <3>1. (z - 1) * b <= (c - 1) * b /\ (c - 1) * b = c * b - b /\ (z - 1) * b \in Int
          OBVIOUS
    <3> QED
        BY <3>1
  <2> HIDE DEF m
  <2>3. k \in Nat \ {0} /\ k - 1 = m * a + (x - 1) /\ (k - 1) \div a = m /\ (k - 1) % a = x - 1
    <3>1. m * a \in Nat
          BY <2>1
    <3>2. (m * a + (x - 1)) \div a = m /\ (m * a + (x - 1)) % a = x - 1
          BY <2>1, <2>10, QuotientOf, ZenonT(60)
    <3>3. m * a + (x - 1) \in Nat
          BY <2>10, <3>1
    <3> DEFINE n == m * a + (x - 1)
    <3> HIDE DEF n
    <3>4. k = n + 1 /\ n \in Nat
          BY <3>3 DEF n
    <3>5. n \div a = m /\ n % a = x - 1
          BY <3>2 DEF n
    <3>6. k - 1 = n /\ k \in Nat \ {0}
      <4> HIDE DEF k
      <4> QED
          BY <3>4
    <3>7. n = m * a + (x - 1)
          BY DEF n
    <3> HIDE DEF k
    <3> QED
        BY <3>5, <3>6, <3>7
  <2>4. k <= a * b * c
    <3>1. m * a <= (c * b - 1) * a /\ (c * b - 1) * a = a * b * c - a /\ m * a \in Int /\ a * b * c \in Int
          BY <2>1, <2>2
    <3> QED
        BY <3>1
  <2> HIDE DEF k
  <2>5. (z - 1) % c = z - 1
        OBVIOUS
  <2>6. K!entriesOf(k, <<a, b, c>>) = <<x, y, z>>
    <3>1. K!entriesOf(k, <<a, b, c>>) =
              <<((k - 1) % a) + 1, (((k - 1) \div a) % b) + 1, ((((k - 1) \div a) \div b) % c) + 1>>
          BY <2>3, EntriesOf
    <3>2. K!entriesOf(k, <<a, b, c>>) = <<(x - 1) + 1, (y - 1) + 1, (z - 1) + 1>>
          BY <2>1, <2>3, <2>5, <3>1
    <3> QED
        BY <2>10, <3>2
  <2> QED
      BY <2>3, <2>4, <2>6
<1>3. all = {<<x, y, z>> : x \in 1..a, y \in 1..b, z \in 1..c}
  <2>1. ASSUME NEW e \in all PROVE e \in {<<x, y, z>> : x \in 1..a, y \in 1..b, z \in 1..c}
        BY <1>1
  <2>2. ASSUME NEW e, NEW x \in 1..a, NEW y \in 1..b, NEW z \in 1..c, e = <<x, y, z>> PROVE e \in all
        BY <1>2, <2>2
  <2>3. \A e : e \in {<<x, y, z>> : x \in 1..a, y \in 1..b, z \in 1..c}
                => \E x \in 1..a, y \in 1..b, z \in 1..c : e = <<x, y, z>>
        OBVIOUS
  <2> QED
      BY <2>1, <2>2, <2>3
<1>4. EntriesCombined(sample)
  <2>1. sample.sizes[1] = a /\ sample.sizes[2] = b /\ sample.sizes[3] = c
        OBVIOUS
  <2> QED
      BY <1>3, <2>1 DEF EntriesCombined
<1> QED
    BY <1>4 DEF KeysAndLines

(***************************************************************************)
(* Orders of a refresh set.                                                *)
(***************************************************************************)
OrderTables == {"S_PURCHASE", "S_CATALOG_ORDER", "S_WEB_ORDER", "S_INVENTORY"}

\* The rows of a day are a number, whatever the day.
LEMMA DayCounts ==
    ASSUME NEW t \in OrderTables, NEW rows \in Nat, NEW j
    PROVE  U!dateScaling(U!baseOf(t), rows, j) \in Nat
<1> DEFINE set   == U!setOf("calendar_sales", U!jtodt(j).year)
           total == U!dist_max(set) * 5
           w     == U!getDateWeightFromJulian(j, "calendar_sales")
<1>1. set \in {"calendar_sales", "calendar_sales_leap"}
      BY DEF U!setOf
<1>2. w \in Nat
  <2> DEFINE i == U!day_number(j)
  <2>1. w = U!weight(set, i)
        BY DEF U!getDateWeightFromJulian
  <2> HIDE DEF set, i
  <2>2. U!weight(set, i) \in {0, 29, 66, 100}
        BY <1>1 DEF U!weight
  <2> QED
      BY <2>1, <2>2
<1>3. total \in Nat \ {0} /\ total \div 2 \in Nat
  <2> HIDE DEF set
  <2>1. U!dist_max(set) \in {18320, 18349}
        BY <1>1 DEF U!dist_max
  <2> QED
      BY <2>1
<1>4. U!dateScaling(U!baseOf(t), rows, j) \in {rows, (rows * w + total \div 2) \div total}
      BY DEF U!dateScaling
<1> HIDE DEF total, w
<1>5. rows * w \in Nat
      BY <1>2
<1>6. (rows * w + total \div 2) \div total \in Nat
      BY <1>3, <1>5
<1> QED
    BY <1>4, <1>6

\* The rows up to each day.
UpToOf(t, rows, days) ==
    CHOOSE upTo : upTo = [i \in 0..6 |->
        IF i = 0 THEN 0 ELSE upTo[i - 1] + U!dateScaling(U!baseOf(t), rows, days[i])]

LEMMA UpTo ==
    ASSUME NEW t \in OrderTables, NEW rows \in Nat, NEW days
    PROVE  /\ UpToOf(t, rows, days) \in [0..6 -> Nat]
           /\ UpToOf(t, rows, days)[0] = 0
           /\ \A i \in 1..6 : /\ UpToOf(t, rows, days)[i] =
                                     UpToOf(t, rows, days)[i - 1] + U!dateScaling(U!baseOf(t), rows, days[i])
                              /\ U!kDayRowcount(t, rows, days)[i] = UpToOf(t, rows, days)[i]
<1> DEFINE n(i) == U!dateScaling(U!baseOf(t), rows, days[i])
           IsUpTo(f) == f = [i \in 0..6 |-> IF i = 0 THEN 0 ELSE f[i - 1] + n(i)]
           u    == UpToOf(t, rows, days)
           some == [i \in 0..6 |-> CASE i = 0 -> 0 [] i = 1 -> n(1) [] i = 2 -> n(1) + n(2)
                                     [] i = 3 -> n(1) + n(2) + n(3) [] i = 4 -> n(1) + n(2) + n(3) + n(4)
                                     [] i = 5 -> n(1) + n(2) + n(3) + n(4) + n(5)
                                     [] i = 6 -> n(1) + n(2) + n(3) + n(4) + n(5) + n(6)]
<1>1. \A i : n(i) \in Nat
      BY DayCounts
<1>2. U!kDayRowcount(t, rows, days) = [i \in 1..6 |-> u[i]]
      BY DEF U!kDayRowcount, UpToOf
<1>3. u = CHOOSE f : IsUpTo(f)
      BY DEF UpToOf
<1> HIDE DEF n, u
<1>4. IsUpTo(some)
      BY <1>1
<1>5. IsUpTo(u)
      BY <1>3, <1>4
<1>6. u[0] = 0 /\ \A i \in 1..6 : u[i] = u[i - 1] + n(i)
      BY <1>5
<1>7. u \in [0..6 -> Nat]
  <2>1. u[0] \in Nat /\ u[1] \in Nat /\ u[2] \in Nat /\ u[3] \in Nat
        BY <1>1, <1>6
  <2>2. u[4] \in Nat /\ u[5] \in Nat /\ u[6] \in Nat
        BY <1>1, <1>6, <2>1
  <2>3. \A i \in 0..6 : u[i] \in Nat
        BY <2>1, <2>2
  <2> QED
      BY <1>5, <2>3
<1> QED
    BY <1>2, <1>6, <1>7 DEF n, u

DaysFor(t, dates) == IF t = "S_INVENTORY" THEN dates.arInventoryUpdateDates ELSE dates.arUpdateDates

\* An order has the day among whose orders it is.
LEMMA RefreshDayOfOrder ==
    ASSUME NEW t \in OrderTables, NEW rows \in Nat, NEW dates, NEW i \in 1..6, NEW k \in Nat,
           k > UpToOf(t, rows, DaysFor(t, dates))[i - 1], k <= UpToOf(t, rows, DaysFor(t, dates))[i]
    PROVE  U!getUpdateDate(t, U!setUpdateScaling(t, rows, DaysFor(t, dates)), dates, k) = DaysFor(t, dates)[i]
<1> DEFINE days == DaysFor(t, dates)
           u    == UpToOf(t, rows, days)
           Of(e) == /\ e = 6 \/ k <= u[e]
                    /\ \A f \in 1..(e - 1) : k > u[f]
           index == CHOOSE e \in 1..6 : Of(e)
           scaled == U!setUpdateScaling(t, rows, days)
<1>1. /\ u \in [0..6 -> Nat] /\ u[0] = 0 /\ k > u[i - 1] /\ k <= u[i]
      /\ \A e \in 1..6 : u[e - 1] <= u[e] /\ U!kDayRowcount(t, rows, days)[e] = u[e]
  <2>1. \A e \in 1..6 : U!dateScaling(U!baseOf(t), rows, days[e]) \in Nat
        BY DayCounts
  <2> QED
      BY <2>1, UpTo
<1>2. scaled.kDayRowcount = U!kDayRowcount(t, rows, days)
      BY DEF U!setUpdateScaling
<1>3. U!getUpdateDate(t, scaled, dates, k) = days[index]
  <2> DEFINE Looked(e) == /\ e = 6 \/ k <= scaled.kDayRowcount[e]
                          /\ \A f \in 1..(e - 1) : k > scaled.kDayRowcount[f]
  <2>1. \A e \in 1..6 : Looked(e) <=> Of(e)
        BY <1>1, <1>2
  <2>2. U!getUpdateDate(t, scaled, dates, k) = days[CHOOSE e \in 1..6 : Looked(e)]
        BY DEF U!getUpdateDate, DaysFor
  <2> HIDE DEF Looked, Of
  <2>3. (CHOOSE e \in 1..6 : Looked(e)) = CHOOSE e \in 1..6 : Of(e)
        BY <2>1
  <2> QED
      BY <2>2, <2>3
<1> HIDE DEF u
<1>4. u[0] <= u[1] /\ u[1] <= u[2] /\ u[2] <= u[3] /\ u[3] <= u[4] /\ u[4] <= u[5] /\ u[5] <= u[6]
      BY <1>1
<1>5. \A e, f \in 0..6 : e <= f => u[e] <= u[f]
  <2>1. \A e \in 0..6 : u[e] \in Nat
        BY <1>1
  <2> QED
      BY <1>4, <2>1
<1>6. Of(i)
      BY <1>1, <1>5
<1>7. ASSUME NEW e \in 1..6, Of(e) PROVE e = i
  <2>1. CASE e < i
    <3>1. e # 6 /\ e <= i - 1 /\ i - 1 \in 0..6
          BY <2>1
    <3>2. u[e] <= u[i - 1] /\ u[e] \in Nat /\ u[i - 1] \in Nat
          BY <1>1, <1>5, <3>1
    <3> QED
        BY <1>1, <1>7, <3>1, <3>2
  <2>2. CASE e > i
    <3>1. i \in 1..(e - 1) /\ u[i] \in Nat
          BY <1>1, <2>2
    <3> QED
        BY <1>1, <1>7, <3>1
  <2> QED
      BY <2>1, <2>2
<1> HIDE DEF Of
<1>8. index = i
      BY <1>6, <1>7
<1> QED
    BY <1>3, <1>8

\* The numbers from one to another.
LEMMA NumbersBetween == \A a, b \in Nat : a <= b => IsFiniteSet((a + 1)..b) /\ Cardinality((a + 1)..b) = b - a
<1> TAKE a, b \in Nat
<1> HAVE a <= b
<1> DEFINE c == a + 1
<1>1. c \in Int /\ b \in Int /\ b - c + 1 = b - a /\ (c > b => b - a = 0)
      OBVIOUS
<1> HIDE DEF c
<1>2. IsFiniteSet(c..b) /\ Cardinality(c..b) = IF c > b THEN 0 ELSE b - c + 1
      BY <1>1, FS_Interval
<1> QED
    BY <1>1, <1>2 DEF c

\* Orders in their turn, n for that day.
InTurn(n, u, days, day, orders) ==
    /\ n \in Nat /\ u \in [0..6 -> Nat] /\ u[0] = 0
    /\ \A i \in 1..6 : /\ u[i - 1] <= u[i]
                       /\ days[i] = day => u[i] = u[i - 1] + n
                       /\ \A k \in (u[i - 1] + 1)..u[i] : orders[k] = days[i]

\* How many of them have the day.
LEMMA OrdersUpTo ==
    \A n, u, days, day, orders : InTurn(n, u, days, day, orders)
        => Cardinality({k \in 1..u[6] : orders[k] = day}) = n * Cardinality({i \in 1..6 : days[i] = day})
<1> SUFFICES ASSUME NEW n, NEW u, NEW days, NEW day, NEW orders, InTurn(n, u, days, day, orders)
             PROVE  Cardinality({k \in 1..u[6] : orders[k] = day}) = n * Cardinality({i \in 1..6 : days[i] = day})
    OBVIOUS
<1> USE DEF InTurn
<1> DEFINE A(j) == {k \in 1..u[j] : orders[k] = day}
           J(j) == {i \in 1..j : days[i] = day}
           Holds(j) == /\ IsFiniteSet(A(j)) /\ IsFiniteSet(J(j)) /\ Cardinality(A(j)) \in Nat /\ Cardinality(J(j)) \in Nat
                       /\ Cardinality(A(j)) = n * Cardinality(J(j))
<1>1. Holds(0)
  <2>1. A(0) = {} /\ J(0) = {}
        OBVIOUS
  <2> QED
      BY <2>1, FS_EmptySet
<1>2. ASSUME NEW j \in 0..5, Holds(j) PROVE Holds(j + 1)
  <2> DEFINE B == (u[j] + 1)..u[j + 1]
  <2>1. /\ j + 1 \in 1..6 /\ (j + 1) - 1 = j /\ u[j] \in Nat /\ u[j + 1] \in Nat /\ u[j] <= u[j + 1]
        /\ days[j + 1] = day => u[j + 1] = u[j] + n
        /\ \A k \in B : orders[k] = days[j + 1]
    <3> DEFINE i == j + 1
    <3>1. i \in 1..6 /\ i - 1 = j
          OBVIOUS
    <3> HIDE DEF i
    <3>2. /\ u[i - 1] <= u[i]
          /\ days[i] = day => u[i] = u[i - 1] + n
          /\ \A k \in (u[i - 1] + 1)..u[i] : orders[k] = days[i]
          BY <3>1
    <3>3. u[j] \in Nat /\ u[i] \in Nat
          BY <3>1
    <3> QED
        BY <3>1, <3>2, <3>3 DEF i
  <2>2. CASE days[j + 1] = day
    <3>1. A(j + 1) = A(j) \cup B /\ A(j) \cap B = {}
          BY <2>1, <2>2
    <3>2. J(j + 1) = J(j) \cup {j + 1} /\ j + 1 \notin J(j)
      <4>1. 1..(j + 1) = (1..j) \cup {j + 1} /\ j + 1 \notin 1..j
            OBVIOUS
      <4> QED
          BY <2>2, <4>1
    <3>3. IsFiniteSet(B) /\ Cardinality(B) = n
          BY <2>1, <2>2, NumbersBetween, SMTT(60)
    <3> HIDE DEF A, J, B, InTurn
    <3>4. IsFiniteSet(A(j + 1)) /\ Cardinality(A(j + 1)) = Cardinality(A(j)) + n
      <4>1. IsFiniteSet(A(j) \cup B) /\ Cardinality(A(j) \cup B) = Cardinality(A(j)) + Cardinality(B) - Cardinality(A(j) \cap B)
            BY <1>2, <3>3, FS_Union
      <4>2. Cardinality(A(j) \cap B) = 0
            BY <3>1, FS_EmptySet
      <4>3. Cardinality(A(j)) \in Nat /\ n \in Nat /\ Cardinality(B) = n
            BY <1>2, <3>3 DEF InTurn
      <4>4. Cardinality(A(j)) + Cardinality(B) - Cardinality(A(j) \cap B) = Cardinality(A(j)) + n
            BY <4>2, <4>3
      <4> QED
          BY <3>1, <4>1, <4>4
    <3>5. IsFiniteSet(J(j + 1)) /\ Cardinality(J(j + 1)) = Cardinality(J(j)) + 1
          BY <1>2, <3>2, FS_AddElement
    <3>6. n * (Cardinality(J(j)) + 1) = n * Cardinality(J(j)) + n
          BY <1>2 DEF InTurn
    <3>7. /\ Cardinality(A(j)) \in Nat /\ Cardinality(J(j)) \in Nat /\ n \in Nat
          /\ Cardinality(A(j)) = n * Cardinality(J(j))
          BY <1>2 DEF InTurn
    <3>8. /\ Cardinality(A(j)) + n \in Nat /\ Cardinality(J(j)) + 1 \in Nat
          /\ Cardinality(A(j)) + n = n * (Cardinality(J(j)) + 1)
          BY <3>6, <3>7
    <3> QED
        BY <3>4, <3>5, <3>8
  <2>3. CASE days[j + 1] # day
    <3>1. A(j + 1) = A(j) /\ J(j + 1) = J(j)
          BY <2>1, <2>3
    <3> HIDE DEF A, J
    <3> QED
        BY <1>2, <3>1
  <2> QED
      BY <2>2, <2>3
<1> HIDE DEF Holds
<1>3. Holds(0 + 1) /\ Holds(1 + 1) /\ Holds(2 + 1)
      BY <1>1, <1>2
<1>4. Holds(3 + 1) /\ Holds(4 + 1) /\ Holds(5 + 1)
      BY <1>2, <1>3
<1> QED
    BY <1>4 DEF Holds

\* Whatever the six days, the table and the number of its rows: each day has the orders that its
\* weight calls for, none is lost between the days, and each is among the days to delete.
THEOREM OrdersAlwaysKept ==
    ASSUME NEW s, s.table \in OrderTables, s.rows \in Nat, NEW dates,
           dates.arUpdateDates \in [1..6 -> Int], dates.arInventoryUpdateDates \in [1..6 -> Int]
    PROVE  OrdersKept(s, DaysFor(s.table, dates),
               ordersOf(s.table, dates, U!setUpdateScaling(s.table, s.rows, DaysFor(s.table, dates))))
<1> DEFINE t    == s.table
           rows == s.rows
           days == DaysFor(t, dates)
           u    == UpToOf(t, rows, days)
           scaled == U!setUpdateScaling(t, rows, days)
           orders == ordersOf(t, dates, scaled)
           n(day) == U!dateScaling(U!baseOf(t), rows, day)
<1>1. days \in [1..6 -> Int]
      BY DEF DaysFor
<1>2. \A day : n(day) \in Nat
      BY DayCounts
<1>3. /\ u \in [0..6 -> Nat] /\ u[0] = 0
      /\ \A i \in 1..6 : u[i] = u[i - 1] + n(days[i]) /\ U!kDayRowcount(t, rows, days)[i] = u[i]
      BY UpTo
<1>4. scaled.kBaseRowcount = u[6]
      BY <1>3 DEF U!setUpdateScaling
<1>5. orders = [k \in 1..u[6] |-> U!getUpdateDate(t, scaled, dates, k)]
      BY <1>4 DEF ordersOf
<1>6. ASSUME NEW i \in 1..6, NEW k \in (u[i - 1] + 1)..u[i]
      PROVE  U!getUpdateDate(t, scaled, dates, k) = days[i]
  <2>1. u[i - 1] \in Nat /\ u[i] \in Nat
        BY <1>3
  <2>2. k \in Nat /\ k > u[i - 1] /\ k <= u[i]
        BY <2>1
  <2> QED
      BY <2>2, RefreshDayOfOrder
<1> HIDE DEF n, u, scaled, days, orders
<1>7. \A i \in 1..6 : u[i - 1] <= u[i] /\ u[i - 1] \in Nat /\ u[i] \in Nat
  <2> TAKE i \in 1..6
  <2>1. u[i - 1] \in Nat /\ n(days[i]) \in Nat /\ u[i] = u[i - 1] + n(days[i]) /\ u[i] \in Nat
        BY <1>2, <1>3
  <2> QED
      BY <2>1
<1>8. u[0] <= u[1] /\ u[1] <= u[2] /\ u[2] <= u[3] /\ u[3] <= u[4] /\ u[4] <= u[5] /\ u[5] <= u[6]
      BY <1>7
<1>9. \A i \in 1..6 : u[i] <= u[6]
      BY <1>3, <1>8
<1>10. \A i \in 1..6 : \A k \in (u[i - 1] + 1)..u[i] : orders[k] = days[i]
  <2> TAKE i \in 1..6
  <2> TAKE k \in (u[i - 1] + 1)..u[i]
  <2>1. k \in 1..u[6]
        BY <1>3, <1>7, <1>9
  <2> QED
      BY <1>5, <1>6, <2>1
<1>11. ASSUME NEW day
       PROVE  Cardinality({k \in 1..u[6] : orders[k] = day}) = n(day) * Cardinality({i \in 1..6 : days[i] = day})
  <2>1. n(day) \in Nat
        BY <1>2
  <2>2. \A i \in 1..6 : days[i] = day => u[i] = u[i - 1] + n(day)
        BY <1>3
  <2>3. InTurn(n(day), u, days, day, orders)
        BY <1>3, <1>7, <1>10, <2>1, <2>2 DEF InTurn
  <2> QED
      BY <2>3, OrdersUpTo
<1>12. DOMAIN orders = 1..u[6]
       BY <1>5
<1>13. ASSUME NEW k \in DOMAIN orders
       PROVE  \E pair \in U!print_delete(days) : orders[k] \in (pair.from..pair.to) \cup (pair.to..pair.from)
  <2>1. \E i \in 1..6 : k \in (u[i - 1] + 1)..u[i]
    <3>1. k \in Nat /\ k >= 1 /\ k <= u[6] /\ u[0] = 0
          BY <1>3, <1>12
    <3>2. /\ u[0] \in Nat /\ u[1] \in Nat /\ u[2] \in Nat /\ u[3] \in Nat /\ u[4] \in Nat /\ u[5] \in Nat /\ u[6] \in Nat
          BY <1>3
    <3>3. \/ k \in (u[1 - 1] + 1)..u[1] \/ k \in (u[2 - 1] + 1)..u[2] \/ k \in (u[3 - 1] + 1)..u[3]
          \/ k \in (u[4 - 1] + 1)..u[4] \/ k \in (u[5 - 1] + 1)..u[5] \/ k \in (u[6 - 1] + 1)..u[6]
          BY <3>1, <3>2
    <3> QED
        BY <3>3
  <2>2. PICK i \in 1..6 : orders[k] = days[i]
        BY <1>10, <2>1
  <2>3. \A e \in {1, 3, 5} : [from |-> days[e], to |-> days[e + 1]] \in U!print_delete(days)
        BY DEF U!print_delete
  <2>4. PICK e \in {1, 3, 5} : i = e \/ i = e + 1
        OBVIOUS
  <2>5. days[e] \in Int /\ days[e + 1] \in Int
        BY <1>1
  <2> DEFINE pair == [from |-> days[e], to |-> days[e + 1]]
  <2>6. orders[k] \in (pair.from..pair.to) \cup (pair.to..pair.from)
        BY <2>2, <2>4, <2>5
  <2> QED
      BY <2>3, <2>6
<1>14. DOMAIN days = 1..6
       BY <1>1
<1>15. OrdersKept(s, days, orders)
       BY <1>11, <1>12, <1>13 DEF OrdersKept, n
<1> QED
    BY <1>15 DEF days, orders, scaled
===============================================================================
