------------------------------ MODULE Clearing ------------------------------
(***************************************************************************)
(* How auction::clear_market finds the price and the quantity at which two *)
(* sorted lists of bids meet, as operators.  Asks go down in price, offers *)
(* go up.  Prices are in units that make every mean of two a whole number. *)
(***************************************************************************)
EXTENDS Integers, Sequences, FiniteSetsExt

CONSTANTS
    pricecap,       \* bids at the cap, and offers at its negative, are unresponsive
    bid_offset      \* the step that takes a price off the bid it was made from

ClearingAssumption == pricecap \in Nat \ {0} /\ bid_offset \in Nat

\* The quantity of the bids at some places of a list.
Quantity(list, places) == MapThenSumSet(LAMBDA n : list[n].quantity, places)

-----------------------------------------------------------------------------
(* The walk along both curves: i and j are the next bids of each side, a   *)
(* and b the prices of the last match.                                     *)

Opening == [i |-> 1, j |-> 1, demand |-> 0, supply |-> 0, quantity |-> 0,
            a |-> pricecap, b |-> -pricecap, check |-> FALSE, type |-> "CT_NULL"]

\* Mutant: equal prices do not meet.
Crossing_Strictly(asks, offers, m) ==
    m.i <= Len(asks) /\ m.j <= Len(offers) /\ asks[m.i].price > offers[m.j].price

Crossing(asks, offers, m) ==
    m.i <= Len(asks) /\ m.j <= Len(offers) /\ asks[m.i].price >= offers[m.j].price

Matched(asks, offers, m) ==
    LET buy == asks[m.i]
        sell == offers[m.j]
        buy_quantity == m.demand + buy.quantity
        sell_quantity == m.supply + sell.quantity
    IN CASE buy_quantity > sell_quantity ->
              [m EXCEPT !.j = @ + 1, !.supply = sell_quantity, !.quantity = sell_quantity,
                        !.a = buy.price, !.b = buy.price, !.check = FALSE, !.type = "CT_BUYER"]
         [] buy_quantity < sell_quantity ->
              [m EXCEPT !.i = @ + 1, !.demand = buy_quantity, !.quantity = buy_quantity,
                        !.a = sell.price, !.b = sell.price, !.check = FALSE, !.type = "CT_SELLER"]
         [] OTHER ->
              [m EXCEPT !.i = @ + 1, !.j = @ + 1, !.demand = buy_quantity, !.supply = buy_quantity,
                        !.quantity = buy_quantity, !.a = buy.price, !.b = sell.price, !.check = TRUE]

\* Each round passes at least one bid.
Walk(asks, offers) ==
    LET rounds == Len(asks) + Len(offers)
        after[n \in 0..rounds] ==
            IF n = 0 THEN Opening
            ELSE IF Crossing(asks, offers, after[n - 1]) THEN Matched(asks, offers, after[n - 1])
            ELSE after[n - 1]
    IN after[rounds]

\* The pointer to the next bid stays at the last one when there is no other.
NextIn(list, n) == list[Min({n, Len(list)})]

-----------------------------------------------------------------------------
(* After the walk has ended with equal quantities: who sets the price. *)

MarginalType(asks, offers, m) ==
    LET noBuyer == m.i > Len(asks)
        noSeller == m.j > Len(offers)
        both == ~noBuyer /\ ~noSeller
        buyerAgrees == NextIn(asks, m.i).price = m.a
        sellerAgrees == NextIn(offers, m.j).price = m.b
        settled == IF m.a = m.b THEN "CT_EXACT" ELSE "CT_PRICE"
    IN CASE noBuyer /\ ~noSeller /\ sellerAgrees -> "CT_SELLER"
         [] noSeller /\ ~noBuyer /\ buyerAgrees -> "CT_BUYER"
         [] noBuyer \/ noSeller -> settled
         [] both /\ buyerAgrees /\ ~sellerAgrees -> "CT_BUYER"
         [] both /\ ~buyerAgrees /\ sellerAgrees -> "CT_SELLER"
         [] both /\ ~buyerAgrees /\ ~sellerAgrees -> settled
         [] OTHER -> m.type     \* then the walk has not ended

\* A price between a and b that calls on nobody else.
SplitPrice(asks, offers, m) ==
    LET noBuyer == m.i > Len(asks)
        noSeller == m.j > Len(offers)
        buy == NextIn(asks, m.i).price
        sell == NextIn(offers, m.j).price
        avg == (m.a + m.b) \div 2
        dHigh == IF noBuyer THEN m.a ELSE buy
        dLow == IF noSeller THEN m.b ELSE sell
    IN CASE m.a = pricecap /\ m.b # -pricecap -> IF buy > m.b THEN buy + bid_offset ELSE m.b
         [] m.a # pricecap /\ m.b = -pricecap -> IF sell < m.a THEN sell - bid_offset ELSE m.a
         [] m.a = pricecap /\ m.b = -pricecap ->
              IF noBuyer /\ noSeller THEN 0
              ELSE IF noBuyer THEN buy + bid_offset
              ELSE IF m.j = Len(asks) + 1 THEN sell - bid_offset    \* (the asks, in the code)
              ELSE (dHigh + dLow) \div 2
         [] OTHER ->
              IF ~noBuyer /\ buy = m.a THEN m.a
              ELSE IF ~noSeller /\ sell = m.b THEN m.b
              ELSE IF ~noBuyer /\ avg < buy THEN dHigh + bid_offset
              ELSE IF ~noSeller /\ avg > sell THEN dLow - bid_offset
              ELSE avg

\* Nothing is traded: a price next to or between the best bids.
NullPrice(asks, offers) ==
    LET ask == asks[1].price
        offer == offers[1].price
    IN CASE asks = <<>> /\ offers = <<>> -> 0
         [] asks = <<>> -> offer - bid_offset
         [] offers = <<>> -> ask + bid_offset
         [] OTHER -> offer + (ask - offer) \div 2

NoTradePrice(asks, offers) ==
    CASE offers[1].price = pricecap -> asks[1].price + bid_offset
      [] offers[1].price # pricecap /\ asks[1].price = -pricecap -> offers[1].price - bid_offset
      [] OTHER -> NullPrice(asks, offers)

UnresponsiveBuy(asks) == Quantity(asks, {n \in 1..Len(asks) : asks[n].price = pricecap})
UnresponsiveSell(offers) == Quantity(offers, {n \in 1..Len(offers) : offers[n].price = -pricecap})

\* The clearing of two lists that are not empty.
DoubleAuction(asks, offers) ==
    LET m == Walk(asks, offers)
        type == IF m.check THEN MarginalType(asks, offers, m) ELSE m.type
        price == CASE m.check /\ type = "CT_PRICE" -> SplitPrice(asks, offers, m)
                   [] m.check /\ type = "CT_SELLER" /\ m.i <= Len(asks) /\ m.j <= Len(offers) -> m.b
                   [] OTHER -> m.a
        clear(t, p) == [type |-> t, price |-> p, quantity |-> m.quantity]
        unresponsive_buy == UnresponsiveBuy(asks)
        unresponsive_sell == UnresponsiveSell(offers)
    IN CASE m.quantity = 0 -> clear("CT_NULL", NoTradePrice(asks, offers))
         [] m.quantity > 0 /\ m.quantity < unresponsive_buy -> clear("CT_FAILURE", pricecap)
         [] m.quantity >= unresponsive_buy /\ m.quantity > 0 /\ m.quantity < unresponsive_sell ->
              clear("CT_FAILURE", -pricecap)
         [] m.quantity > 0 /\ m.quantity = unresponsive_buy /\ m.quantity = unresponsive_sell ->
              clear("CT_PRICE", 0)
         [] OTHER -> clear(type, price)

-----------------------------------------------------------------------------
(* One side only, against a fixed quantity or else at a fixed price.  side *)
(* is 1 for sellers and -1 for buyers, who want the price to be low.       *)

Willing(list, side, price) ==
    Quantity(list, {n \in 1..Len(list) : side * list[n].price <= side * price})

\* The bids that are added up before the fixed quantity is reached, or all.
CalledOn(list, fixed_quantity) ==
    Max({0} \cup {n \in 1..Len(list) : Quantity(list, 1..(n - 1)) < fixed_quantity})

SingleAuction(list, side, fixed_quantity, fixed_price, none) ==
    LET last == CalledOn(list, fixed_quantity)
        quantity == Quantity(list, 1..last)
        willing == Willing(list, side, fixed_price)
        clear(t, p, q) == [type |-> t, price |-> p, quantity |-> q]
    IN CASE fixed_quantity = 0 -> clear(IF willing > 0 THEN "CT_EXACT" ELSE "CT_NULL", fixed_price, willing)
         [] fixed_quantity > 0 /\ quantity > fixed_quantity ->
              clear(IF side = 1 THEN "CT_SELLER" ELSE "CT_BUYER", list[last].price, fixed_quantity)
         [] fixed_quantity > 0 /\ quantity = fixed_quantity ->
              clear("CT_EXACT", list[last].price, fixed_quantity)
         [] fixed_quantity > 0 /\ quantity < fixed_quantity ->
              clear("CT_FAILURE", none, 0)

-----------------------------------------------------------------------------
(* The share of the bids at the price that is called on. *)

Preferred(list, side, price) ==
    Quantity(list, {n \in 1..Len(list) : side * list[n].price < side * price})

Margin(list, side, clear) ==
    [quantity |-> clear.quantity - Preferred(list, side, clear.price),
     total |-> Quantity(list, {n \in 1..Len(list) : list[n].price = clear.price})]
=============================================================================
