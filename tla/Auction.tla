------------------------------ MODULE Auction ------------------------------
(***************************************************************************)
(* The auction of the market module (auction.cpp): bids that come and are  *)
(* replaced during a period, the clearing at its end, and the queue that   *)
(* holds what was cleared back until it comes into force.                  *)
(*                                                                         *)
(* Prices above the cap are cut.  Bids for a market that is closed, or is  *)
(* not open yet, change nothing and are left out.                          *)
(***************************************************************************)
EXTENDS BidCurve, Clearing

CONSTANTS
    Bidder,
    Own, Reference, \* the ids of the auction and of its capacity reference
    Markets,        \* the settings of an auction; bids, max_bids and max_markets bound the
                    \* model: the bids that are tried, how many in a market, how many markets
    period,
    StartTime

MODES == {"MD_NONE", "MD_SELLERS", "MD_BUYERS", "MD_FIXED_BUYER", "MD_FIXED_SELLER"}

ASSUME AuctionAssumption ==
    /\ ClearingAssumption
    /\ period \in Nat \ {0} /\ StartTime \in Nat
    /\ \A market \in Markets :
         /\ market.special_mode \in MODES
         /\ {market.latency, market.fixed_quantity, market.sph24,
             market.max_bids, market.max_markets} \subseteq Nat
         /\ market.garbage \in [id : {Own}, quantity : Nat, price : Int, state : {"BS_ON"}]
         /\ \A bid \in market.bids :
              bid \in [quantity : Int, price : Int, state : {"BS_ON", "BS_OFF", "BS_UNKNOWN"}]
         /\ market.refload \in Nat   \* what the capacity reference carries; 0 without one
         /\ market.reference_bid \in Nat /\ {market.reference_price, market.fixed_price} \subseteq Int

VARIABLES
    config,         \* the settings of this auction
    clock, clearat, market_id, total_samples,
    curves,         \* the asks and the offers
    current_frame, next_frame, past_frame,
    framedata, latency_front, latency_back,
    up,             \* no bid was read from where there is none
    book,           \* history: for each bidder its bid in this market, or none
    displaced,      \* history: sides on which a bid was removed from before another one
    submitted,      \* history: calls of submit in this market
    outcome,        \* history: the sorted bids of the last clearing and what it made of them
    cleared         \* history: every frame cleared

frames == <<current_frame, next_frame, past_frame, framedata, latency_front, latency_back>>
bidding == <<curves, book, displaced, submitted>>
vars == <<config, clock, clearat, market_id, total_samples, up, frames, bidding, outcome, cleared>>

NoBid == [quantity |-> 0, price |-> 0, state |-> "none"]
Frame(id, start, price, quantity, type, margin) ==
    [market_id |-> id, start_time |-> start, end_time |-> start + period, clearing_price |-> price,
     clearing_quantity |-> quantity, clearing_type |-> type, margin |-> margin]
NoMargin == [quantity |-> 0, total |-> 0]
NoFrame == [Frame(0, 0, 0, 0, "CT_NULL", NoMargin) EXCEPT !.end_time = 0]

nextclear(t) == t + period - ((t + period) % period)

\* Mutant: no slot to spare.
LatencyCount_OneLess(latency) == latency \div period + 1

LatencyCount(latency) == latency \div period + 2

Init ==
    /\ config \in Markets
    /\ clock = StartTime /\ clearat = nextclear(StartTime) /\ market_id = 1 /\ total_samples = 0
    /\ curves = [asks |-> EmptyCurve(config.garbage), offers |-> EmptyCurve(config.garbage)]
    /\ current_frame = NoFrame /\ next_frame = NoFrame /\ past_frame = NoFrame
    /\ framedata = [n \in 0..(LatencyCount(config.latency) - 1) |-> NoFrame]
    /\ latency_front = 0 /\ latency_back = 0
    /\ up = TRUE
    /\ book = [b \in Bidder |-> NoBid] /\ displaced = {} /\ submitted = 0
    /\ outcome = [asks |-> <<>>, offers |-> <<>>, price |-> 0, quantity |-> 0, type |-> "CT_NULL",
                  margin |-> NoMargin]
    /\ cleared = {}

-----------------------------------------------------------------------------
(* submit *)

\* Demand is not heard until the market has been cleared for a day.
Suppressed(quantity) == total_samples < config.sph24 /\ quantity < 0

\* submit_nolock, for the market that is open: asks are negative quantities.
Submitted(c, id, quantity, price, state, rebid) ==
    LET bid == [id |-> id, quantity |-> IF quantity < 0 THEN -quantity ELSE quantity,
                price |-> Min({price, pricecap}), state |-> state]
    IN CASE Suppressed(quantity) -> c
         [] ~Suppressed(quantity) /\ rebid /\ quantity < 0 ->
              [asks |-> Resubmit(c.asks, bid), offers |-> RemoveBid(c.offers, id)]
         [] ~Suppressed(quantity) /\ rebid /\ quantity > 0 ->
              [asks |-> RemoveBid(c.asks, id), offers |-> Resubmit(c.offers, bid)]
         [] ~Suppressed(quantity) /\ rebid /\ quantity = 0 ->
              [asks |-> RemoveBid(c.asks, id), offers |-> RemoveBid(c.offers, id)]
         [] ~Suppressed(quantity) /\ ~rebid /\ quantity < 0 -> [c EXCEPT !.asks = Submit(@, bid)]
         [] ~Suppressed(quantity) /\ ~rebid /\ quantity > 0 -> [c EXCEPT !.offers = Submit(@, bid)]
         [] OTHER -> c

\* The bid of b is not the last one of this side, and leaves it.
Displaces(c, b) == \E i \in MadeBy(c, b) : i < c.n_bids

\* A bidder says whether it has bid in this market before.
Bid(b) ==
    /\ up /\ market_id <= config.max_markets /\ submitted < config.max_bids
    /\ \E bid \in config.bids :
         /\ curves' = Submitted(curves, b, bid.quantity, bid.price, bid.state, book[b] # NoBid)
         /\ IF Suppressed(bid.quantity) THEN UNCHANGED <<book, displaced>>
            ELSE /\ book' = [book EXCEPT ![b] = [bid EXCEPT !.price = Min({@, pricecap})]]
                 /\ displaced' = displaced \cup {s \in {"asks", "offers"} :
                                                    /\ s = "asks" => bid.quantity >= 0
                                                    /\ s = "offers" => bid.quantity <= 0
                                                    /\ book[b] # NoBid /\ Displaces(curves[s], b)}
    /\ submitted' = submitted + 1
    /\ UNCHANGED <<config, clock, clearat, market_id, total_samples, up, frames, outcome, cleared>>

-----------------------------------------------------------------------------
(* clear_market *)

\* The load that did not bid is taken for an ask at the cap; a reference that has a bid
\* of its own offers it.
WithReference(c) ==
    LET unknown == c.asks.total - c.asks.total_on - c.asks.total_off
        unresponsive == config.refload - c.asks.total_on - unknown \div 2
        asked == IF config.refload # 0 /\ config.special_mode # "MD_FIXED_BUYER" /\ unresponsive > 0
                 THEN Submitted(c, Reference, -unresponsive, pricecap, "BS_ON", FALSE) ELSE c
    IN IF config.refload # 0 /\ config.special_mode = "MD_NONE"
       THEN Submitted(asked, Own, config.reference_bid, config.reference_price, "BS_ON", FALSE) ELSE asked

\* The lists as they are cleared, with the side that the auction stands for itself.
Arranged(c) ==
    LET sorted == [asks |-> Sort(c.asks, TRUE), offers |-> Sort(c.offers, FALSE)]
        own(d, quantity) == Submitted(d, Own, quantity, config.fixed_price, "BS_ON", FALSE)
    IN CASE config.special_mode = "MD_NONE" -> sorted
         [] config.special_mode = "MD_SELLERS" -> [c EXCEPT !.offers = sorted.offers]
         [] config.special_mode = "MD_BUYERS" -> [c EXCEPT !.asks = sorted.asks]
         [] config.special_mode = "MD_FIXED_SELLER" ->
              own([asks |-> Clear(c.asks), offers |-> sorted.offers], -config.fixed_quantity)
         [] config.special_mode = "MD_FIXED_BUYER" ->
              own([asks |-> sorted.asks, offers |-> Clear(c.offers)], config.fixed_quantity)

\* Buyers alone are cleared by a price next to that of the first one, even of none.
NoPrice(c) ==
    CASE config.special_mode = "MD_SELLERS" ->
           IF c.offers.n_bids = 0 THEN 0 ELSE GetBid(c.offers, 1).price - bid_offset
      [] config.special_mode = "MD_BUYERS" ->
           IF Stray(c.asks, 1) THEN 0 ELSE GetBid(c.asks, 1).price + bid_offset

ReadsStray(c) ==
    config.special_mode = "MD_BUYERS" /\ config.fixed_quantity > 0 /\ Stray(c.asks, 1)

Clearance(c) ==
    LET asks == Listed(c.asks)
        offers == Listed(c.offers)
    IN CASE config.special_mode = "MD_SELLERS" ->
              SingleAuction(offers, 1, config.fixed_quantity, config.fixed_price, NoPrice(c))
         [] config.special_mode = "MD_BUYERS" ->
              SingleAuction(asks, -1, config.fixed_quantity, config.fixed_price, NoPrice(c))
         [] config.special_mode \notin {"MD_SELLERS", "MD_BUYERS"} /\ asks # <<>> /\ offers # <<>> ->
              DoubleAuction(asks, offers)
         [] OTHER -> [type |-> "CT_NULL", price |-> NullPrice(asks, offers), quantity |-> 0]

MarginOf(c, clear) ==
    CASE clear.type = "CT_BUYER" -> Margin(Listed(c.asks), -1, clear)
      [] clear.type = "CT_SELLER" -> Margin(Listed(c.offers), 1, clear)
      [] OTHER -> NoMargin

Capped(price) == Max({-pricecap, Min({price, pricecap})})

-----------------------------------------------------------------------------
(* The latency queue *)

Applicable(frame, t) == t >= frame.start_time

\* pop_market_frame: one frame at most.
Popped(t) ==
    LET frame == framedata[latency_front]
    IN IF latency_front # latency_back /\ Applicable(frame, t)
       THEN [front |-> (latency_front + 1) % LatencyCount(config.latency), current |-> frame,
             past |-> current_frame]
       ELSE [front |-> latency_front, current |-> current_frame, past |-> past_frame]

\* push_market_frame: a full queue drops the frame, which nobody is told.
Pushed(frame, front) ==
    LET back == (latency_back + 1) % LatencyCount(config.latency)
    IN IF back = front THEN [data |-> framedata, back |-> latency_back, samples |-> total_samples]
       ELSE [data |-> [framedata EXCEPT ![latency_back] = frame], back |-> back,
             samples |-> total_samples + 1]

\* check_next_market looks at the front of the queue, whether or not there is a frame.
Upcoming(data, front, t) ==
    IF data[front].start_time > t /\ data[front].start_time <= t + period
    THEN data[front] ELSE next_frame

Delayed(frame, t) ==
    LET popped == Popped(t)
        pushed == Pushed(frame, popped.front)
    IN /\ current_frame' = popped.current /\ past_frame' = popped.past
       /\ latency_front' = popped.front
       /\ framedata' = pushed.data /\ latency_back' = pushed.back /\ total_samples' = pushed.samples
       /\ next_frame' = Upcoming(pushed.data, popped.front, t)

Immediate(frame) ==
    /\ past_frame' = current_frame /\ current_frame' = frame
    /\ total_samples' = total_samples + 1
    /\ UNCHANGED <<next_frame, framedata, latency_front, latency_back>>

\* presync at the end of a period
ClearMarket ==
    /\ up /\ market_id <= config.max_markets
    /\ LET c == Arranged(WithReference(curves))
           clear == Clearance(c)
           margin == MarginOf(c, clear)
           frame == Frame(market_id, clearat + config.latency, Capped(clear.price),
                          clear.quantity, clear.type, margin)
       IN /\ ~ReadsStray(c)
          /\ IF config.latency > 0 THEN Delayed(frame, clearat) ELSE Immediate(frame)
          /\ curves' = [asks |-> Clear(c.asks), offers |-> Clear(c.offers)]
          /\ outcome' = [asks |-> Listed(c.asks), offers |-> Listed(c.offers), price |-> clear.price,
                         quantity |-> clear.quantity, type |-> clear.type, margin |-> margin]
          /\ cleared' = cleared \cup {frame}
    /\ clock' = clearat /\ clearat' = nextclear(clearat) /\ market_id' = market_id + 1
    /\ book' = [b \in Bidder |-> NoBid] /\ displaced' = {} /\ submitted' = 0
    /\ UNCHANGED <<config, up>>

\* The first ask of a list that was never made, or whose first place is a moved one; what
\* follows is undefined.
StrayRead ==
    /\ up /\ market_id <= config.max_markets
    /\ ReadsStray(Arranged(WithReference(curves)))
    /\ up' = FALSE
    /\ UNCHANGED <<config, clock, clearat, market_id, total_samples, frames, bidding, outcome, cleared>>

Next == ClearMarket \/ StrayRead \/ \E b \in Bidder : Bid(b)

Spec == Init /\ [][Next]_vars

-----------------------------------------------------------------------------
TypeOK ==
    /\ config \in Markets /\ up \in BOOLEAN
    /\ {clock, clearat, market_id, total_samples, submitted} \subseteq Nat
    /\ {latency_front, latency_back} \subseteq DOMAIN framedata
    /\ \A side \in {"asks", "offers"} : curves[side].n_bids \in 0..curves[side].len

\* Each side of the market lists the bids in force of the bidders on it, once, and counts
\* their quantities by state, unless a bid was removed from before another one
\* (curve.cpp:81 and :171: replacing, moving to the other side, withdrawing).
CurveKeepsBids ==
    \A side \in {"asks", "offers"} \ displaced :
        LET c == curves[side]
            sign == IF side = "asks" THEN -1 ELSE 1
            bidders == {b \in Bidder : sign * book[b].quantity > 0}
        IN /\ c.n_bids = Cardinality(bidders)
           /\ \A b \in bidders : \E n \in 1..c.n_bids :
                GetBid(c, n) = [id |-> b, quantity |-> sign * book[b].quantity,
                                price |-> book[b].price, state |-> book[b].state]
           /\ c.total = Quantity(Listed(c), 1..c.n_bids)
           /\ c.total_on = Quantity(Listed(c), {n \in 1..c.n_bids : GetBid(c, n).state = "BS_ON"})
           /\ c.total_off = Quantity(Listed(c), {n \in 1..c.n_bids : GetBid(c, n).state = "BS_OFF"})

\* The prices a market can see; what a theorem on the clearing asks of them: none is below
\* the cap's negative, two that differ do so by the offset at least, and the bid read from
\* memory nobody has written, if there is one, is for some quantity.
PricesOf(market) ==
    {Min({bid.price, pricecap}) : bid \in market.bids}
        \cup {Min({price, pricecap}) : price \in {market.fixed_price, market.reference_price, pricecap}}
        \cup {market.garbage.price}
Grid(prices) ==
    /\ prices \in SUBSET ((-pricecap)..pricecap)
    /\ \A p, q \in prices : p < q => p + bid_offset <= q
PlainMarkets ==
    \A market \in Markets : Grid(PricesOf(market)) /\ market.garbage.quantity > 0

\* After a clearing that traded, every bid better than the price is called on and none worse:
\* the quantity lies between what is better and what is at least as good, on each side that
\* is cleared, and the marginal bids share what is left.  It is not so in two cases, when
\* one side runs out at the very quantity at which the other could go on, and when only the
\* unresponsive bids are called on, at the price 0 (auction.cpp:1152-1377).
Traded == outcome.type \in {"CT_BUYER", "CT_SELLER", "CT_PRICE", "CT_EXACT"}
BothSides == config.special_mode \notin {"MD_SELLERS", "MD_BUYERS"}
RunsOut ==
    LET m == Walk(outcome.asks, outcome.offers)
    IN m.check /\ ((m.i > Len(outcome.asks)) # (m.j > Len(outcome.offers)))
OnlyUnresponsive ==
    {outcome.quantity} = {UnresponsiveBuy(outcome.asks), UnresponsiveSell(outcome.offers)}
Called(list, side) ==
    /\ Preferred(list, side, Capped(outcome.price)) <= outcome.quantity
    /\ outcome.quantity <= Willing(list, side, Capped(outcome.price))
ClearingIsFair ==
    Traded /\ (BothSides => ~RunsOut /\ ~OnlyUnresponsive) =>
        /\ config.special_mode # "MD_SELLERS" => Called(outcome.asks, -1)
        /\ config.special_mode # "MD_BUYERS" => Called(outcome.offers, 1)
        /\ outcome.type \in {"CT_BUYER", "CT_SELLER"} =>
               outcome.margin.quantity \in 0..outcome.margin.total /\ outcome.margin.total > 0

\* What is in force after a clearing is the latest frame whose time has come, and what
\* is announced is the one that comes next: the queue neither drops nor delays
\* a frame (auction.cpp:627-740).
FrameInForce ==
    LET due == {f \in cleared : f.start_time <= clock}
        coming == {f \in cleared : f.start_time > clock /\ f.start_time <= clock + period}
    IN /\ due # {} => current_frame \in due /\ \A f \in due : f.start_time <= current_frame.start_time
       /\ config.latency > 0 /\ cleared # {} => coming \subseteq {next_frame}
=============================================================================
