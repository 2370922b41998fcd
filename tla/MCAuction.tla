----------------------------- MODULE MCAuction -----------------------------
(* Auction for TLC.  Prices are 4 apart, so that a mean is a whole number and a *)
(* price moved by the offset falls between two bids; the cap is 8.               *)
EXTENDS Auction, TLC

BidsOf(quantities, prices, states) ==
    [quantity : quantities, price : prices, state : states]
Withdrawal == [quantity |-> 0, price |-> 0, state |-> "BS_OFF"]

\* Each setting tries one part of the auction: bids that change, the sides that are
\* fixed, the load that did not bid, the latency.
Bids(max_bids, bids) ==
    [special_mode |-> "MD_NONE", latency |-> 0, fixed_quantity |-> 0, fixed_price |-> 4, sph24 |-> 0,
     refload |-> 0, reference_bid |-> 0, reference_price |-> 0,
     bids |-> bids, max_bids |-> max_bids, max_markets |-> 1,
     garbage |-> [id |-> Own, quantity |-> 2, price |-> 0, state |-> "BS_ON"]]
Some == BidsOf({-4, -2, 2}, {0, 4, 8}, {"BS_ON"})

Free == Bids(4, BidsOf({-4, -2, 2, 4}, {-8, 0, 4, 8}, {"BS_ON"}) \cup {Withdrawal})
Single(mode, quantity) ==
    [Bids(3, Some) EXCEPT !.special_mode = mode, !.fixed_quantity = quantity]
Reference_(load) ==
    [Bids(2, BidsOf({-2, 2}, {4, 12}, {"BS_ON", "BS_OFF", "BS_UNKNOWN"})) EXCEPT
        !.refload = load, !.reference_bid = 4]
Late(latency, sph24) ==
    [Bids(1, Some) EXCEPT !.latency = latency, !.sph24 = sph24, !.refload = 2, !.reference_bid = 2,
                          !.max_markets = 4, !.max_bids = 0]
Warm == [Bids(1, Some) EXCEPT !.sph24 = 1, !.max_markets = 2]

Stale == [Single("MD_BUYERS", 4) EXCEPT !.max_bids = 1, !.max_markets = 2]

MCMarkets ==
    {Free, [Free EXCEPT !.garbage.price = 8, !.max_bids = 3], Warm, Stale}
        \cup {Single(mode, quantity) : mode \in MODES \ {"MD_NONE"}, quantity \in {0, 2, 4}}
        \cup {Reference_(load) : load \in {2, 4}}
        \cup {Late(latency, sph24) : latency \in 1..5, sph24 \in 0..1}
MCSymmetry == Permutations(Bidder)

\* What the theorem on the clearing asks of the settings.
ASSUME MCMarketsPlain == PlainMarkets
=============================================================================
