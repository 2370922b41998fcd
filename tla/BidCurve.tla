------------------------------ MODULE BidCurve ------------------------------
(***************************************************************************)
(* The bids of one side of a market (curve.cpp): an array of bids, the     *)
(* order in which they are looked at (keys) and who made them (bid_ids).   *)
(* Positions count from 1.                                                 *)
(***************************************************************************)
EXTENDS Integers, Sequences, FiniteSets

CONSTANTS
    FirstLen    \* bids there is room for at first (8 in the code)

ASSUME CurveAssumption == FirstLen \in Nat \ {0}

\* garbage is the bid that memory nobody has written holds.
EmptyCurve(garbage) ==
    [len |-> 0, n_bids |-> 0, bids |-> <<>>, keys |-> <<>>, bid_ids |-> <<>>,
     total |-> 0, total_on |-> 0, total_off |-> 0, garbage |-> garbage]

Clear(c) == [c EXCEPT !.n_bids = 0, !.total = 0, !.total_on = 0, !.total_off = 0]

GetBid(c, n) == c.bids[c.keys[n]]

\* A place in the order that nothing was written to.
Stray(c, n) == n \notin {k \in 1..c.len : c.keys[k] # 0}

\* The bids in the order of the keys.
Listed(c) == [n \in 1..c.n_bids |-> GetBid(c, n)]

\* The curve with one more bid counted (or one less, with times = -1).
Counted(c, bid, times) ==
    [c EXCEPT !.total = @ + times * bid.quantity,
              !.total_on = IF bid.state = "BS_ON" THEN @ + times * bid.quantity ELSE @,
              !.total_off = IF bid.state = "BS_OFF" THEN @ + times * bid.quantity ELSE @]

\* The first array, or one of twice the size.
Grown(c) ==
    LET room == IF c.len = 0 THEN FirstLen ELSE c.len
        rest(x) == [i \in 1..room |-> x]
    IN IF c.n_bids < c.len THEN c
       ELSE [c EXCEPT !.len = @ + room, !.bids = @ \o rest(c.garbage),
                      !.keys = @ \o rest(0), !.bid_ids = @ \o rest(c.garbage.id)]

Submit(c, bid) ==
    LET g == Grown(c)
        n == g.n_bids + 1
    IN Counted([g EXCEPT !.keys[n] = n, !.bid_ids[n] = bid.id, !.bids[n] = bid, !.n_bids = n],
               bid, 1)

MadeBy(c, id) == {i \in 1..c.n_bids : c.bid_ids[i] = id}

\* Mutant: the old bid is still counted.
Uncounted_Not(c, bid) == c

Uncounted(c, bid) == Counted(c, bid, -1)

\* A bid that replaces the bidder's, and is submitted when there is none.
Resubmit(c, bid) ==
    LET mine == MadeBy(c, bid.id)
        k == c.keys[CHOOSE i \in mine : TRUE]
    IN IF mine = {} THEN Submit(c, bid)
       ELSE IF Cardinality(mine) > 1 THEN c
       ELSE Counted([Uncounted(c, c.bids[k]) EXCEPT !.bids[k] = bid], bid, 1)

\* The three arrays move up by one place from the bid on; the keys keep their values,
\* so that those after it tell of the bid that follows theirs.
RemoveBid(c, id) ==
    LET mine == MadeBy(c, id)
        n == CHOOSE i \in mine : TRUE
        up(s, last) == [i \in 1..c.len |-> IF i < n THEN s[i] ELSE IF i < c.len THEN s[i + 1] ELSE last]
    IN IF Cardinality(mine) # 1 THEN c
       ELSE [Uncounted(c, GetBid(c, n)) EXCEPT
                !.bids = up(@, c.garbage), !.keys = up(@, 0), !.bid_ids = up(@, c.garbage.id),
                !.n_bids = @ - 1]

\* The merge sort takes equal prices in their order when it sorts downwards, and in
\* the opposite order when it sorts upwards.
Sort(c, reverse) ==
    LET price(n) == GetBid(c, n).price
        before(m, n) == \/ price(m) # price(n) /\ (reverse <=> price(m) > price(n))
                        \/ price(m) = price(n) /\ (IF reverse THEN m < n ELSE n < m)
        place(m) == Cardinality({n \in 1..c.n_bids : before(n, m)}) + 1
        from(n) == CHOOSE m \in 1..c.n_bids : place(m) = n
    IN [c EXCEPT !.keys = [n \in 1..c.len |-> IF n <= c.n_bids THEN @[from(n)] ELSE @[n]]]
=============================================================================
