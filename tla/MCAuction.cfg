CONSTANTS
    FirstLen = 2
    pricecap = 8
    bid_offset = 1
    Bidder = {b1, b2, b3, b4}
    Own = own
    Reference = reference
    Markets <- MCMarkets
    period = 2
    StartTime = 1
SYMMETRY MCSymmetry
SPECIFICATION Spec
INVARIANTS CurveKeepsBids ClearingIsFair FrameInForce
CHECK_DEADLOCK FALSE
