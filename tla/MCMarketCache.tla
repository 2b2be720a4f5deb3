--------------------------- MODULE MCMarketCache ---------------------------
(* MarketCache for TLC: two vendors, and calls that share keys.            *)
EXTENDS MarketCache

CONSTANTS q1, q2, f1, b1, b2

MCVendors == <<"fmp", "stooq">>
=============================================================================
