\* A thesis break for each of two held tickers, and for both.
SPECIFICATION SizingSpec
CONSTANTS
  Tickers <- MCTickers
  Markets <- MCMarkets
  Horizons <- MCHorizons
  Policies <- MCPolicies
  Lenses <- MCLenses
  Overrides <- MCOverrides
  Constraints <- MCConstraints
  MarketSignals <- MCMarketSignals
  MaxConstraints = 1
INVARIANT BreakReachesPlan
CHECK_DEADLOCK FALSE
