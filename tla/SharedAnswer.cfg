\* A multi planner with a byok member: callers with keys of their own share the text plan cache.
SPECIFICATION DecideSpec
CONSTANTS
  g1 = g1
  g2 = g2
  Goals = {g1, g2}
  Deployments <- MCShared
  Replies <- MCReplies
  Callers <- MCCallers
  Tapes <- MCTapes
  Verdicts <- MCVerdicts
  Signals <- MCSignals
  Labels = {"trend", "range", "high_vol"}
  CacheSize = 2
  MaxWorld = 1
  MaxTime = 1
  Tickers <- MCTickers
  Markets <- MCMarkets
  Horizons <- MCHorizons
  Policies <- MCPolicies
  Lenses <- MCLenses
  Overrides <- MCOverrides
  Constraints <- MCConstraints
  MarketSignals <- MCMarketSignals
  MaxConstraints = 2
  MoveKeys = {"a", "b", "c", "none"}
  NoKey = "none"
  MaxMoves = 3
  MaxDeps = 2
  Books <- MCBooks
  Domain = "investing"
  Mode = "utility"
  PageLimit = 1
  MinSamples = 2
  MaxLag = 1
  MaxOutcomes = 3
  MaxLate = 1
  BinCount = 5
  MaxTally = 2
INVARIANT AnswersThisRequest
CHECK_DEADLOCK FALSE
