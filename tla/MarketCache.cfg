\* Two quotes and a bar range on one ticker: shared keys, expiry, eviction, outages.
SPECIFICATION FairSpec
CONSTANTS
  q1 = q1
  q2 = q2
  f1 = f1
  b1 = b1
  b2 = b2
  Quotes = {q1, q2}
  Funds = {f1}
  Ranges = {b1, b2}
  Vendors <- MCVendors
  PointTTL = 2
  BarsTTL = 1
  MaxEntries = 2
  LiveWindow = 0
  MemoTTL = 2
  DayLength = 1
  Lookback = 1
  MaxCalls = 2
  StartTime = 2
  MaxTime = 4
INVARIANTS NoLookahead AnswersAreFresh OutagesAreNotCached FrozenIsFinal FetchesWhenCold
PROPERTIES EveryCallReturns
CHECK_DEADLOCK FALSE
