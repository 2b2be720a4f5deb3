\* The same instance, asked whether an outage can pass for missing history.
SPECIFICATION Spec
CONSTANTS
  q1 = q1
  q2 = q2
  f1 = f1
  b1 = b1
  b2 = b2
  Quotes = {q1, q2}
  Funds = {f1}
  Ranges = {b1, b2}
  Vendors <- MCVendors
  PointTTL = 2
  BarsTTL = 1
  MaxEntries = 2
  LiveWindow = 0
  MemoTTL = 2
  DayLength = 1
  Lookback = 1
  MaxCalls = 2
  StartTime = 2
  MaxTime = 4
INVARIANT NoChunkLostToOutage

CHECK_DEADLOCK FALSE
