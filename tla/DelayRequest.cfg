SPECIFICATION ClientFairSpec
CONSTANTS
  Requests = {r1, r2}
  Hosts = {h1, h2}
  Methods = {"HEAD"}
  NumRequest = 2
  Per = 2
  PerCap = 3
  Delays = {0, 2}
  MaxRetryCount = 2
  CounterCap = 1
  NoRequest = NoRequest
INVARIANTS NeverUnready SlidingBound
PROPERTIES DeadlinesKept RequestsEnd
