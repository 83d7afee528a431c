SPECIFICATION FairSpec
CONSTANTS
  s1 = s1
  s2 = s2
  c1 = c1
  c2 = c2
  low = low
  high = high
  Subs <- MCOneSub
  Prices <- MCPrices
  PriceOf <- MCOnePrice
  Calls <- MCTwoCalls
  Periods = {1, 2}
  Approximation = 1
  Shortfall = 1
  Grace = 1
  MaxDay = 5
  MaxCharges = 2
  MaxFaults = 1
CHECK_DEADLOCK FALSE
INVARIANTS AgreesWhenQuiet NeverCutShort EventsHaveCause
PROPERTIES FailedEventuallyEnds
