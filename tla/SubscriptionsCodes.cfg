SPECIFICATION Spec
CONSTANTS
  s1 = s1
  s2 = s2
  c1 = c1
  c2 = c2
  low = low
  high = high
  Subs <- MCTwoSubs
  Prices <- MCPrices
  PriceOf <- MCOnePrice
  Calls <- MCOneCall
  Periods = {1}
  Approximation = 1
  Shortfall = 0
  Grace = 0
  MaxDay = 3
  MaxCharges = 1
  MaxFaults = 0
CHECK_DEADLOCK FALSE
INVARIANTS CodeIsOwn
