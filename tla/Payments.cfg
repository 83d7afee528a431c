SPECIFICATION FairSpec
CONSTANTS
  p1 = p1
  c1 = c1
  c2 = c2
  Payments <- MCOnePayment
  Calls <- MCTwoCalls
  Refunders <- MCTwoCalls
  Price = 2
  MaxFaults = 1
CHECK_DEADLOCK FALSE
INVARIANTS NoDoubleCompletion RefundLedgerComplete FullRefundIsReal RefundsBounded
PROPERTIES ChargedEventuallyAnnounced
