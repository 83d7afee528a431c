SPECIFICATION SignupFairSpec
CONSTANTS
  st1 = st1
  st2 = st2
  c1 = c1
  c2 = c2
  Students <- MCOneStudent
  Calls <- MCTwoCalls
  Terms <- MCTerms
  Capacity = 1
  Period = 1
  Grace = 1
  MaxDay = 4
  MaxEvents = 2
  MaxFaults = 1
  Desks <- MCDesks
  Reader = st1
CHECK_DEADLOCK FALSE
INVARIANTS AccessCoversPaid AccessIsPaid InvitationsHonoured
PROPERTIES CancelledStays PaidEventuallyActive
