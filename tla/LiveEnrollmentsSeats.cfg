SPECIFICATION SignupSpec
CONSTANTS
  st1 = st1
  st2 = st2
  c1 = c1
  c2 = c2
  Students <- MCTwoStudents
  Calls <- MCTwoCalls
  Terms <- MCOpenOneTime
  Capacity = 1
  Period = 2
  Grace = 1
  MaxDay = 2
  MaxEvents = 1
  MaxFaults = 1
  Desks <- MCDesks
  Reader = st1
CHECK_DEADLOCK FALSE
INVARIANT SeatsFit
