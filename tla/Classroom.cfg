SPECIFICATION RoomFairSpec
CONSTANTS
  m1 = m1
  m2 = m2
  c1 = c1
  c2 = c2
  Messages <- MCMessages
  ByStudents <- MCByStudents
  Requests <- MCCalls
  MaxFaults = 1
CHECK_DEADLOCK FALSE
INVARIANTS MissingIsLost
PROPERTIES WaitingEnds RoomHears
