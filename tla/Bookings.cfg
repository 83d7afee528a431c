SPECIFICATION SiteSpec
CONSTANTS
  k1 = k1
  k2 = k2
  c1 = c1
  c2 = c2
  Classes <- MCClasses
  Rows <- MCRows
  Slots <- MCSlots
  Templates <- MCTemplates
  Week = 2
  Window = 1
  Grace = 0
  MaxTime = 3
  Calls <- MCCalls
  Restarts = TRUE
  Desks <- MCDesks
  Edited = k1
  Clerk = c1
  Entered <- MCEntered
  Ahead = 2
  MaxChecks = 2
CHECK_DEADLOCK FALSE
INVARIANTS OverlapIsUnseen ConflictsAreCurrent
