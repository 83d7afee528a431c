SPECIFICATION PagesSpec
CHECK_DEADLOCK FALSE
CONSTANTS
  w = w
  u = u
  v = v
  p1 = p1
  p2 = p2
  Users <- MCUsers
  Watcher = w
  Publishers = {p1, p2}
  Scenarios <- MCScenarios
  Entered <- MCEntered
INVARIANTS NobodyTwice  BadgeCoversUnread
PROPERTIES NowIsNow ScheduledIsPublished
