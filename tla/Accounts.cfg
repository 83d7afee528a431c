SPECIFICATION PagesSpec
CONSTANTS
  t1 = t1
  t2 = t2
  Tabs <- MCTabs
  Admin = admin
  Desks = {"requests", "pages"}
  MaxClicks = 2
  MaxFailed = 2
  Asked = {"login", "logout", "verify", "resend", "forgot", "reset", "change", "profile", "suspend", "activate"}
  MaxCalls = 3
  MaxCodes = 2
  MaxTokens = 6
  MaxFaults = 1
CHECK_DEADLOCK FALSE
SYMMETRY MCSymmetry
INVARIANTS EndedForGood ToldIsTrue
PROPERTIES OneHeir OnlyLatestCode
