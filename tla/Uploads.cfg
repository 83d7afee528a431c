SPECIFICATION FairSpec
CONSTANTS
  f1 = f1
  c1 = c1
  c2 = c2
  Files <- MCOneFile
  Parts <- MCTwoParts
  Calls <- MCCalls
  Resumes = TRUE
  MaxFaults = 4
CHECK_DEADLOCK FALSE
INVARIANTS CompletedIsStored
PROPERTIES TabsEndClean KeepsPromise
