SPECIFICATION StudySpec
CONSTANTS
  a1 = a1
  t1 = t1
  t2 = t2
  m1 = m1
  l1 = l1
  l2 = l2
  w1 = w1
  w2 = w2
  d1 = d1
  x1 = x1
  x2 = x2
  Admins <- MCAdmins
  Titles <- MCTitles
  Free <- MCFree
  Modules <- MCModules
  Lessons <- MCLessons
  ModuleOf <- MCModuleOf
  Written <- MCWritten
  Start <- MCStart
  Tabs <- MCTabs
  Moderators <- MCModerators
  Texts <- MCTexts
  Errands <- MCErrands
  MaxVersion = 2
  MaxEvents = 2
  MaxFaults = 1
  MaxPolls = 2
  Threshold = 50
CHECK_DEADLOCK FALSE
INVARIANTS LastLessonCompletes PlayerIsRight
PROPERTIES CompletedCovers PaidIsEnrolled DecisionStands
