SPECIFICATION Spec
CONSTANTS
  a1 = a1
  a2 = a2
  t1 = t1
  t2 = t2
  m1 = m1
  m2 = m2
  l1 = l1
  l2 = l2
  l3 = l3
  Blank = Blank
  Admins <- MCAdmins
  Titles <- MCTitles
  Modules <- MCModules
  Lessons <- MCLessons
  ModuleOf <- MCModuleOf
  Written <- MCWritten
  Start <- MCStart
  Desks <- MCDesks
  MaxVersion = 3
  MaxRequests = 5
SYMMETRY Symmetry
CHECK_DEADLOCK FALSE
INVARIANTS VersionIsFree PublishedIsComplete OrderIsTotal
PROPERTIES KeptForStudents
