SPECIFICATION Spec
CONSTANTS
  Courses = {c1, c2}
  NoCourse = NoCourse
  Overrides = {n1}
  Existing = {n1}
  Deletions = {d1, d2}
  Requests = {r1, r2}
  Sessions = {s1}
  NoSession = NoSession
  MaxCrashes = 1
SYMMETRY Symmetry
INVARIANTS
  ContainersAccounted
  DeletionComplete
  LegacySessionsStayOnCourse
PROPERTIES
  BootstrapCompletes
CHECK_DEADLOCK FALSE
