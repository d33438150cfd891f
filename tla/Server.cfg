CONSTANTS
  s1 = s1
  s2 = s2
  a = a
  b = b
  Session = {s1, s2}
  Subject = {a, b}
  Matching <- Plain
  Plans <- OneOrTwo
SPECIFICATION FairSpec
INVARIANTS RouterMatchesSubjects ListedUntilClosed OneLateRoute
PROPERTIES SessionTerminates ClosedServerDrains
CHECK_DEADLOCK FALSE
