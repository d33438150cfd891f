CONSTANTS
  s1 = s1
  s2 = s2
  a = a
  b = b
  Session = {s1}
  Subject = {a}
  Matching <- Plain
  Plans <- Everything
SPECIFICATION FairSpec
PROPERTY ServerCloseReturns
CHECK_DEADLOCK FALSE
