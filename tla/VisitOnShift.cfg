SPECIFICATION Spec
CONSTANTS
  g1 = g1
  o1 = o1
  o2 = o2
  r1 = r1
  r2 = r2
  Gates = {g1}
  Operators = {o1, o2}
  Threads = {r1, r2}
  TemplateRules <- TwoTemplates
  InitialRows <- FirstRows
  Horizon = 2
  FirstTime = 7
  LastTime = 9
  MaxRequests = 2
  None = None
PROPERTIES
  VisitOnRunningShift
CHECK_DEADLOCK FALSE
