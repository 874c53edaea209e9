SPECIFICATION Spec
CONSTANTS
  Threads = {t1, t2, t3}
  Watchers = {w1}
  MaxChecks = 2
  MaxChanges = 2
  LateWatch = FALSE
  t1 = t1
  t2 = t2
  t3 = t3
  w1 = w1
  None = None
CHECK_DEADLOCK FALSE
INVARIANTS OneCheck 
PROPERTIES JoinerAnsweredLater
