SPECIFICATION Worlds
CONSTANTS
  a = a
  b = b
  e4 = e4
  d4 = d4
  r1 = r1
  b1 = b1
  m1 = m1
  c1 = c1
  w1 = w1
  w2 = w2
  None = None
INVARIANTS LinkIsHonest   
PROPERTIES LastWordIsLast CooledFetchRunsToItsEnd LinesHold
CHECK_DEADLOCK FALSE
