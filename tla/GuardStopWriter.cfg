CONSTANTS
  e1 = e1
  e2 = e2
  t1 = t1
  t2 = t2
  t3 = t3
  Nobody = Nobody
  Engine <- MCEngine
  Task <- MCTask
  Home <- MCHome
  Stoppable <- MCEngine
  Bare <- NoTask
  MaxDepth = 2
SPECIFICATION Spec
INVARIANT OneWriter
CHECK_DEADLOCK FALSE
