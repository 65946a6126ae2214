SPECIFICATION Spec
CONSTANTS
  t1 = t1
  t2 = t2
  t3 = t3
  Threads <- ThreeThreads
  NClasses = 3
  Cap <- OneEach
  Requests <- AnySize
  MaxHold = 2
SYMMETRY Symmetry
INVARIANTS Conserved NotStranded
CHECK_DEADLOCK FALSE
