CONSTANTS
  p1 = p1
  p2 = p2
  p3 = p3
  f1 = f1
  f2 = f2
  Dflt = Dflt
  Procs <- MCProcs
  Fns <- MCFns
  Default = Dflt
  Recover = FALSE
SPECIFICATION Spec
\* Each goroutine makes one call: the program stops once all returned.
CHECK_DEADLOCK FALSE
INVARIANTS
  TypeOK
  OverrideOnce
PROPERTIES
  Termination
