CONSTANTS
  Procs <- MCProcs
  Protocols <- MCProtocols
  Impls <- MCImpls
  Lists <- MCLists
  UnknownProtocol = UnknownProtocol
  Recover = FALSE
SPECIFICATION Spec
\* Every goroutine makes one call; the program stops when all have returned.
CHECK_DEADLOCK FALSE
INVARIANTS TypeOK 
PROPERTIES Termination
