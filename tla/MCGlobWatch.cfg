CONSTANTS
  Values <- MCValues
  Gone = Gone
  MaxUpdates = 2
  MaxCalls = 3
  MaxBuf = 1
SPECIFICATION Spec
\* A watch stream never ends: once the store stops changing and the
\* watcher has caught up, it blocks in Advance for good.
CHECK_DEADLOCK FALSE
INVARIANTS
  TypeOK
  ViewMatchesMarker
