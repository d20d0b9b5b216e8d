\* Three entries with one in flight: Send blocks on a full stream, Cancel can
\* race an entry in flight, the last Recv and Finish.
CONSTANTS
  MaxItems = 3
  MaxBuf = 1
  Replies = {0, 1}
  Zero = 0
SPECIFICATION Spec
\* The call ends: every goroutine has returned.
CHECK_DEADLOCK FALSE
INVARIANTS
  TypeOK
  CleanMeansComplete
PROPERTIES
  StreamCallRefinement
  ClientReturns
