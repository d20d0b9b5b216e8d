CONSTANTS
  MaxItems = 2
  MaxFinish = 2
SPECIFICATION FairSpec
INVARIANTS
  TypeOK
  FinishAtMostOnce
PROPERTIES
  StreamRefinement
  ReaderLoopEnds
