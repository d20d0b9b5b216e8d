CONSTANTS
  Keys = {k1, k2}
  Verifiers = {k1}
  NoKey = NoKey
  Exts <- MCExts
  Caveats <- MCCaveats
  MaxChainLen = 2
  MaxChains = 2
  MaxPool = 4
SPECIFICATION Spec
CHECK_DEADLOCK FALSE
INVARIANTS
  PoolWellFormed
  UnionNamesOrderIndependent
  RemoteNamesPartition
  DefaultRemoteNamesExact
  SigningNamesExact
