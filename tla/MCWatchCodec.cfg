CONSTANTS
  Changes <- MCChanges
  Olds <- MCOlds
  PeerWires <- MCPeerWires
  Unknown = Unknown
  Int32Half <- MCInt32Half
SPECIFICATION Spec
\* One VDLWrite and one VDLRead: the program stops once both returned.
CHECK_DEADLOCK FALSE
INVARIANTS
  TypeOK
  ReadAsLastWins
  RoundTrip
