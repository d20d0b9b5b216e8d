CONSTANTS
  Customers <- MCCustomers
  Olds <- MCOlds
  Labels <- MCLabels
SPECIFICATION Spec
INVARIANTS TypeOK DecodesExactly
