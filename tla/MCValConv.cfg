CONSTANTS
  UintSrc <- MCUintSrc
  IntSrc <- MCIntSrc
  FloatSrc <- MCFloatSrc
  ComplexSrc <- MCComplexSrc
  StringSrc <- MCStringSrc
  MaxCalls = 2
SPECIFICATION Spec
CHECK_DEADLOCK FALSE
INVARIANTS
  TypeOK
  NumericExact
