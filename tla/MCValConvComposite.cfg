CONSTANTS
  Names <- MCNames
  Fields <- MCFields
  Elems <- MCElems
  ArrayLen <- MCArrayLen
  MaxLen <- MCMaxLen
SPECIFICATION Spec
CHECK_DEADLOCK FALSE
INVARIANTS
  TypeOK
  ConvertsAsReference
  ListConvertsAsReference
