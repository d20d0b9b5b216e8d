CONSTANTS
  Names <- MCNames
  BlessingNames <- MCBlessingNames
  Patterns <- MCPatterns
  MaxLen <- MCMaxLen
SPECIFICATION Spec
INVARIANTS TypeOK MatchesAsDocumented BlessingMatchesBlesser
