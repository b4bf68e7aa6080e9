CONSTANTS
  Literal <- MCHugeLiteral
  Fields <- MCFields
  Facts <- MCFacts
  Probe <- MCProbe
  MaxDepth = 11
  Givens <- MCGivens
  Hosts <- MCHosts
  MaxHits = 3
  MaxIdle = 2
  NTypes = 4
  Length = 3
  Focuses = {"terms"}
  MaxTokens <- MCMaxTokens
  AnyTokens <- MCAnyTokens
  MaxMatches = 4
SPECIFICATION DetectionSpec
INVARIANT
  NoRuleBreaksIngestion
CHECK_DEADLOCK FALSE
