CONSTANTS
  Literal <- MCHugeLiteral
  Fields <- MCFields
  Facts <- MCFacts
  Probe <- MCProbe
  MaxDepth = 11
  Givens <- MCGivens
  Hosts <- MCHosts
  MaxHits = 3
  MaxIdle = 2
  NTypes = 4
  Length = 3
  Focuses = {"logic", "terms", "text", "score"}
  MaxTokens <- MCMaxTokens
  AnyTokens <- MCAnyTokens
  MaxMatches = 4
SPECIFICATION DetectionSpec
INVARIANTS
  ParsesItsGrammar
  AcceptedOnceIsAcceptedAlways
  BestTypeFirst
  ReportsAreRecognised
  ConfidenceIsEarned
PROPERTY
  RiskFollowsSightings
CHECK_DEADLOCK FALSE
