SPECIFICATION Spec
CONSTANTS
  None = None
  Requests <- MCRequests
  Responses <- MCResponses
  RuleFilters <- MCRuleFilters
  Opaque = "opaque"
  ForwardedHeaders = TRUE
  MaxHops = 2
INVARIANTS EndToEndKept HopsAreNamed PlanesAgree
PROPERTY NothingHopByHopPasses
CHECK_DEADLOCK FALSE
