SPECIFICATION Spec
CONSTANTS
  Specs <- MCSpecs
  Requests <- MCRequests
  Lower <- MCLower
  Spelling <- MCSpelling
  Replacements <- MCReplacements
  None = None
  NoHost = NoHost
  NoRoute = NoRoute
  MaxRoutes = 3
INVARIANTS LookupIsBestMatch OrderMattersOnlyForConflicts SeedMatchesEverything RewriteReplacesSegments
CHECK_DEADLOCK FALSE
