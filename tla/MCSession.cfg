CONSTANTS
  MaxSessions = 2
  MaxCandidates = 2
  MaxBreaks = 1
SPECIFICATION FairSpec
INVARIANTS
  TypeOK
  CandidatesKept
  OpenIsMapped
PROPERTIES
  NegotiationEnds
  ToolsEnd
