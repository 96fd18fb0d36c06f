SPECIFICATION FairSpec
CONSTANTS
  Requests = {r1}
  Warmer = w
  TTL = 2
  MaxId = 1
INVARIANTS SummaryIsCurrent FrameLagIsBounded RefreshIsComplete
PROPERTY EventuallyShown
