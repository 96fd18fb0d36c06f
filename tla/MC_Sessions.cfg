SPECIFICATION FairSpec
CONSTANTS
  Conns <- MCConns
  Shells <- MCShells
  ConnOf <- MCConnOf
  MAX_SESSIONS = 2
  Workers = 2
  MaxCalls = 2
  Nobody = Nobody
INVARIANTS SlotsExact OneAtTheModel
PROPERTY OthersKeepMoving
CHECK_DEADLOCK FALSE
