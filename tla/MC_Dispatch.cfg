SPECIFICATION FairSpec
CONSTANTS
  Lines <- MCLines
  Paths = {"f", "g"}
  Configs <- MCConfigs
  MinFi = 2
  Builds = {"present", "absent"}
  Base <- MCBase
  PreInstalled = {"wget"}
  Provider <- MCProvider
  Canonical <- MCCanonical
INVARIANTS TypeOK NoModelInCowriesName
PROPERTIES NothingForgotten OutageIsAnswered KeepsOneBox
