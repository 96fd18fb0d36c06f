CONSTANTS
  Builds = {"present", "absent"}
  MaxPasses = 4
  MaxVersion = 2
  Shells = {1, 2, 3, 4}
SPECIFICATION FairSpec
INVARIANTS AnswerOnSyncedShell CreditedAgentTookIt CheckpointHonest
PROPERTY EverySendReturns
