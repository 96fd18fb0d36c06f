SPECIFICATION Spec
CONSTANTS
  Blocks = {"system_state", "static_commands"}
  HandTables <- MCHandTables
PROPERTIES HandEditsKept RoutingFollowsAgents
