SPECIFICATION Spec
CONSTANTS
  Instances = {"live", "lab"}
  Policies <- MCPolicies
  MaxId = 4
PROPERTY KeepsNewest
