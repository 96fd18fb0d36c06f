SPECIFICATION Spec
CONSTANTS
  Instances = {"live", "lab"}
  Policies <- MCPolicies
  MaxId = 4
INVARIANT DryRunIsSafe
PROPERTIES ProtectedKept Justified Bounded ReportIsTrue
