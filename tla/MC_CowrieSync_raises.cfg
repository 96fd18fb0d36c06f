CONSTANTS
  Builds = {"absent"}
  MaxPasses = 4
  MaxVersion = 2
  Shells = {1, 2, 3, 4}
SPECIFICATION Spec
INVARIANT SendNeverRaises
