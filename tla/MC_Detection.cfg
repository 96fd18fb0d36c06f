SPECIFICATION Spec
CONSTANTS
  Sessions = {1, 2, 3}
  Commands <- MCCommands
  SourceOf <- Source
  SensorOf <- Sensor
  AllSensors = "all"
  Default = "default"
  TacticsOf <- Tactics
  TechniquesOf <- Techniques
  IndicatorsIn <- Indicators
  Strategies = {"same_sequence", "shared_indicator", "same_source_address"}
  DetectionRules <- Detecting_Shipped
  SeverityRules <- Severity_Shipped
  AlertRules <- Alerting_Shipped
  MaxRows = 4
  MaxRuns = 2
INVARIANT UnknownIsNotJudged
PROPERTIES SeverityNeverMoves SurfacedStays
CHECK_DEADLOCK FALSE
