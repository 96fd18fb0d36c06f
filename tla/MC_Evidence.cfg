SPECIFICATION FairSpec
INVARIANTS Accounted Numbered StreamInOrder ForwardedToAll FlushedAtShutdown
PROPERTY LoggingEnds
CONSTANTS
  Sessions = {"s1", "s2"}
  Seconds = {1, 2}
  Starts <- MCStarts
  Sweeper = "sweeper"
  Main = "main"
  Exporters <- MCExporters
  Untimed = {"syslog"}
  Wants <- MCWants
  BatchSize = 2
  MaxEvents <- MCMaxEvents
  MaxAll = 3
  MaxFaults = 1
  Nobody = Nobody
CHECK_DEADLOCK FALSE
