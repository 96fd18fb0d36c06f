SPECIFICATION FairSpec
CONSTANTS
  Keys = {1, 2}
  Rules = {"critical", "indicator"}
  Notify <- MCNotify
  Sweeper = "sweeper"
  Dashboards = {"dashboard"}
  Limit = 1
  MaxEvents = 1
  Nothing = Nothing
INVARIANTS TypeOK RoutedWasDelivered ExportedAtMostOnce AnalystWorkKept
PROPERTY CatchesUp
