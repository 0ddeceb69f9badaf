CONSTANTS
  CommandLines <- Defaults
  VideoSeconds = 40
  CellIdMax = 6
  ImsiMax = 40
SPECIFICATION DashSpec
INVARIANTS
  GetsExistingClient
