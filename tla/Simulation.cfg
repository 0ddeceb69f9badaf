CONSTANTS
  CommandLines <- AllLines
  VideoSeconds = 40
  CellIdMax = 6
  ImsiMax = 40
SPECIFICATION DashSpec
INVARIANTS
  DashTypeOK
  IdentitiesDistinct
  ReadyForClients
  CellLoad
  GroupRidesTheCar
  OnlyViewerEndsEarly
