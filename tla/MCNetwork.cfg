SPECIFICATION NetworkSpec
CONSTANTS
  Top = 31
  Sizes = {1, 4, 8, 16}
  Names <- MCNames
  Given <- MCGiven
  Foreign <- MCForeign
  LeaseText <- MCLeaseText
  Files <- MCFiles
  WANs <- MCWANs
  LANs <- MCLANs
  Handouts <- MCHandouts
  Hosts <- MCHosts
  Routes <- MCRoutes
  MaxEdits = 3
  MaxFaults = 1
INVARIANTS
  PoolInside
  ResolversAreUsed
  RoutesDistinct
  OneReservation
PROPERTIES
  HandoutReadsBack
  RowsAfterReload
CHECK_DEADLOCK FALSE
