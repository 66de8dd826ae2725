SPECIFICATION FirewallSpec
CONSTANTS
  Zones = {"lan", "wan"}
  InternetZone = "wan"
  LocalZone = "lan"
  PortsOf <- MCPortsOf
  Lan = {"a"}
  Clock = {"00:00:00", "07:00:00", "22:00:00"}
  Names <- MCNames
  Stock <- MCStock
  Files <- MCFiles
  Bodies <- MCBodies
  Forwards <- MCForwards
  MaxEdits = 2
  MaxFaults = 1
INVARIANTS
  ShadowIsCertain
  HalfIsLate
  StagedIsShown
PROPERTIES
  PlacedRuleActs
  ReloadSaysTheSame
CHECK_DEADLOCK FALSE
