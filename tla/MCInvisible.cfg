SPECIFICATION FirewallSpec
CONSTANTS
  Zones = {"lan", "wan"}
  InternetZone = "wan"
  LocalZone = "lan"
  PortsOf <- MCPortsOf
  Lan = {"a"}
  Clock = {"00:00:00", "07:00:00", "22:00:00"}
  Names <- MCNames
  Stock <- MCStock
  Files <- MCPlain
  Bodies <- MCBodies
  Forwards <- MCForwards
  MaxEdits = 2
  MaxFaults = 1
INVARIANT NoInvisibleDraft
CHECK_DEADLOCK FALSE
