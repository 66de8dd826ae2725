SPECIFICATION DeviceSpec
CONSTANTS
  WeekLength = 3
  DayLength = 3
  Unset = Unset
  NoSection = NoSection
  NoSchedule = NoSchedule
  Devices = {phone}
  Offered <- MCOffered
  MaxFaults = 2
  Unknown = Unknown
INVARIANTS
  AskedIsListed
  ListedIsEnforced
PROPERTIES
  PausedStays
  ChangeIsAnnounced
