SPECIFICATION RestoreSpec
CONSTANTS
  Packages = {network, dhcp, wireless}
  Wireless = wireless
  Values = {v1, v2}
  KeepSnapshots = 2
  MaxTx = 1
  MaxClock = 1
  MaxFaults = 1
  MaxRestores = 1
  None = None
  Torn = Torn
  Gone = Gone
  NoSnap = NoSnap
  NoRec = NoRec
SYMMETRY ValueSymmetry
INVARIANTS
  RestoredStays
  NothingOldStaged
  SettledUnlessRaced
  StoppedIsUndone
CHECK_DEADLOCK FALSE
