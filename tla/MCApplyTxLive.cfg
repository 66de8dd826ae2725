SPECIFICATION FairSpec
CONSTANTS
  Packages = {wireless}
  Wireless = wireless
  Values = {v1, v2}
  KeepSnapshots = 1
  MaxTx = 2
  MaxClock = 0
  MaxFaults = 2
  None = None
  Torn = Torn
  Gone = Gone
  NoSnap = NoSnap
  NoRec = NoRec
PROPERTIES
  TransactionEnds
  UnacceptedIsUndone
