SPECIFICATION Spec
CONSTANTS
  Packages = {network, wireless}
  Wireless = wireless
  Values = {v1, v2}
  KeepSnapshots = 1
  MaxTx = 1
  MaxClock = 0
  MaxFaults = 1
  None = None
  Torn = Torn
  Gone = Gone
  NoSnap = NoSnap
  NoRec = NoRec
SYMMETRY ValueSymmetry
INVARIANT NoUnconfirmedSurvivor
