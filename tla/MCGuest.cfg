SPECIFICATION GuestSpec
CONSTANTS
  Radios = {"radio0", "radio1"}
  Band <- MCBand
  Subnets = {2, 3, 4}
  LiveNets = {2}
  Starts <- MCStarts
  Asked = {{"radio0"}}
  Uplinks = {"wwan"}
  Edits <- MCEdits
  OwnerEdits <- MCOwnerEdits
  MaxHand = 1
  MaxSteps = 3
  MaxFaults = 2
INVARIANTS
  UnwarnedKeepsPromise
  GuestWaitsWhole
  PromisedPrefixFits
PROPERTIES
  GuestRowsAfterReload
  RemovedForGood
CHECK_DEADLOCK FALSE
