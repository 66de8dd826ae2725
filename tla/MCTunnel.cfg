SPECIFICATION TunnelSpec
CONSTANTS
  v4 = v4
  v6 = v6
  exit = exit
  office = office
  Families = {v4}
  Nodes = {exit, office}
  Allowed <- MCAllowed
  ForeignAt = {"hold"}
  Imports <- MCImports
  MaxFaults = 1
  NoNode = NoNode
INVARIANTS
  TunnelTypeOK
  NoLeak
  HoldIsReported
  ReadsUpIsRouted
PROPERTY PersonsChoiceStays
