SPECIFICATION TunnelSpec
CONSTANTS
  v4 = v4
  v6 = v6
  exit = exit
  office = office
  Families = {v4}
  Nodes = {office}
  Allowed <- MCAllowed
  ForeignAt = {"marked"}
  Imports = {}
  MaxFaults = 0
  NoNode = NoNode
PROPERTY RulesStay
