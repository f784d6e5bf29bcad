SPECIFICATION Spec
CONSTANTS
  lab = lab
  edge = edge
  disk = disk
  agent = agent
  task = task
  link = link
  Panels = {lab, edge}
  Checks = {link}
  PanelOf <- MCPanelOf
  Steady = {}
  Ephemeral = {}
  Mutable = {}
  Reported = {"ok", "critical"}
  Configs <- EdgeOnAndOff
  Disturbances = {"crash", "stop", "refuse"}
INVARIANTS
  TypeOK
  DurableDebts
  TombstonesOwe
  BaselineComplete
  LastWordTrue
  EveryMessageIsNews
  OnlyEnabledKnown
PROPERTIES
  ContractKept
