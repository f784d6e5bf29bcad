SPECIFICATION Spec
CONSTANTS
  lab = lab
  edge = edge
  disk = disk
  agent = agent
  task = task
  link = link
  Panels = {lab}
  Checks = {agent}
  PanelOf <- MCPanelOf
  Steady = {}
  Ephemeral = {}
  Mutable = {agent}
  Reported = {"ok", "critical"}
  Configs <- FloorWarning
  Disturbances = {"crash", "ambiguous", "db", "event"}
PROPERTIES
  FirstWordIsFailure
  MutedFailureStaysOwed
  ForgottenOnlyWhenTold
