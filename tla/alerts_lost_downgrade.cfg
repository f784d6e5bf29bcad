SPECIFICATION Spec
CONSTANTS
  lab = lab
  edge = edge
  disk = disk
  agent = agent
  task = task
  link = link
  Panels = {lab}
  Checks = {disk}
  PanelOf <- MCPanelOf
  Steady = {disk}
  Ephemeral = {}
  Mutable = {}
  Reported = {"ok", "warning", "critical"}
  Configs <- FloorCritical
  Disturbances = {"stop"}
INVARIANTS
  LastWordTrue
