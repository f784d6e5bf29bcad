SPECIFICATION FairSpec
CONSTANTS
  lab = lab
  edge = edge
  disk = disk
  agent = agent
  task = task
  link = link
  Panels = {lab}
  Checks = {disk, task}
  PanelOf <- MCPanelOf
  Steady = {disk}
  Ephemeral = {task}
  Mutable = {disk}
  Reported = {"warning", "critical"}
  Configs <- FloorCritical
  Disturbances = {"stop", "refuse"}
PROPERTIES
  Converges
  StopEnds
