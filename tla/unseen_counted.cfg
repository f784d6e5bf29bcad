SPECIFICATION Spec
CONSTANTS
  lab = lab
  edge = edge
  far = far
  disk = disk
  agent = agent
  link = link
  probe = probe
  gap = gap
  PanelOf <- PanelOfCheck
  Gap = gap
  Reports <- ReportsOf
  Interval = 1
  Retention = 2
  MuteTicks = 1
  Instances <- History
INVARIANTS
  OnlySeenIsCounted
