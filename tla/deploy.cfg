SPECIFICATION Spec
CONSTANTS
  Commits <- MCCommits
  SchemaOf <- MCSchemaOf
  VersionOf <- MCVersionOf
  Copies = 2
  KeepBackups = 1
  MaxBackups = 2
  Disturbances = {"kill", "reboot", "io", "stop"}
  None = None
INVARIANTS TypeOK RestoresAlone BackupsRestorable DoneMeansDeployed FailureChangesNothing NewerAlwaysOpens
PROPERTY TargetsStay
