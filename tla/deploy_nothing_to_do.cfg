SPECIFICATION Spec
CONSTANTS
  Commits <- MCCommits
  SchemaOf <- MCSchemaOf
  VersionOf <- MCVersionOf
  Copies = 2
  KeepBackups = 1
  MaxBackups = 2
  Disturbances = {"reboot"}
  None = None
INVARIANT ManifestIsDeployed
