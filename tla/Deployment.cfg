SPECIFICATION DeploymentSpec
CONSTANTS
  Migrator = {m}
  Script = s
  Release = {1, 2, 3}
  Scripts <- MCScripts
  Profiles <- MCProfiles
  Supplied = 0
  MaxCrashes = 2
  MaxJobs = 2
  None = None
INVARIANTS
  MigrationsRunOnce
  ServicesAgree
PROPERTIES
  ProfilesKeepTheirMeaning
  QueueMoves
