CONSTANTS
  Namespaces = {"infra", ""}
  StartupConfigMaps <- AllConfigMaps
  MaxEdits = 2
  MaxFailures = 2
SPECIFICATION FairStartupSpec
INVARIANTS StartupTypeOK
PROPERTIES MachinesAreServed
