CONSTANTS
  Absent = Absent
  InfraNamespace = "infra"
  Namespaces = {"infra"}
  Machines <- OneMachine
  Names = {"worker-1"}
  NameOf <- NameOfKey
  Configs <- ValidConfigs
  UserData <- GoodUserData
  UpsetKinds <- AllUpsets
  MaxUpsets = 0
  MaxFaults = 0
  MaxIncarnations = 1
SPECIFICATION Spec
INVARIANTS SecretsAreDeleted
CHECK_DEADLOCK FALSE
