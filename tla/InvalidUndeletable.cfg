CONSTANTS
  Absent = Absent
  InfraNamespace = "infra"
  Namespaces = {"infra"}
  Machines <- OneMachine
  Names = {"worker-1"}
  NameOf <- NameOfKey
  Configs <- InvalidConfigs
  UserData <- GoodUserData
  UpsetKinds <- AllUpsets
  MaxUpsets = 0
  MaxFaults = 0
  MaxIncarnations = 1
SPECIFICATION FairSpec
PROPERTIES InvalidMachineCanBeDeleted
CHECK_DEADLOCK FALSE
