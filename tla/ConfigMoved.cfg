CONSTANTS
  Absent = Absent
  InfraNamespace = "infra"
  OtherNamespace = "other"
  Namespaces = {"infra", "other"}
  Machines <- OneMachine
  Names = {"worker-1"}
  NameOf <- NameOfKey
  Configs <- UndrainedConfigs
  UserData <- GoodUserData
  ConfigMaps <- HereOrElsewhere
  UpsetKinds <- ConfigMapEdits
  MaxUpsets = 1
  MaxFaults = 0
  MaxIncarnations = 1
SPECIFICATION SystemSpec
PROPERTIES NodeOfVMStays
CHECK_DEADLOCK FALSE
