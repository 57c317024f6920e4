CONSTANTS
  Absent = Absent
  InfraNamespace = "infra"
  OtherNamespace = "other"
  Namespaces = {"infra", "other"}
  Machines <- OneMachine
  Names = {"worker-1"}
  NameOf <- NameOfKey
  Configs <- JoinedConfigs
  UserData <- GoodUserData
  ConfigMaps <- AnywhereOrNot
  UpsetKinds <- NodeUpsets
  MaxUpsets = 2
  MaxFaults = 1
  MaxIncarnations = 1
SPECIFICATION FairJoinedSpec
PROPERTIES NodeOfLostVMGoes ReadyNodeIsIdentified
CHECK_DEADLOCK FALSE
