CONSTANTS
  Absent = Absent
  InfraNamespace = "infra"
  Namespaces = {"infra"}
  Machines <- OneMachine
  Names = {"worker-1"}
  NameOf <- NameOfKey
  Configs <- RepairedConfigs
  UserData <- GoodUserData
  UpsetKinds = {"Machine edited"}
  MaxUpsets = 1
  MaxFaults = 1
  MaxIncarnations = 1
SPECIFICATION FairSpec
PROPERTIES CreateIsRetried
CHECK_DEADLOCK FALSE
