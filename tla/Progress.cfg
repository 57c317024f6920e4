CONSTANTS
  Absent = Absent
  InfraNamespace = "infra"
  Namespaces = {"infra"}
  Machines <- OneMachine
  Names = {"worker-1"}
  NameOf <- NameOfKey
  Configs <- TwoValidConfigs
  UserData <- UserDataWithFiles
  UpsetKinds <- EditsAndLosses
  MaxUpsets = 1
  MaxFaults = 0
  MaxIncarnations = 1
SPECIFICATION FairSpec
PROPERTIES LostVMIsNoticed SpecFollowsMachine LiveMachineGetsVM
CHECK_DEADLOCK FALSE
