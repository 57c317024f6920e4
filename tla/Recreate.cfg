CONSTANTS
  Absent = Absent
  InfraNamespace = "infra"
  Namespaces = {"infra"}
  Machines <- OneMachine
  Names = {"worker-1"}
  NameOf <- NameOfKey
  Configs <- ValidConfigs
  UserData <- GoodUserData
  UpsetKinds <- AllUpsets
  MaxUpsets = 0
  MaxFaults = 1
  MaxIncarnations = 2
INVARIANTS FinalizerInv FailedOnlyFromOutside
SPECIFICATION FairSpec
PROPERTIES VMStartsFresh DeletionCompletes ReadyMachineRuns Settles ImplementsLifecycle
CHECK_DEADLOCK FALSE
