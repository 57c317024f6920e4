------------------------ MODULE MCMachineController ------------------------
(***************************************************************************)
(* Values for the constants of MachineController.                          *)
(***************************************************************************)
EXTENDS MachineProperties

\* Keys are <<namespace, name>>.
Key1 == <<"openshift-machine-api", "worker-1">>
Key2 == <<"other-namespace", "worker-1">>
OneMachine == {Key1}
TwoOfOneName == {Key1, Key2}
NameOfKey == [k \in Machines |-> k[2]]

Valid == [ clusterIDLabel |-> TRUE, excludeNodeDraining |-> FALSE,
           providerSpec |-> "decodable", sourcePvcName |-> TRUE,
           ignitionSecretName |-> TRUE, networkName |-> TRUE,
           interfaceBindingMethod |-> "", requestedMemory |-> "", requestedStorage |-> "",
           persistentVolumeAccessMode |-> "" ]
Bigger == [Valid EXCEPT !.requestedMemory = "123456M", !.requestedStorage = "666Gi",
                        !.interfaceBindingMethod = "SRIOV",
                        !.persistentVolumeAccessMode = "ReadWriteOnce"]
Undrained == [Valid EXCEPT !.excludeNodeDraining = TRUE]

\* One configuration for every way to be wrong.
Unlabelled == [Valid EXCEPT !.clusterIDLabel = FALSE]
NoSpec == [Valid EXCEPT !.providerSpec = "nil"]
Undecodable == [Valid EXCEPT !.providerSpec = "undecodable"]
NoNetwork == [Valid EXCEPT !.networkName = FALSE]
NoUserDataSecret == [Valid EXCEPT !.ignitionSecretName = FALSE]
BadMode == [Valid EXCEPT !.persistentVolumeAccessMode = "other"]
BadMemory == [Valid EXCEPT !.requestedMemory = "malformed"]
BadStorage == [Valid EXCEPT !.requestedStorage = "malformed"]

ValidConfigs == {Valid}
UndrainedConfigs == {Undrained}
TwoValidConfigs == {Valid, Bigger}
InvalidConfigs == {NoNetwork}
RepairedConfigs == {Valid, BadMemory}
LifecycleConfigs == {Valid, Undrained, Unlabelled, NoSpec, Undecodable, NoNetwork,
                     NoUserDataSecret, BadMode, BadMemory, BadStorage}

\* One user data secret for every way getUserData and addHostnameToUserData end.
GoodUserData == {"noStorage"}
AnyUserData == {"noStorage", "noSecret", "files"}
UserDataWithFiles == {"noStorage", "files"}

EditsAndLosses == {"Machine edited", "user data edited", "VM dropped"}
AllUpsets == {"instance fails", "VM dropped", "Machine edited", "user data edited",
              "Node written"}
=============================================================================
