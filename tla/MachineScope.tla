---------------------------- MODULE MachineScope ----------------------------
(***************************************************************************)
(* The functions of pkg/machinescope and the conversions of pkg/kubevirt:  *)
(* what a Machine's configuration turns into, and what a VirtualMachine    *)
(* turns a Machine into.  No state; every operator is a function of the    *)
(* machine and virtual machine it is given.                                *)
(*                                                                         *)
(* A configuration is the part of a Machine its owner writes: the cluster  *)
(* label, the exclude-node-draining annotation and the provider spec.      *)
(* Strings are kept only where the code compares them; a name the code     *)
(* only checks for "" is TRUE when it is set.                              *)
(***************************************************************************)

AccessModes == {"ReadWriteMany", "ReadOnlyMany", "ReadWriteOnce"}

\* The strings resource.MustParse accepts (the defaults and those of the tests);
\* it panics on any other.
Quantities == {"2048M", "123456M", "35Gi", "666Gi"}

Config == [ clusterIDLabel : BOOLEAN,
            excludeNodeDraining : BOOLEAN,
            providerSpec : {"nil", "undecodable", "decodable"},
            sourcePvcName : BOOLEAN,
            ignitionSecretName : BOOLEAN,
            networkName : BOOLEAN,
            interfaceBindingMethod : {"", "SRIOV"},
            requestedMemory : Quantities \cup {"", "malformed"},
            requestedStorage : Quantities \cup {"", "malformed"},
            persistentVolumeAccessMode : AccessModes \cup {"", "other"} ]

-----------------------------------------------------------------------------
\* The machine controller's own check, before it calls the actuator.
Validate(c) == c.clusterIDLabel /\ c.providerSpec # "nil"

\* A nil provider spec decodes to an empty one.
ProviderSpecFromRawExtension(spec) == spec # "undecodable"

\* CreateMachineScope fails on a missing label and on a provider spec that does
\* not decode.
CreateMachineScope(c) ==
  c.clusterIDLabel /\ ProviderSpecFromRawExtension(c.providerSpec)

\* An empty provider spec has every name empty.
assertMandatoryParams(c) ==
  /\ c.providerSpec = "decodable"
  /\ c.sourcePvcName /\ c.ignitionSecretName /\ c.networkName

OrDefault(s, default) == IF s = "" THEN default ELSE s

buildVMITemplate(c) ==
  [ memory |-> OrDefault(c.requestedMemory, "2048M"),
    binding |-> IF c.interfaceBindingMethod = "SRIOV" THEN "SRIOV" ELSE "Bridge" ]

buildBootVolumeDataVolumeTemplate(c) ==
  [ storage |-> OrDefault(c.requestedStorage, "35Gi"),
    accessMode |-> OrDefault(c.persistentVolumeAccessMode, "ReadWriteMany") ]

\* Mutant: any access mode is taken.
BuildOutcomeAnyMode(c) ==
  IF ~assertMandatoryParams(c) THEN "invalid"
  ELSE IF "malformed" \in {c.requestedMemory, c.requestedStorage} THEN "panic" ELSE "ok"

\* How CreateVirtualMachineFromMachine ends: with a struct, with an
\* InvalidMachineConfiguration error, or in a panic of resource.MustParse.  The
\* memory is parsed before the access mode is checked, the storage after it.
BuildOutcome(c) ==
  CASE ~assertMandatoryParams(c) -> "invalid"
    [] assertMandatoryParams(c) /\ c.requestedMemory = "malformed" -> "panic"
    [] assertMandatoryParams(c) /\ c.requestedMemory # "malformed"
         /\ c.persistentVolumeAccessMode = "other" -> "invalid"
    [] assertMandatoryParams(c) /\ c.requestedMemory # "malformed"
         /\ c.persistentVolumeAccessMode # "other"
         /\ c.requestedStorage = "malformed" -> "panic"
    [] OTHER -> "ok"

\* The struct itself, when the outcome is "ok".
CreateVirtualMachineFromMachine(c) ==
  [ template |-> buildVMITemplate(c),
    bootVolume |-> buildBootVolumeDataVolumeTemplate(c) ]

VMSpecs == [ template : [ memory : Quantities \cup {"malformed"},
                          binding : {"SRIOV", "Bridge"} ],
             bootVolume : [ storage : Quantities \cup {"malformed"},
                            accessMode : AccessModes \cup {"other"} ] ]

-----------------------------------------------------------------------------
\* The provider ID "kubevirt://<namespace>/<name>": neither part may contain a
\* slash, so the ID determines both.
FormatProviderID(namespace, name) == <<"kubevirt", namespace, name>>
NoProviderID == <<>>

VMStates == {"vmNotCreated", "vmWasCreatedButNotReady", "vmWasCreatedAndReady"}

\* The machineState constants, from the status of a VirtualMachine.
MachineState(v) ==
  IF ~v.created THEN "vmNotCreated"
  ELSE IF v.ready THEN "vmWasCreatedAndReady" ELSE "vmWasCreatedButNotReady"

\* SyncMachine: provider ID and instance-state annotation from the VirtualMachine v;
\* addresses only when an instance was passed (the DNS name at least, so the list is
\* not empty).  The provider status is a copy of v's that nothing reads: left out.
SyncMachine(mach, v, vmi, providerID) ==
  [mach EXCEPT !.providerID = providerID,
               !.instanceState = MachineState(v),
               !.addresses = (vmi \/ @)]

-----------------------------------------------------------------------------
\* What the tenant cluster's ignition secret may hold: no secret, no userData
\* key, bytes that are not a JSON object, an object without "storage", with a
\* "storage" object without "files", with "files", or with another "storage".
UserDataKinds == {"noSecret", "noKey", "notAnObject", "noStorage",
                  "noFiles", "files", "storageNotAnObject"}

\* addHostnameToUserData ignores the error of json.Unmarshal and then writes to
\* the map, which is nil when the bytes were no object; and it asserts that
\* "files" has the type it has only when it has just been created.
AddHostnameToUserData(u) == IF u \in {"noStorage", "noFiles"} THEN "ok" ELSE "panic"
=============================================================================
