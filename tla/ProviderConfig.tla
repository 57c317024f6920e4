--------------------------- MODULE ProviderConfig ---------------------------
(***************************************************************************)
(* The ConfigMap openshift-config/cloud-provider-config of the tenant      *)
(* cluster: where in the infra cluster the virtual machines are.  The      *)
(* actuator reads it once, when the process starts; the nodeupdate         *)
(* controller reads it in every Reconcile.                                 *)
(***************************************************************************)

CONSTANT Namespaces         \* what may be written as a namespace of the infra cluster

\* The value of a key that a map does not have.  An empty string is a value.
NoKey == "no such key"

\* A ConfigMap that does not exist, one without the key "config", one whose value
\* is no map of strings, or a map with or without the two keys the provider reads.
ConfigMap == [ data : {"missing", "noKey", "notAMap", "map"},
               infraID : BOOLEAN,
               namespace : Namespaces \cup {NoKey} ]

\* GetConfigMapValue returns a map, and no error.
GetConfigMapValue(c) == c.data = "map"
HasNamespace(c) == c.namespace # NoKey

\* actuator.New: the actuator, an InvalidMachineConfiguration error, or, when the
\* ConfigMap cannot be read, neither of the two.
NewActuator(c) ==
  IF ~GetConfigMapValue(c) THEN "nil"
  ELSE IF c.infraID /\ HasNamespace(c) THEN "actuator" ELSE "error"
=============================================================================
