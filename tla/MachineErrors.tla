---------------------------- MODULE MachineErrors ---------------------------
(***************************************************************************)
(* What becomes of an error of the actuator.  An error is "invalid" when   *)
(* it is a MachineError with reason InvalidConfiguration in its chain, and *)
(* "plain" otherwise; the machine controller tells the two apart.          *)
(***************************************************************************)
EXTENDS Worker

\* Every error leaves pkg/kubevirt as fmt.Errorf(fmt.Sprintf("...: %v", err)):
\* the text of an InvalidMachineConfiguration survives, its type does not.
WrapError(kind) == "plain"

\* The actuator does the same once more.
HandleMachineError(kind) == "plain"

machineIsProvisioned(mach) == mach.addresses \/ mach.providerID # NoProviderID

isInvalidMachineConfigurationError(kind) == kind = "invalid"

\* Create failed: a Machine that can never be created goes to phase Failed, any
\* other is tried again.
CreateFails(kind) ==
  IF isInvalidMachineConfigurationError(HandleMachineError(kind))
  THEN Goto("failAnnotation")
  ELSE Return(TRUE)

\* Delete failed: a Machine that was never valid and never had an instance has
\* nothing to delete.
DeleteFails(kind) ==
  IF m.addresses \/ ~isInvalidMachineConfigurationError(HandleMachineError(kind))
  THEN Return(TRUE)
  ELSE Goto("existsAfterDelete")
=============================================================================
