------------------------------ MODULE Actuator ------------------------------
(***************************************************************************)
(* pkg/actuator: what Create, Update and Delete do around the calls of the *)
(* wrapper - read the user data, patch the Machine, turn an error into an  *)
(* event and an error of their own.                                        *)
(*                                                                         *)
(* After an error of the wrapper the Machine is patched too, with a copy   *)
(* that has not changed: see PatchAfterError.                              *)
(***************************************************************************)
EXTENDS KubevirtVM

\* Create, up to the wrapper's first call.  A client refuses to get a secret
\* without a name (an empty provider spec names none).
getUserData ==
  /\ pc = "getUserData"
  /\ \/ /\ CreateMachineScope(m.config)
        /\ Read(IF ~m.config.ignitionSecretName \/ m.config.providerSpec = "nil"
                THEN CreateFails("plain")
                ELSE IF userData \in {"noSecret", "noKey"} THEN CreateFails("invalid")
                ELSE IF AddHostnameToUserData(userData) = "panic" THEN Restart
                ELSE Goto("createSecret"))
     \/ /\ ~CreateMachineScope(m.config)
        /\ CreateFails("invalid")
        /\ UNCHANGED <<clusterVars, faults>>

\* patchMachine: two requests.  The answer to the first overwrites the copy, so
\* the status is put back before the second, whose patch then also carries the
\* resource version if the stored Machine is no longer the one first read: it is
\* refused if the Machine changes once more in between.
patchMachine ==
  /\ pc = "patchMachine"
  /\ LET patched == PatchedMachine(origin, m, machines[key])
     IN WriteTenant(PatchAccepted(key), StoreMachine(key, patched),
                    /\ pc' = "patchStatus"
                    /\ version' = patched
                    /\ m' = WithStatus(Decoded(patched, m), m)
                    /\ UNCHANGED <<cache, queue, key, origin, vm>>)

StatusPatchAccepted ==
  /\ PatchAccepted(key)
  /\ version # origin => machines[key] = version

\* What Update returns when that succeeds depends on the VirtualMachine it wrote, if it
\* wrote one; Create's is new, and never ready.
patchStatus ==
  /\ pc = "patchStatus"
  /\ LET patched == PatchedStatus(origin, m, machines[key])
     IN WriteTenant(StatusPatchAccepted, StoreMachine(key, patched),
                    IF vm # Absent /\ vm.ready THEN GotoWith("setRunning", patched)
                    ELSE IF Decoded(patched, m).phase = "" THEN GotoWith("reportError", patched)
                    ELSE Return(TRUE))
=============================================================================
