------------------------------- MODULE Worker -------------------------------
(***************************************************************************)
(* The process the reconcilers run in: controller-runtime's one worker     *)
(* with its work queue, the informer cache its reads of Machines are       *)
(* served from, and the local variables of the Reconcile it is executing.  *)
(*                                                                         *)
(* Reconcile is a sequence of API calls; pc names the next one and the     *)
(* locals are what the code has read so far.  Everything else of the two   *)
(* clusters may happen between two calls.  A call takes effect and         *)
(* answers, or fails before it takes effect, or takes effect and its       *)
(* answer is lost; the process may be stopped at any point.                *)
(***************************************************************************)
EXTENDS TenantCluster

CONSTANT MaxFaults          \* bound: failed and lost calls, and crashes

VARIABLES cache,            \* key -> the Machine as the informer last delivered it
          queue,            \* keys waiting to be reconciled
          pc,               \* the next call of Reconcile, or "idle"
          key,              \* what is being reconciled
          m,                \* the handler's copy of the Machine
          origin,           \* originMachineCopy, while the Machine is patched
          version,          \* the stored Machine whose resource version the copy has
          vm,               \* the VirtualMachine as last read or written
          faults            \* bound counter
localVars == <<pc, key, m, origin, version, vm>>
workerVars == <<cache, queue, localVars>>
clusterVars == <<infraVars, tenantVars, upsets>>
vars == <<clusterVars, workerVars, faults>>

Labels == {"idle", "addFinalizer", "setDeleting", "drain", "getForDelete", "deleteVM",
           "existsAfterDelete", "deleteNode", "removeFinalizer", "exists",
           "setProvisioning", "getUserData", "createSecret", "createVM",
           "getForUpdate", "updateVM", "getVMI", "patchMachine", "patchStatus",
           "setRunning", "failAnnotation", "failStatus", "reportError"}

ASSUME WorkerAssumption == MaxFaults \in Nat

HandlerTypeOK ==
  /\ cache \in [Machines -> Machine \cup {Absent}]
  /\ queue \subseteq Machines
  /\ pc \in Labels
  /\ key \in Machines \cup {Absent}
  /\ {m, origin, version} \subseteq Machine \cup {Absent}
  /\ vm \in VM \cup {Absent}
  /\ pc = "idle" => key = Absent /\ m = Absent
  /\ pc # "idle" => Absent \notin {key, m, version}
  /\ pc \in {"patchMachine", "patchStatus"} => origin # Absent
  /\ pc \in {"updateVM", "getVMI"} => vm # Absent

WorkerTypeOK == HandlerTypeOK /\ faults \in 0 .. MaxFaults

WorkerInit ==
  /\ cache = machines
  /\ queue = {}
  /\ pc = "idle"
  /\ key = Absent /\ m = Absent /\ origin = Absent /\ version = Absent /\ vm = Absent
  /\ faults = 0

name == NameOf[key]

-----------------------------------------------------------------------------
\* How a call continues: with the next call, perhaps after the answer was
\* decoded into the handler's copy, or out of Reconcile.  Whether it returns an error, Requeue or
\* RequeueAfter only tells when the key comes back.
Goto(label) == pc' = label /\ UNCHANGED <<cache, queue, key, m, origin, version, vm>>
GotoWith(label, answer) ==
  /\ pc' = label
  /\ m' = Decoded(answer, m) /\ version' = answer
  /\ UNCHANGED <<cache, queue, key, origin, vm>>

Done ==
  /\ pc' = "idle"
  /\ key' = Absent /\ m' = Absent /\ origin' = Absent /\ version' = Absent
  /\ vm' = Absent
Return(requeue) ==
  /\ Done
  /\ queue' = IF requeue THEN queue \cup {key} ELSE queue
  /\ UNCHANGED cache

\* The informer lists the Machines and every one is enqueued.
Restart ==
  /\ Done
  /\ cache' = machines
  /\ queue' = {k \in Machines : machines[k] # Absent}

\* Nothing recovers from a panic in Reconcile.
Panic == Restart /\ UNCHANGED <<clusterVars, faults>>

Fault == faults < MaxFaults /\ faults' = faults + 1

\* An error ends the Reconcile and brings the key back.  One of Exists (of a Machine that
\* is not deleted) or of Update is recorded in the status first, with the phase the
\* handler's copy has: a patch that says nothing of the phase, unless the copy has none
\* and the patch makes that an empty one.
Reports == IF m.phase = "" THEN Goto("reportError") ELSE Return(TRUE)

\* An error of the wrapper (no VirtualMachine in vm) is returned only after the Machine is
\* patched.  The copy has not changed, so all that the two patches do is to refresh it.
PatchAfterError ==
  IF m.phase = ""
  THEN /\ pc' = "patchMachine" /\ origin' = m /\ vm' = Absent
       /\ UNCHANGED <<cache, queue, key, m, version>>
  ELSE Return(TRUE)

ReportedCalls == {"exists", "patchMachine", "patchStatus"}
UpdateCalls == {"getForUpdate", "updateVM", "getVMI"}
Fails == CASE pc \in ReportedCalls -> Reports
           [] pc \in UpdateCalls -> PatchAfterError
           [] pc \notin ReportedCalls \cup UpdateCalls -> Return(TRUE)

\* A call answered with an error of the server, and the two ways it can fail outright.
Refused == Fails /\ UNCHANGED <<clusterVars, faults>>
Unsent == Fault /\ Fails /\ UNCHANGED clusterVars
Lost(effect) == Fault /\ effect /\ Fails

\* A call that only reads, one that writes the infra cluster, one that writes
\* the tenant cluster.
Read(then) == \/ then /\ UNCHANGED <<clusterVars, faults>>
              \/ Unsent
WriteInfra(accepted, effect, then) ==
  \/ accepted /\ effect /\ then /\ UNCHANGED <<tenantVars, upsets, faults>>
  \/ accepted /\ Lost(effect) /\ UNCHANGED <<tenantVars, upsets>>
  \/ ~accepted /\ Refused
  \/ Unsent
WriteTenant(accepted, effect, then) ==
  \/ accepted /\ effect /\ then /\ UNCHANGED <<infraVars, upsets, faults>>
  \/ accepted /\ Lost(effect) /\ UNCHANGED <<infraVars, upsets>>
  \/ ~accepted /\ Refused
  \/ Unsent

-----------------------------------------------------------------------------
\* The watch delivers the stored Machine, or its deletion.
Sync(k) ==
  /\ cache[k] # machines[k]
  /\ cache' = [cache EXCEPT ![k] = machines[k]]
  /\ queue' = queue \cup {k}
  /\ UNCHANGED <<clusterVars, localVars, faults>>

\* Mutant: there is no resync.
ResyncNever(k) == FALSE /\ UNCHANGED vars

\* The periodic resync hands the cached Machine out again.
Resync(k) ==
  /\ cache[k] # Absent /\ k \notin queue
  /\ queue' = queue \cup {k}
  /\ UNCHANGED <<clusterVars, cache, localVars, faults>>

Crash ==
  /\ Fault /\ Restart
  /\ UNCHANGED clusterVars
=============================================================================
