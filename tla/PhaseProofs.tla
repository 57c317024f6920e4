----------------------------- MODULE PhaseProofs ----------------------------
(***************************************************************************)
(* The phases: what they promise, and that they are not taken back.  They  *)
(* are computed from a cached Machine that other writes may have overtaken *)
(* and stored by patches, so the argument is about how the copies compare  *)
(* to the stored Machine, whose provider ID and addresses are never lost   *)
(* again.                                                                  *)
(***************************************************************************)
EXTENDS CopiesProofs

HasID(x) == x.providerID # NoProviderID

\* The Machine y has the provider ID and the addresses that x has.
Below(x, y) == (HasID(x) => HasID(y)) /\ (x.addresses => y.addresses)

\* The calls that go by the copy, and the two that patch with it.
HandlesCopy == HandlesLive \ {"patchMachine", "patchStatus", "reportError"}
Patching == {"patchMachine", "patchStatus"}

\* The inductive invariant.  A cached Machine that is live is one the stored Machine has
\* grown from; so is the handler's copy, until SyncMachine adds to it what the patches
\* then store; and Updates of the whole Machine lose no provider ID.
CacheReach == \A k \in Machines : Live(cache[k]) => Below(cache[k], machines[k])
UpdateReach ==
  /\ pc = "addFinalizer" => m = version
  /\ pc \in HandlesDeleted => (HasID(version) => HasID(m))
CopyReach == pc \in HandlesCopy => Below(m, machines[key])
PatchReach ==
  pc \in Patching =>
    /\ Below(origin, machines[key]) /\ Below(origin, m)
    /\ vm # Absent => HasID(m) /\ (vm.ready => m.addresses)
    /\ pc = "patchStatus" /\ HasID(m) => HasID(machines[key])
RunReach == pc = "setRunning" => HasID(m) /\ m.addresses

ReachInv ==
  /\ ProvisionedMeansReachable
  /\ CacheReach /\ UpdateReach /\ CopyReach /\ PatchReach /\ RunReach

\* A Machine changes by a call of the handler that has it, or by a step of its users.
LEMMA WhoStores ==
  ASSUME TypeOK, [Next]_vars, NEW k \in Machines, machines'[k] # machines[k]
  PROVE  (Call /\ k = key) \/ (~Call /\ TenantNext(k))
<1>1. machines \in [Machines -> Machine \cup {Absent}]
  BY DEF TypeOK, TenantTypeOK
<1>2. CASE Call
  BY <1>1, <1>2, CallStores DEF StoredByCall, Stores
<1>3. CASE ~Call
  <2>1. PICK j \in Machines : TenantNext(j)
    BY <1>3
    DEF Next, ControllerNext, Reconcile, Sync, Resync, Crash, InfraNext, BootGuest,
        KubeletWrites, vars, clusterVars, tenantVars
  <2>2. k = j
    BY <1>1, <2>1, TenantStores
  <2> QED  BY <1>3, <2>1, <2>2
<1> QED  BY <1>2, <1>3

\* The cache changes by taking over stored Machines that do not change in that step.
LEMMA CacheSteps ==
  ASSUME TypeOK, [Next]_vars, NEW k \in Machines
  PROVE  cache'[k] = cache[k] \/ (cache'[k] = machines[k] /\ UNCHANGED machines)
<1>1. cache \in [Machines -> Machine \cup {Absent}]
  BY DEF TypeOK, WorkerTypeOK, HandlerTypeOK
<1>2. CASE Call
  BY <1>2, CallContinues DEF Continues, CallEnds, CallGoesOn
<1>3. ASSUME NEW j \in Machines, Reconcile(j) \/ Sync(j) \/ Resync(j)
      PROVE  cache'[k] = cache[k] \/ (cache'[k] = machines[k] /\ UNCHANGED machines)
  BY <1>1, <1>3 DEF Reconcile, Sync, Resync, clusterVars, tenantVars
<1>4. Crash => cache' = machines /\ UNCHANGED machines
  BY DEF Crash, Restart, clusterVars, tenantVars
<1>5. UNCHANGED vars => UNCHANGED cache
  BY DEF vars, workerVars
<1> QED  BY <1>2, <1>3, <1>4, <1>5, EnvironmentFrame DEF Next, ControllerNext

\* What a stored Machine has, it keeps: no patch, Update or user takes a provider ID or the
\* addresses away.
LEMMA MachinesGrow ==
  ASSUME TypeOK, ReachInv, [Next]_vars, NEW k \in Machines,
         Has(machines[k]), Has(machines'[k])
  PROVE  Below(machines[k], machines'[k])
<1>1. machines \in [Machines -> Machine \cup {Absent}] /\ machines[k] \in Machine
  BY DEF TypeOK, TenantTypeOK, Has
<1>2. CASE machines'[k] = machines[k]
  BY <1>2 DEF Below
<1>3. CASE TenantNext(k) /\ machines'[k] # machines[k]
  <2>1. /\ machines'[k].providerID = machines[k].providerID
        /\ machines'[k].addresses = machines[k].addresses
    BY <1>1, <1>3, TenantStores DEF Has
  <2> QED  BY <2>1 DEF Below, HasID
<1>4. CASE Call /\ k = key /\ machines'[k] # machines[k]
  <2>1. pc # "idle" /\ m \in Machine /\ key \in Machines /\ version \in Machine
    BY <1>4, CallFrame, HandlerObjects DEF TypeOK, WorkerTypeOK
  <2>2. ASSUME NEW o, Stores(o)  PROVE machines'[key] = o
    BY <1>1, <2>1, <2>2 DEF Stores
  <2>3. CASE /\ pc \in {"addFinalizer", "removeFinalizer"} /\ machines[key] = version
             /\ Stores(UpdatedMachine(version, [m EXCEPT !.finalizer = (pc = "addFinalizer")]))
    <3> DEFINE a == [m EXCEPT !.finalizer = (pc = "addFinalizer")]
    <3>1. a \in Machine /\ (HasID(version) => HasID(a))
      BY <2>1, <2>3 DEF ReachInv, UpdateReach, HandlesDeleted, Machine, HasID
    <3>2. machines'[key] = UpdatedMachine(version, a)
      BY <2>2, <2>3
    <3> HIDE DEF a
    <3>3. UpdatedMachine(version, a) # Absent => Below(version, UpdatedMachine(version, a))
      BY <2>1, <3>1 DEF UpdatedMachine, Machine, Below, HasID
    <3> QED  BY <1>4, <2>3, <3>2, <3>3 DEF Has
  <2>4. ASSUME NEW p \in Phases, Stores(UpdatedStatus(p))
        PROVE  Below(machines[key], UpdatedStatus(p))
    <3>1. [m EXCEPT !.phase = p].addresses = m.addresses
      BY <2>1 DEF Machine
    <3> QED  BY <1>1, <1>4, <3>1 DEF UpdatedStatus, PatchedStatus, Delta, Machine, Below, HasID
  <2>5. [m EXCEPT !.instanceState = "Unknown"].providerID = m.providerID
    BY <2>1 DEF Machine
  <2>6. Below(machines[key],
              PatchedMachine(m, [m EXCEPT !.instanceState = "Unknown"], machines[key]))
    BY <1>1, <1>4, <2>5 DEF PatchedMachine, Delta, Machine, Below, HasID
  <2>7. ASSUME pc \in Patching
        PROVE  /\ Below(machines[key], PatchedMachine(origin, m, machines[key]))
               /\ Below(machines[key], PatchedStatus(origin, m, machines[key]))
    <3>1. origin \in Machine /\ Below(origin, m)
      BY <2>7 DEF TypeOK, WorkerTypeOK, HandlerTypeOK, ReachInv, PatchReach, Patching
    <3> QED  BY <1>1, <1>4, <2>1, <3>1
             DEF PatchedMachine, PatchedStatus, Delta, Machine, Below, HasID
  <2> QED  BY <1>4, <2>2, <2>3, <2>4, <2>6, <2>7, CallStores DEF StoredByCall, Patching
<1> QED  BY <1>2, <1>3, <1>4, WhoStores

\* A handler of a live Machine has it stored before and after, and it has grown.
LEMMA HandledGrows ==
  ASSUME TypeOK, FinalizerInv, ReachInv, [Next]_vars,
         pc \in HandlesLive, pc' \in HandlesLive, key' = key
  PROVE  Below(machines[key], machines'[key]) /\ machines'[key] \in Machine
<1>1. FinalizerInv' /\ TypeOK'
  BY FinalizerStep, TypeStep
<1>2. key \in Machines
  BY HandlerObjects DEF TypeOK, WorkerTypeOK, HandlesLive
<1>3. Has(machines[key]) /\ Has(machines'[key])
  BY <1>1 DEF FinalizerInv, HandlerIsRight, HasFinalizer, Has
<1> QED  BY <1>1, <1>2, <1>3, MachinesGrow DEF TypeOK, TenantTypeOK, Has

\* A copy with the answer decoded into it has what either of the two has.
LEMMA DecodedGrows ==
  ASSUME NEW x \in Machine, NEW s \in Machine
  PROVE  /\ Below(x, Decoded(s, x)) /\ Below(s, Decoded(s, x))
         /\ HasID(Decoded(s, x)) => HasID(x) \/ HasID(s)
         /\ Decoded(s, x).addresses => x.addresses \/ s.addresses
         /\ HasID(WithStatus(Decoded(s, x), x)) <=> HasID(Decoded(s, x))
         /\ WithStatus(Decoded(s, x), x).addresses = x.addresses
<1>1. Decoded(s, x) \in Machine
  BY DecodedType
<1>2. /\ WithStatus(Decoded(s, x), x).providerID = Decoded(s, x).providerID
      /\ WithStatus(Decoded(s, x), x).addresses = x.addresses
  BY <1>1 DEF WithStatus, Machine
<1> QED  BY <1>2 DEF Decoded, Kept, Below, HasID

\* A patch that is answered was stored.
LEMMA PatchStores ==
  ASSUME TypeOK, Call
  PROVE  /\ pc' = "patchStatus" => machines'[key] = PatchedMachine(origin, m, machines[key])
         /\ pc' = "setRunning" => machines'[key] = PatchedStatus(origin, m, machines[key])
<1>1. machines \in [Machines -> Machine \cup {Absent}] /\ key \in Machines
  BY CallFrame, HandlerObjects DEF TypeOK, TenantTypeOK, WorkerTypeOK
<1>2. Fails => pc' \notin {"patchStatus", "setRunning"}
  BY DEF Fails, Reports, PatchAfterError, Goto, Return, Done
<1>3. Refused \/ Unsent => pc' \notin {"patchStatus", "setRunning"}
  BY <1>2 DEF Refused, Unsent
<1>4. ASSUME NEW o, StoreMachine(key, o)  PROVE machines'[key] = o
  BY <1>1, <1>4 DEF StoreMachine
<1>5. CASE pc' = "patchStatus"
  <2>1. pc = "patchMachine"
    BY <1>5, CallContinues DEF Continues, CallEnds, Arrival, HalfPatched
  <2>2. patchMachine
    BY <2>1 DEF Call, addFinalizer, setDeleting, drain, getForDelete, deleteVM,
       existsAfterDelete, deleteNode, removeFinalizer, exists, setProvisioning, getUserData,
       createSecret, createVM, getForUpdate, updateVM, getVMI, patchStatus, setRunning,
       failAnnotation, failStatus, reportError
  <2>3. StoreMachine(key, PatchedMachine(origin, m, machines[key]))
    BY <1>2, <1>3, <1>5, <2>2 DEF patchMachine, WriteTenant, Lost
  <2> QED  BY <1>4, <1>5, <2>3
<1>6. CASE pc' = "setRunning"
  <2>1. pc = "patchStatus"
    BY <1>6, CallContinues DEF Continues, CallEnds, Arrival
  <2>2. patchStatus
    BY <2>1 DEF Call, addFinalizer, setDeleting, drain, getForDelete, deleteVM,
       existsAfterDelete, deleteNode, removeFinalizer, exists, setProvisioning, getUserData,
       createSecret, createVM, getForUpdate, updateVM, getVMI, patchMachine, setRunning,
       failAnnotation, failStatus, reportError
  <2>3. StoreMachine(key, PatchedStatus(origin, m, machines[key]))
    BY <1>2, <1>3, <1>6, <2>2 DEF patchStatus, WriteTenant, Lost
  <2> QED  BY <1>4, <1>6, <2>3
<1> QED  BY <1>5, <1>6

\* The handler's part of the invariant, for a call that goes on.
LEMMA ReachCall ==
  ASSUME TypeOK, FinalizerInv, ReachInv, Call, CallGoesOn, Arrival
  PROVE  (UpdateReach /\ CopyReach /\ PatchReach /\ RunReach)'
<1>1. /\ pc # "idle" /\ key \in Machines /\ name \in Names /\ m \in Machine
      /\ version \in Machine /\ key' = key /\ pc' # "idle" /\ [Next]_vars
      /\ machines \in [Machines -> Machine \cup {Absent}]
      /\ pc \in Patching => origin \in Machine
  BY CallFrame, HandlerObjects
  DEF TypeOK, TenantTypeOK, WorkerTypeOK, HandlerTypeOK, CallGoesOn, Next, ControllerNext,
      Patching
<1>2. ASSUME NEW x, pc \in HandlesLive, pc' \in HandlesLive, Below(x, machines[key])
      PROVE  Below(x, machines'[key])
  BY <1>1, <1>2, HandledGrows DEF Below
<1>3. UpdateReach'
  <2>1. pc' # "addFinalizer"
    BY DEF Arrival
  <2>2. ASSUME pc' \in HandlesDeleted  PROVE HasID(version') => HasID(m')
    <3>1. pc \in HandlesDeleted /\ (Unread \/ Answered)
      BY <2>2 DEF Arrival, HandlesDeleted, CallGoesOn, HalfPatched, Synced
    <3>2. CASE Unread
      BY <3>1, <3>2 DEF Unread, ReachInv, UpdateReach
    <3>3. CASE Answered
      BY <1>1, <3>3, DecodedGrows DEF Answered, Below
    <3> QED  BY <3>1, <3>2, <3>3
  <2> QED  BY <2>1, <2>2 DEF UpdateReach
<1>4. ASSUME pc' \in HandlesCopy \ {"setRunning"}
      PROVE  Below(m', machines'[key])
  <2>1. /\ pc \in HandlesCopy /\ pc \in HandlesLive /\ pc' \in HandlesLive
        /\ Unread \/ (Answered /\ pc = "failAnnotation")
    BY <1>4 DEF Arrival, HandlesCopy, HandlesLive
  <2>2. Below(m, machines'[key])
    BY <1>2, <2>1 DEF ReachInv, CopyReach
  <2>3. CASE Unread
    BY <2>2, <2>3 DEF Unread
  <2>4. CASE Answered
    BY <1>1, <2>2, <2>4, DecodedGrows DEF Answered, Below
  <2> QED  BY <2>1, <2>3, <2>4
<1>5. ASSUME pc' = "patchMachine"  PROVE PatchReach'
  <2>1. CASE Synced
    <3>1. PICK v \in VM, b \in BOOLEAN : (b \/ ~v.ready) /\ FinishSync(v, b)
      BY <2>1 DEF Synced
    <3>2. pc \in HandlesCopy /\ pc \in HandlesLive
      BY <2>1 DEF Synced, createVM, HandlesCopy, HandlesLive
    <3>3. /\ m'.providerID = FormatProviderID(InfraNamespace, name)
          /\ m'.addresses = (b \/ m.addresses)
          /\ origin' = m /\ vm' = v
      BY <1>1, <3>1 DEF FinishSync, SyncMachine, Machine
    <3>4. HasID(m')
      BY <3>3 DEF HasID, FormatProviderID, NoProviderID
    <3>5. Below(m, machines'[key])
      BY <1>2, <1>5, <3>2 DEF ReachInv, CopyReach, HandlesLive
    <3>6. Below(m, m') /\ (v.ready => m'.addresses)
      BY <3>1, <3>3, <3>4 DEF Below
    <3> QED  BY <1>1, <1>5, <3>3, <3>4, <3>5, <3>6 DEF PatchReach
  <2>2. CASE pc \in UpdateCalls /\ Unread /\ origin' = m /\ vm' = Absent
    <3>1. pc \in HandlesCopy /\ pc \in HandlesLive
      BY <2>2 DEF UpdateCalls, HandlesCopy, HandlesLive
    <3>2. Below(m, machines'[key])
      BY <1>2, <1>5, <3>1 DEF ReachInv, CopyReach, HandlesLive
    <3> QED  BY <1>1, <1>5, <2>2, <3>2 DEF PatchReach, Unread, Below
  <2> QED  BY <1>5, <2>1, <2>2 DEF Arrival
<1>6. ASSUME pc' = "patchStatus"  PROVE PatchReach'
  <2>1. HalfPatched /\ pc = "patchMachine"
    BY <1>6 DEF Arrival, HalfPatched
  <2>2. /\ Below(origin, machines[key]) /\ Below(origin, m)
        /\ vm # Absent => HasID(m) /\ (vm.ready => m.addresses)
    BY <2>1 DEF ReachInv, PatchReach, Patching
  <2>3. Below(origin, machines'[key])
    BY <1>2, <1>6, <2>1, <2>2 DEF HandlesLive
  <2>4. machines[key] \in Machine
    BY <1>1, <2>1 DEF FinalizerInv, HandlerIsRight, HandlesLive, HasFinalizer, Has
  <2>5. HasID(m) => HasID(machines'[key])
    <3>1. machines'[key] = PatchedMachine(origin, m, machines[key])
      BY <1>6, PatchStores
    <3> QED  BY <1>1, <2>1, <2>2, <2>4, <3>1
             DEF PatchedMachine, Delta, Machine, Below, HasID, Patching
  <2>6. /\ HasID(m) => HasID(m')
        /\ HasID(m') => HasID(m) \/ HasID(machines'[key])
        /\ m'.addresses = m.addresses
    BY <1>1, <2>1, DecodedGrows DEF HalfPatched, Below
  <2> QED  BY <1>1, <1>6, <2>1, <2>2, <2>3, <2>5, <2>6 DEF HalfPatched, PatchReach, Below
<1>7. ASSUME pc' = "setRunning"
      PROVE  HasID(m') /\ m'.addresses /\ Below(m', machines'[key])
  <2>1. pc = "patchStatus" /\ vm # Absent /\ vm.ready /\ Answered
    BY <1>7 DEF Arrival
  <2>2. /\ Below(origin, machines[key]) /\ Below(origin, m)
        /\ HasID(m) /\ m.addresses /\ HasID(machines[key])
    BY <2>1 DEF ReachInv, PatchReach, Patching
  <2>3. machines[key] \in Machine
    BY <1>1, <2>1 DEF FinalizerInv, HandlerIsRight, HandlesLive, HasFinalizer, Has
  <2>4. HasID(machines'[key]) /\ machines'[key].addresses
    <3>1. machines'[key] = PatchedStatus(origin, m, machines[key])
      BY <1>7, PatchStores
    <3> QED  BY <1>1, <2>1, <2>2, <2>3, <3>1
             DEF PatchedStatus, Delta, Machine, Below, HasID, Patching
  <2>5. Below(m, m')
    BY <1>1, <2>1, DecodedGrows DEF Answered
  <2> QED  BY <2>2, <2>4, <2>5 DEF Below
<1>8. CopyReach' /\ RunReach'
  BY <1>1, <1>4, <1>7 DEF CopyReach, RunReach
<1>9. PatchReach'
  BY <1>5, <1>6 DEF PatchReach, Patching
<1> QED  BY <1>3, <1>8, <1>9

\* Every step keeps the invariant.
LEMMA ReachStep ==
  ASSUME TypeOK, FinalizerInv, PatchInv, ReachInv, [Next]_vars
  PROVE  ReachInv'
<1>1. TypeOK' /\ FinalizerInv'
  BY TypeStep, FinalizerStep
<1>2. /\ machines \in [Machines -> Machine \cup {Absent}]
      /\ machines' \in [Machines -> Machine \cup {Absent}]
      /\ Absent \notin Machine
  BY <1>1, TenantAssumption DEF TypeOK, TenantTypeOK
<1>3. ASSUME NEW k \in Machines, Has(machines'[k]),
             machines'[k].phase \in {"Provisioned", "Running"}
      PROVE  HasID(machines'[k]) /\ machines'[k].addresses
  <2>1. CASE Has(machines[k]) /\ machines[k].phase = machines'[k].phase
    BY <1>3, <2>1, MachinesGrow DEF ReachInv, ProvisionedMeansReachable, Below, HasID
  <2>2. CASE TenantNext(k) /\ machines'[k] # machines[k]
    <3>1. Has(machines[k]) /\ machines[k].phase = machines'[k].phase
      BY <1>2, <1>3, <2>2, TenantStores DEF Has
    <3> QED  BY <2>1, <3>1
  <2>3. CASE Call /\ k = key /\ machines'[k] # machines[k]
    <3>1. machines[key] \in Machine
          /\ (machines'[key].phase = machines[key].phase \/ Writes(machines'[key].phase))
      BY <1>2, <1>3, <2>3, StoredPhase DEF Stores, Has
    <3>2. CASE Writes(machines'[key].phase)
      <4>1. pc = "setRunning"
        BY <1>3, <2>3, <3>2 DEF Writes
      <4>2. HasID(machines[key]) /\ machines[key].addresses
        BY <4>1 DEF ReachInv, RunReach, CopyReach, HandlesCopy, HandlesLive, Below
      <4> QED  BY <1>2, <1>3, <2>3, <3>1, <4>2, MachinesGrow DEF Below, Has
    <3> QED  BY <1>2, <2>1, <2>3, <3>1, <3>2 DEF Has
  <2> QED  BY <1>3, <2>1, <2>2, <2>3, WhoStores
<1>4. CacheReach'
  <2> SUFFICES ASSUME NEW k \in Machines, Live(cache'[k])
               PROVE  Below(cache'[k], machines'[k])
    BY DEF CacheReach
  <2>1. CASE cache'[k] = cache[k]
    <3>1. Has(machines[k]) /\ Has(machines'[k])
      BY <1>1, <2>1 DEF FinalizerInv, CachedLive, HasFinalizer
    <3> QED  BY <2>1, <3>1, MachinesGrow DEF ReachInv, CacheReach, Below
  <2>2. CASE cache'[k] = machines[k] /\ UNCHANGED machines
    BY <2>2 DEF Below
  <2> QED  BY <2>1, <2>2, CacheSteps
<1>5. (UpdateReach /\ CopyReach /\ PatchReach /\ RunReach)'
  <2>1. CASE pc' = "idle"
    BY <2>1 DEF UpdateReach, CopyReach, PatchReach, RunReach, HandlesCopy, HandlesLive,
       HandlesDeleted, Patching
  <2>2. CASE Call /\ pc' # "idle"
    BY <2>2, CallContinues, ReachCall DEF Continues, CallEnds
  <2>3. CASE UNCHANGED <<pc, key, m, origin, version, vm>>
    <3>1. pc \in HandlesLive => Below(machines[key], machines'[key])
      BY <2>3, HandledGrows
    <3>2. UpdateReach' /\ RunReach'
      BY <2>3 DEF ReachInv, UpdateReach, RunReach
    <3>3. CopyReach'
      BY <2>3, <3>1 DEF ReachInv, CopyReach, HandlesCopy, Below
    <3>4. PatchReach'
      BY <2>3, <3>1 DEF ReachInv, PatchReach, Patching, HandlesLive, Below
    <3> QED  BY <3>2, <3>3, <3>4
  <2>4. CASE /\ pc' \in {"setDeleting", "addFinalizer", "exists"} /\ UNCHANGED machines
             /\ \E k \in Machines : /\ key' = k /\ m' = cache[k] /\ version' = cache[k]
                                    /\ pc' = "exists" => Live(cache[k])
    BY <2>4
    DEF ReachInv, CacheReach, UpdateReach, CopyReach, PatchReach, RunReach, HandlesCopy,
        HandlesLive, HandlesDeleted, Patching
  <2> QED  BY <2>1, <2>2, <2>3, <2>4, HandlerWaits
<1> QED  BY <1>3, <1>4, <1>5 DEF ReachInv, ProvisionedMeansReachable, HasID

\* It holds initially, and in every reachable state.
LEMMA ReachInvariant == Spec => []ReachInv
<1>1. Init => ReachInv
  BY DEF Init, TenantInit, WorkerInit, ReachInv, ProvisionedMeansReachable, CacheReach,
     UpdateReach, CopyReach, PatchReach, RunReach, HandlesCopy, HandlesLive, HandlesDeleted,
     Patching, Live, HasFinalizer, Has
<1>2. TypeOK /\ FinalizerInv /\ PatchInv /\ ReachInv /\ [Next]_vars => ReachInv'
  BY ReachStep
<1> QED
  BY <1>1, <1>2, TypeCorrect, FinalizerInvariant, PatchInvariant, PTL DEF Spec

\* A Machine in phase Provisioned or Running has its provider ID and addresses stored
\* (controller.go:82-90): the two patches of Update (actuator.go:172-238) come before the
\* phase, which is written from a copy, and nothing that is written later takes them back.
THEOREM ProvisionedAreReachable == Spec => []ProvisionedMeansReachable
<1>1. ReachInv => ProvisionedMeansReachable
  BY DEF ReachInv
<1> QED  BY <1>1, ReachInvariant, PTL

-----------------------------------------------------------------------------
(* What a handler that deletes has read, and what has no finalizer. *)

NoVMYet ==
  \A k \in Machines :
    Has(machines[k]) /\ ~machines[k].finalizer => ~machineIsProvisioned(machines[k])
DeletionRead == pc \in HandlesDeleted => m.deleted
MarksInv == NoVMYet /\ DeletionRead

\* What is there after a step of the users is new and has nothing in it, or was there, with
\* what the controller writes as it was.
LEMMA TenantKeeps ==
  ASSUME TypeOK, NEW k \in Machines, TenantNext(k), Has(machines'[k])
  PROVE  \/ /\ ~Has(machines[k]) /\ ~machines'[k].finalizer /\ machines'[k].phase = ""
            /\ ~machineIsProvisioned(machines'[k])
         \/ /\ Has(machines[k]) /\ (machines[k].deleted => machines'[k].deleted)
            /\ machines'[k].finalizer = machines[k].finalizer
            /\ machines'[k].phase = machines[k].phase
            /\ machineIsProvisioned(machines'[k]) => machineIsProvisioned(machines[k])
<1>1. machines \in [Machines -> Machine \cup {Absent}] /\ Absent \notin Machine
  BY TenantAssumption DEF TypeOK, TenantTypeOK
<1>2. ASSUME NEW o  PROVE machines' = [machines EXCEPT ![k] = o] => machines'[k] = o
  BY <1>1
<1>3. CASE UNCHANGED machines
  BY <1>3
<1>4. CASE machines' = [machines EXCEPT ![k] = Absent]
  BY <1>2, <1>4 DEF Has
<1> QED  BY <1>1, <1>2, <1>3, <1>4, TenantStores, ZenonT(60) DEF Has, machineIsProvisioned

\* What changes of a stored Machine: it keeps its finalizer as long as it is there; it is
\* revived by nobody, and made live only by addFinalizer; and whatever says that it was
\* given a VirtualMachine was stored before, or is the handler's copy.
LEMMA StoredMarks ==
  ASSUME TypeOK, FinalizerInv, ReachInv, DeletionRead, [Next]_vars, NEW k \in Machines,
         Has(machines'[k])
  PROVE  /\ HasFinalizer(machines[k]) => machines'[k].finalizer
         /\ Live(machines'[k]) =>
              \/ Live(machines[k])
              \/ pc = "addFinalizer" /\ Has(machines[k]) /\ ~machines[k].finalizer
         /\ machineIsProvisioned(machines'[k]) =>
              \/ Has(machines[k]) /\ machineIsProvisioned(machines[k])
              \/ pc \in HandlesLive /\ k = key /\ machineIsProvisioned(m)
<1>1. /\ machines \in [Machines -> Machine \cup {Absent}] /\ Absent \notin Machine
  BY TenantAssumption DEF TypeOK, TenantTypeOK
<1>2. CASE machines'[k] = machines[k]
  BY <1>2 DEF HasFinalizer
<1>3. CASE TenantNext(k) /\ machines'[k] # machines[k]
  BY <1>3, TenantKeeps DEF HasFinalizer, Live
<1>4. CASE Call /\ k = key /\ machines'[k] # machines[k]
  <2>1. pc # "idle" /\ m \in Machine /\ key \in Machines /\ version \in Machine
    BY <1>4, CallFrame, HandlerObjects DEF TypeOK, WorkerTypeOK
  <2>2. ASSUME NEW o, Stores(o)  PROVE machines'[key] = o
    BY <1>1, <2>1, <2>2 DEF Stores
  <2>3. CASE /\ pc \in {"addFinalizer", "removeFinalizer"} /\ machines[key] = version
             /\ m.deleted => version.deleted
             /\ Stores(UpdatedMachine(version, [m EXCEPT !.finalizer = (pc = "addFinalizer")]))
    <3> DEFINE a == [m EXCEPT !.finalizer = (pc = "addFinalizer")]
    <3>1. /\ a \in Machine /\ a.finalizer = (pc = "addFinalizer")
          /\ a.providerID = m.providerID
      BY <2>1 DEF Machine
    <3>2. machines'[key] = UpdatedMachine(version, a)
      BY <2>2, <2>3
    <3> HIDE DEF a
    <3>3. CASE pc = "removeFinalizer"
      <4>1. version.deleted /\ ~a.finalizer
        BY <2>3, <3>1, <3>3 DEF DeletionRead, HandlesDeleted
      <4> QED  BY <1>4, <3>2, <4>1 DEF UpdatedMachine, Has
    <3>4. CASE pc = "addFinalizer"
      <4>1. m = version /\ a.finalizer
        BY <3>1, <3>4 DEF ReachInv, UpdateReach
      <4>2. /\ machines'[key].finalizer
            /\ machines'[key].deleted = machines[key].deleted
            /\ machines'[key].providerID = machines[key].providerID
            /\ machines'[key].addresses = machines[key].addresses
        BY <2>1, <2>3, <3>1, <3>2, <4>1 DEF UpdatedMachine, Machine
      <4> QED  BY <1>1, <1>4, <2>1, <2>3, <3>4, <4>2
               DEF Has, HasFinalizer, Live, machineIsProvisioned
    <3> QED  BY <2>3, <3>3, <3>4
  <2>4. CASE pc \notin {"addFinalizer", "removeFinalizer"}
    <3>1. SameMarks
      <4>1. CASE pc = "createVM"
        <5>1. createVM
          BY <1>4, <4>1 DEF Call, addFinalizer, setDeleting, drain, getForDelete, deleteVM,
             existsAfterDelete, deleteNode, removeFinalizer, exists, setProvisioning,
             getUserData, createSecret, getForUpdate, updateVM, getVMI, patchMachine,
             patchStatus, setRunning, failAnnotation, failStatus, reportError
        <5> QED  BY <5>1, CreateVMCases DEF SameMarks
      <4>2. CASE pc # "createVM"
        BY <1>4, <2>4, <4>2, QuietCalls DEF Quiet
      <4> QED  BY <4>1, <4>2
    <3>2. /\ HasFinalizer(machines[k]) => machines'[k].finalizer
          /\ Live(machines'[k]) => Live(machines[k])
      BY <3>1 DEF SameMarks, Live, HasFinalizer, Deleted
    <3>3. machines[key] \in Machine
      BY <1>4, <2>1, <2>4, CallStores DEF StoredByCall
    <3>4. ASSUME NEW p \in Phases
          PROVE  machineIsProvisioned(UpdatedStatus(p)) => machineIsProvisioned(machines[key])
      <4>1. [m EXCEPT !.phase = p].addresses = m.addresses
        BY <2>1 DEF Machine
      <4> QED  BY <3>3, <4>1 DEF UpdatedStatus, PatchedStatus, Delta, Machine,
                  machineIsProvisioned
    <3>5. ASSUME pc = "failAnnotation"
          PROVE  LET failed == [m EXCEPT !.instanceState = "Unknown"]
                 IN  From(PatchedMachine(m, failed, machines[key]), m, machines[key])
      <4> DEFINE failed == [m EXCEPT !.instanceState = "Unknown"]
      <4>1. /\ failed \in Machine /\ failed.nodeRef = m.nodeRef
            /\ machineIsProvisioned(failed) = machineIsProvisioned(m)
        BY <2>1 DEF Machine, InstanceStates, machineIsProvisioned
      <4> HIDE DEF failed
      <4>2. From(PatchedMachine(m, failed, machines[key]), failed, machines[key])
        BY <2>1, <3>3, <4>1, PutTogether
      <4> QED  BY <4>1, <4>2 DEF From, failed
    <3>6. ASSUME pc \in Patching
          PROVE  /\ From(PatchedMachine(origin, m, machines[key]), m, machines[key])
                 /\ From(PatchedStatus(origin, m, machines[key]), m, machines[key])
                 /\ pc \in HandlesLive
      <4>1. origin \in Machine
        BY <3>6 DEF TypeOK, WorkerTypeOK, HandlerTypeOK, Patching
      <4> QED  BY <2>1, <3>3, <3>6, <4>1, PutTogether DEF Patching, HandlesLive
    <3>7. machineIsProvisioned(machines'[k]) =>
            \/ machineIsProvisioned(machines[k])
            \/ pc \in HandlesLive /\ machineIsProvisioned(m)
      BY <1>4, <2>2, <2>4, <3>4, <3>5, <3>6, CallStores DEF StoredByCall, From, Patching,
         HandlesLive
    <3> QED  BY <1>1, <1>4, <3>2, <3>3, <3>7 DEF Has
  <2>5. ~UNCHANGED machines
    BY <1>4
  <2> QED  BY <1>4, <2>3, <2>4, <2>5, CallStores DEF StoredByCall, Writes
<1> QED  BY <1>2, <1>3, <1>4, WhoStores

\* Every step keeps the invariant.
LEMMA MarksStep ==
  ASSUME TypeOK, FinalizerInv, ReachInv, MarksInv, [Next]_vars
  PROVE  MarksInv'
<1>1. ASSUME NEW k \in Machines, Has(machines'[k]), machineIsProvisioned(machines'[k])
      PROVE  machines'[k].finalizer
  BY <1>1, StoredMarks DEF MarksInv, NoVMYet, HasFinalizer, FinalizerInv, HandlerIsRight
<1>2. ASSUME pc' \in HandlesDeleted  PROVE m'.deleted
  <2>1. CASE Call
    <3>1. pc \in HandlesDeleted /\ (Unread \/ Answered)
      BY <1>2, <2>1, CallContinues
      DEF Continues, CallEnds, Arrival, HandlesDeleted, CallGoesOn, HalfPatched, Synced
    <3>2. m.deleted
      BY <3>1 DEF MarksInv, DeletionRead
    <3>3. CASE Unread
      BY <3>2, <3>3 DEF Unread
    <3>4. CASE Answered
      <4>1. m' = Decoded(machines'[key], m)
        BY <3>4 DEF Answered
      <4> QED  BY <3>2, <4>1 DEF Decoded
    <3> QED  BY <3>1, <3>3, <3>4
  <2>2. CASE ~Call
    BY <1>2, <2>2, HandlerWaits DEF HandlesDeleted, MarksInv, DeletionRead
  <2> QED  BY <2>1, <2>2
<1> QED  BY <1>1, <1>2 DEF MarksInv, NoVMYet, DeletionRead

\* It holds initially, and in every reachable state.
LEMMA MarksInvariant == Spec => []MarksInv
<1>1. Init => MarksInv
  BY DEF Init, TenantInit, WorkerInit, MarksInv, NoVMYet, DeletionRead, HandlesDeleted, Has
<1>2. TypeOK /\ FinalizerInv /\ ReachInv /\ MarksInv /\ [Next]_vars => MarksInv'
  BY MarksStep
<1> QED
  BY <1>1, <1>2, TypeCorrect, FinalizerInvariant, ReachInvariant, PTL DEF Spec

-----------------------------------------------------------------------------
(* Failed only from outside. *)

\* Nobody but the provider deletes VirtualMachines, and no two Machines share a name.
NoneDropped == "VM dropped" \notin UpsetKinds \/ MaxUpsets = 0
NamesOfTheirOwn == \A j, k \in Machines : NameOf[j] = NameOf[k] => j = k

SafeVM(n) == vms[n] # Absent /\ ~vms[n].terminating
IntactVM(n) == vms[n] # Absent => ~vms[n].terminating

\* A Machine that is live in the store, in the cache or for the handler: its VirtualMachine
\* is not being deleted.
Awake(k) == Live(machines[k]) \/ Live(cache[k]) \/ (pc \in HandlesLive /\ key = k)

\* The inductive invariant: what is awake and was given a VirtualMachine, by whichever copy,
\* has it, and no handler is on its way to phase Failed.
AwakeVMs ==
  \A k \in Machines : Awake(k) =>
    /\ IntactVM(NameOf[k])
    /\ Has(machines[k]) /\ machineIsProvisioned(machines[k]) => SafeVM(NameOf[k])
    /\ Live(cache[k]) /\ machineIsProvisioned(cache[k]) => SafeVM(NameOf[k])
HandlerVMs ==
  /\ pc \in HandlesLive /\ machineIsProvisioned(m) => SafeVM(name)
  /\ pc = "updateVM" => ~vm.terminating
  /\ pc = "getVMI" => SafeVM(name)
  /\ pc \notin {"failAnnotation", "failStatus"}
OutsideInv == FailedOnlyFromOutside /\ AwakeVMs /\ HandlerVMs

\* A Create or an Update that succeeds leaves a VirtualMachine that is not being deleted.
LEMMA WrittenVM ==
  ASSUME TypeOK, createVM \/ (updateVM /\ ~vm.terminating), vm' # Absent
  PROVE  vms'[name] # Absent /\ ~vms'[name].terminating
<1>1. /\ vms \in [Names -> VM \cup {Absent}] /\ Absent \notin VM
      /\ name \in Names /\ m \in Machine /\ m.config \in Config
      /\ m.instanceState \in InstanceStates
  BY HandlerObjects, InfraAssumption
  DEF createVM, updateVM, TypeOK, InfraTypeOK, WorkerTypeOK, Machine
<1>2. ASSUME NEW r, Return(r)  PROVE FALSE
  BY <1>2 DEF Return, Done
<1>3. ~Fails
  BY <1>2 DEF Fails, ReportedCalls, UpdateCalls, PatchAfterError, createVM, updateVM
<1>4. ~Refused /\ ~Unsent /\ ~Panic
  BY <1>3 DEF Refused, Unsent, Panic, Restart, Done
<1>5. CASE createVM
  <2> DEFINE v == NewVM(CreateVirtualMachineFromMachine(m.config), m.instanceState)
  <2>1. v \in VM /\ ~v.terminating
    BY <1>1, VMSpecType DEF NewVM, VM
  <2>2. ~CreateFails(WrapError("invalid"))
    BY <1>2 DEF CreateFails, isInvalidMachineConfigurationError, HandleMachineError
  <2>3. CreateVirtualMachine(name, v)
    BY <1>3, <1>4, <1>5, <2>2 DEF createVM, WriteInfra, Lost
  <2> HIDE DEF v
  <2> QED  BY <1>1, <2>1, <2>3 DEF CreateVirtualMachine
<1>6. CASE updateVM /\ ~vm.terminating
  <2> DEFINE v == UpdatedVM(vm, CreateVirtualMachineFromMachine(m.config), m.instanceState)
  <2>1. vm \in VM
    BY <1>6 DEF updateVM, TypeOK, WorkerTypeOK, HandlerTypeOK
  <2>2. v \in VM /\ ~v.terminating
    BY <1>1, <1>6, <2>1, VMSpecType DEF UpdatedVM, VM
  <2>3. UpdateVirtualMachine(name, v)
    BY <1>3, <1>4, <1>6 DEF updateVM, WriteInfra, Lost
  <2> HIDE DEF v
  <2> QED  BY <1>1, <2>2, <2>3 DEF UpdateVirtualMachine
<1> QED  BY <1>5, <1>6

\* Only deleteVM takes a VirtualMachine that is not being deleted, or starts to.
LEMMA VMsStay ==
  ASSUME NoneDropped, TypeOK, HandlerVMs, [Next]_vars, NEW n \in Names,
         ~(deleteVM /\ n = name)
  PROVE  /\ SafeVM(n) => vms'[n] # Absent /\ ~vms'[n].terminating
         /\ IntactVM(n) => (vms'[n] # Absent => ~vms'[n].terminating)
<1> USE DEF SafeVM, IntactVM
<1>1. vms \in [Names -> VM \cup {Absent}] /\ Absent \notin VM
  BY InfraAssumption DEF TypeOK, InfraTypeOK
<1>2. CASE vms'[n] = vms[n]
  BY <1>2
<1>3. CASE createVM
  <2>1. CASE UNCHANGED vms
    BY <2>1
  <2>2. CASE ~UNCHANGED vms
    <3> DEFINE v == NewVM(CreateVirtualMachineFromMachine(m.config), m.instanceState)
    <3>1. ~v.terminating /\ vms[name] = Absent /\ vms' = [vms EXCEPT ![name] = v]
      BY <1>3, <2>2 DEF createVM, WriteInfra, Lost, CreateVirtualMachine,
         CreateVirtualMachineAccepted, Refused, Unsent, Panic, clusterVars, infraVars, NewVM
    <3> HIDE DEF v
    <3> QED  BY <1>1, <1>3, <3>1, CreateVMCases
  <2> QED  BY <2>1, <2>2
<1>4. CASE updateVM
  <2>1. CASE UNCHANGED vms
    BY <2>1
  <2>2. CASE ~UNCHANGED vms
    <3> DEFINE v == UpdatedVM(vm, CreateVirtualMachineFromMachine(m.config), m.instanceState)
    <3>1. vm \in VM /\ ~vm.terminating /\ name \in Names /\ m \in Machine
      BY <1>4, HandlerObjects
      DEF updateVM, HandlerVMs, TypeOK, WorkerTypeOK, HandlerTypeOK
    <3>2. v \in VM /\ ~v.terminating
      <4>1. m.config \in Config /\ m.instanceState \in InstanceStates
        BY <3>1 DEF Machine
      <4> QED  BY <3>1, <4>1, VMSpecType DEF UpdatedVM, VM
    <3>3. UpdateVirtualMachine(name, v)
      BY <1>4, <2>2 DEF updateVM, WriteInfra, Lost, Refused, Unsent, clusterVars, infraVars
    <3> HIDE DEF v
    <3> QED  BY <1>1, <3>1, <3>2, <3>3 DEF UpdateVirtualMachine
  <2> QED  BY <2>1, <2>2
<1>5. CASE deleteVM
  BY <1>2, <1>5, TakesVMs
<1>6. CASE Call
  BY <1>2, <1>3, <1>4, <1>5, <1>6, CallFrame, CreateSecretCases
<1>7. ASSUME NEW j \in Names, InfraNext(j)
      PROVE  /\ SafeVM(n) => vms'[n] # Absent /\ ~vms'[n].terminating
             /\ IntactVM(n) => (vms'[n] # Absent => ~vms'[n].terminating)
  <2>1. ~DropVM(j)
    <3>1. upsets \in 0 .. MaxUpsets /\ MaxUpsets \in Nat
      BY InfraAssumption DEF TypeOK, InfraTypeOK
    <3>2. MaxUpsets = 0 => ~(upsets < MaxUpsets)
      BY <3>1
    <3> QED  BY <3>2 DEF DropVM, Upset, NoneDropped
  <2>2. CASE UNCHANGED vms
    BY <2>2
  <2>3. CASE SyncVMStatus(j)
    <3>1. j # n => vms'[n] = vms[n]
      BY <1>1, <2>3 DEF SyncVMStatus
    <3>2. j = n => vms[n] # Absent /\ vms'[n] # Absent
                   /\ vms'[n].terminating = vms[n].terminating
      <4> DEFINE v(b, c) == [vms[n] EXCEPT !.created = b, !.ready = c]
      <4>1. ASSUME NEW b \in BOOLEAN, NEW c \in BOOLEAN, vms[n] \in VM
            PROVE  v(b, c) \in VM /\ v(b, c).terminating = vms[n].terminating
        BY <4>1 DEF VM
      <4> HIDE DEF v
      <4>2. ASSUME j = n
            PROVE  /\ vms[n] \in VM
                   /\ vms'[n] = v(vmis[n] # "none", vmis[n] = "ready")
        BY <1>1, <2>3, <4>2 DEF SyncVMStatus, v
      <4> QED  BY <1>1, <4>1, <4>2
    <3> QED  BY <3>1, <3>2
  <2>4. CASE FinishVM(j)
    BY <1>1, <2>4 DEF FinishVM
  <2> QED  BY <1>7, <2>1, <2>2, <2>3, <2>4
           DEF InfraNext, KubeVirt, StartVMI, StopVMI, FailVMI, BootGuest, KubeletWrites,
               infraVars
<1>8. ASSUME NEW k \in Machines, TenantNext(k) \/ Reconcile(k) \/ Sync(k) \/ Resync(k)
      PROVE  UNCHANGED vms
  BY <1>8 DEF TenantNext, UserCreates, UserDeletes, UserEdits, UserEditsUserData, NodeLink,
     NodeUnlink, Reconcile, Sync, Resync, clusterVars, infraVars
<1>9. Crash \/ UNCHANGED vars => UNCHANGED vms
  BY DEF Crash, vars, clusterVars, infraVars
<1> QED  BY <1>2, <1>6, <1>7, <1>8, <1>9 DEF Next, ControllerNext

\* What is awake was awake, or is made so by addFinalizer.
LEMMA Awakening ==
  ASSUME TypeOK, FinalizerInv, ReachInv, DeletionRead, [Next]_vars, NEW k \in Machines,
         Live(machines'[k]) \/ Live(cache'[k]) \/ (pc' \in HandlesLive /\ key' = k)
  PROVE  Awake(k) \/ (pc = "addFinalizer" /\ Has(machines[k]) /\ ~machines[k].finalizer)
<1>1. CASE Live(machines'[k])
  BY <1>1, StoredMarks DEF Live, HasFinalizer, Awake
<1>2. CASE Live(cache'[k])
  BY <1>2, CacheSteps DEF Awake
<1>3. CASE pc' \in HandlesLive /\ key' = k
  <2>1. CASE Call
    <3>1. CallGoesOn /\ Arrival
      BY <1>3, <2>1, CallContinues DEF Continues, CallEnds, HandlesLive
    <3>2. pc \in HandlesLive
      BY <1>3, <3>1 DEF Arrival, HandlesLive, UpdateCalls, ReportedCalls, HalfPatched, Synced,
         createVM
    <3> QED  BY <1>3, <3>1, <3>2 DEF CallGoesOn, Awake
  <2>2. CASE ~Call
    BY <1>3, <2>2, HandlerWaits DEF Awake, HandlesLive
  <2> QED  BY <2>1, <2>2
<1> QED  BY <1>1, <1>2, <1>3

\* In the next state.
SafeNext(n) == vms'[n] # Absent /\ ~vms'[n].terminating
IntactNext(n) == vms'[n] # Absent => ~vms'[n].terminating

\* The VirtualMachine of a Machine that is awake is not deleted: the one deleteVM deletes
\* is that of a deleted Machine, and of no other.
LEMMA AwakeKeeps ==
  ASSUME NoneDropped, NamesOfTheirOwn, TypeOK, FinalizerInv, HandlerVMs, [Next]_vars,
         NEW k \in Machines, Awake(k)
  PROVE  /\ SafeVM(NameOf[k]) => SafeNext(NameOf[k])
         /\ IntactVM(NameOf[k]) => IntactNext(NameOf[k])
<1>1. NameOf[k] \in Names
  BY TenantAssumption
<1>2. ASSUME deleteVM, NameOf[k] = name  PROVE FALSE
  <2>1. pc = "deleteVM" /\ key \in Machines
    BY <1>2, HandlerObjects DEF deleteVM, TypeOK, WorkerTypeOK
  <2>2. k = key
    BY <1>2, <2>1 DEF NamesOfTheirOwn, name
  <2> QED  BY <2>1, <2>2 DEF Awake, FinalizerInv, HandlerIsRight, HandlesDeleted, HandlesLive
<1> QED  BY <1>1, <1>2, VMsStay DEF SafeNext, IntactNext

\* What is awake after a step has the VirtualMachine that it was given.
LEMMA AwakeStep ==
  ASSUME NoneDropped, NamesOfTheirOwn, TypeOK, FinalizerInv, ReachInv, MarksInv,
         OutsideInv, [Next]_vars, NEW k \in Machines,
         Live(machines'[k]) \/ Live(cache'[k]) \/ (pc' \in HandlesLive /\ key' = k)
  PROVE  /\ IntactNext(NameOf[k])
         /\ Has(machines'[k]) /\ machineIsProvisioned(machines'[k]) => SafeNext(NameOf[k])
         /\ Live(cache'[k]) /\ machineIsProvisioned(cache'[k]) => SafeNext(NameOf[k])
<1>1. HandlerVMs /\ AwakeVMs /\ NoVMYet /\ DeletionRead
  BY DEF OutsideInv, MarksInv
<1>2. Live(cache'[k]) => cache'[k] = cache[k] \/ cache'[k] = machines[k]
  BY CacheSteps
<1>3. Has(machines'[k]) /\ machineIsProvisioned(machines'[k]) =>
        \/ Has(machines[k]) /\ machineIsProvisioned(machines[k])
        \/ pc \in HandlesLive /\ k = key /\ machineIsProvisioned(m)
  BY <1>1, StoredMarks
<1>4. CASE Awake(k)
  <2>1. /\ IntactVM(NameOf[k])
        /\ Has(machines[k]) /\ machineIsProvisioned(machines[k]) => SafeVM(NameOf[k])
        /\ Live(cache[k]) /\ machineIsProvisioned(cache[k]) => SafeVM(NameOf[k])
    BY <1>1, <1>4 DEF AwakeVMs
  <2>2. pc \in HandlesLive /\ k = key /\ machineIsProvisioned(m) => SafeVM(NameOf[k])
    BY <1>1 DEF HandlerVMs, name
  <2>3. /\ SafeVM(NameOf[k]) => SafeNext(NameOf[k])
        /\ IntactVM(NameOf[k]) => IntactNext(NameOf[k])
    BY <1>1, <1>4, AwakeKeeps
  <2> QED  BY <1>2, <1>3, <2>1, <2>2, <2>3 DEF Live, HasFinalizer
<1>5. CASE ~Awake(k) /\ pc = "addFinalizer" /\ Has(machines[k]) /\ ~machines[k].finalizer
  <2>1. vms[NameOf[k]] = Absent /\ NameOf[k] \in Names
    <3>1. NameOf[k] \in Names
      BY TenantAssumption
    <3>2. ASSUME NEW j \in Machines, NameOf[j] = NameOf[k], HasFinalizer(machines[j])
          PROVE  FALSE
      BY <1>5, <3>2 DEF NamesOfTheirOwn, HasFinalizer
    <3> QED  BY <3>1, <3>2 DEF FinalizerInv, NoOrphanedVM, HasFinalizer
  <2>2. IntactNext(NameOf[k])
    BY <1>1, <1>5, <2>1, VMsStay DEF IntactVM, IntactNext, deleteVM
  <2>3. ~machineIsProvisioned(machines[k])
    BY <1>1, <1>5 DEF NoVMYet
  <2>4. ~Live(cache'[k])
    BY <1>2, <1>5 DEF Awake, Live, HasFinalizer
  <2> QED  BY <1>3, <1>5, <2>2, <2>3, <2>4 DEF HandlesLive
<1> QED  BY <1>1, <1>4, <1>5, Awakening

\* No Machine is failed, as the handler never comes to the two calls that do.
LEMMA OutsideStores ==
  ASSUME TypeOK, PatchInv, OutsideInv, [Next]_vars
  PROVE  FailedOnlyFromOutside'
<1>1. HandlerVMs
  BY DEF OutsideInv
<1>2. machines \in [Machines -> Machine \cup {Absent}] /\ Absent \notin Machine
  BY TenantAssumption DEF TypeOK, TenantTypeOK
<1>3. ASSUME NEW k \in Machines, Has(machines'[k])  PROVE machines'[k].phase # "Failed"
  <2>1. CASE machines'[k] = machines[k]
    BY <1>3, <2>1 DEF OutsideInv, FailedOnlyFromOutside
  <2>2. CASE TenantNext(k) /\ machines'[k] # machines[k]
    BY <1>3, <2>2, TenantKeeps DEF OutsideInv, FailedOnlyFromOutside
  <2>3. CASE Call /\ k = key /\ machines'[k] # machines[k]
    <3>1. machines[key] \in Machine
          /\ (machines'[key].phase = machines[key].phase \/ Writes(machines'[key].phase))
      BY <1>2, <1>3, <2>3, StoredPhase DEF Stores, Has
    <3> QED  BY <1>1, <1>2, <1>3, <2>3, <3>1
             DEF Writes, HandlerVMs, OutsideInv, FailedOnlyFromOutside, Has
  <2> QED  BY <2>1, <2>2, <2>3, WhoStores
<1> QED  BY <1>3 DEF FailedOnlyFromOutside

\* The handler's part of the invariant, for a call that goes on: the VirtualMachine a copy
\* says was created is there, so exists (actuator.go:68-82) answers yes for it.
LEMMA OutsideCall ==
  ASSUME NoneDropped, NamesOfTheirOwn, TypeOK, FinalizerInv, ReachInv, MarksInv,
         OutsideInv, Call, CallGoesOn, Arrival
  PROVE  HandlerVMs'
<1>1. /\ pc # "idle" /\ key \in Machines /\ m \in Machine /\ key' = key /\ [Next]_vars
      /\ HandlerVMs /\ AwakeVMs
  BY CallFrame, HandlerObjects
  DEF TypeOK, WorkerTypeOK, CallGoesOn, Next, ControllerNext, OutsideInv
<1>2. TypeOK'
  BY <1>1, TypeStep
<1>3. ASSUME pc' \in HandlesLive
      PROVE  /\ pc \in HandlesLive /\ Awake(key)
             /\ SafeVM(name) => SafeNext(name)
             /\ Has(machines'[key]) /\ machineIsProvisioned(machines'[key]) => SafeNext(name)
  <2>1. pc \in HandlesLive
    BY <1>3 DEF Arrival, HandlesLive, UpdateCalls, ReportedCalls, HalfPatched, Synced, createVM
  <2>2. Awake(key)
    BY <2>1 DEF Awake
  <2>3. SafeVM(name) => SafeNext(name)
    BY <1>1, <2>2, AwakeKeeps DEF name
  <2>4. Has(machines'[key]) /\ machineIsProvisioned(machines'[key]) => SafeNext(name)
    BY <1>1, <1>3, AwakeStep DEF name
  <2> QED  BY <2>1, <2>2, <2>3, <2>4
<1>4. pc = "updateVM" => updateVM
  BY DEF Call, addFinalizer, setDeleting, drain, getForDelete, deleteVM,
     existsAfterDelete, deleteNode, removeFinalizer, exists, setProvisioning,
     getUserData, createSecret, createVM, getForUpdate, getVMI, patchMachine,
     patchStatus, setRunning, failAnnotation, failStatus, reportError
<1>5. ASSUME createVM \/ pc = "updateVM", vm' # Absent  PROVE SafeNext(name)
  BY <1>1, <1>4, <1>5, WrittenVM DEF SafeNext, HandlerVMs
<1>6. ASSUME pc' \in HandlesLive, machineIsProvisioned(m')  PROVE SafeNext(name)
  <2>1. machineIsProvisioned(m) => SafeNext(name)
    BY <1>1, <1>3, <1>6 DEF HandlerVMs
  <2>2. CASE Unread
    BY <1>6, <2>1, <2>2 DEF Unread
  <2>3. CASE Answered \/ HalfPatched
    <3>1. machines'[key] \in Machine /\ Has(machines'[key])
      BY <2>3, TenantAssumption DEF Answered, HalfPatched, Has
    <3>2. From(m', m, machines'[key])
      BY <1>1, <2>3, <3>1, PutTogether DEF Answered, HalfPatched
    <3> QED  BY <1>3, <1>6, <2>1, <3>1, <3>2 DEF From
  <2>4. CASE Synced
    <3>1. vm' # Absent
      BY <2>4, InfraAssumption DEF Synced, FinishSync
    <3>2. CASE pc = "getVMI"
      BY <1>1, <1>3, <1>6, <3>2 DEF HandlerVMs
    <3> QED  BY <1>5, <2>4, <3>1, <3>2 DEF Synced
  <2> QED  BY <2>2, <2>3, <2>4 DEF CallGoesOn
<1>7. ASSUME pc' = "updateVM"  PROVE ~vm'.terminating
  <2>1. vm' # Absent /\ vm' = vms[name]
    BY <1>2, <1>7 DEF Arrival, TypeOK, WorkerTypeOK, HandlerTypeOK
  <2>2. IntactVM(NameOf[key])
    BY <1>1, <1>3, <1>7 DEF AwakeVMs, HandlesLive
  <2> QED  BY <2>1, <2>2 DEF IntactVM, name
<1>8. ASSUME pc' = "getVMI"  PROVE SafeNext(name)
  <2>1. vm' # Absent
    BY <1>2, <1>8 DEF TypeOK, WorkerTypeOK, HandlerTypeOK
  <2> QED  BY <1>5, <1>8, <2>1 DEF Arrival
<1>9. pc' \notin {"failAnnotation", "failStatus"}
  BY <1>1 DEF Arrival, HandlerVMs, HandlesLive, SafeVM
<1> QED  BY <1>1, <1>6, <1>7, <1>8, <1>9 DEF HandlerVMs, SafeVM, SafeNext, name

\* Every step keeps the invariant.
LEMMA OutsideStep ==
  ASSUME NoneDropped, NamesOfTheirOwn, TypeOK, FinalizerInv, PatchInv, ReachInv, MarksInv,
         OutsideInv, [Next]_vars
  PROVE  OutsideInv'
<1>1. AwakeVMs'
  <2> SUFFICES ASSUME NEW k \in Machines,
                      Live(machines'[k]) \/ Live(cache'[k]) \/ (pc' \in HandlesLive /\ key' = k)
               PROVE  /\ IntactNext(NameOf[k])
                      /\ Has(machines'[k]) /\ machineIsProvisioned(machines'[k])
                           => SafeNext(NameOf[k])
                      /\ Live(cache'[k]) /\ machineIsProvisioned(cache'[k])
                           => SafeNext(NameOf[k])
    BY DEF AwakeVMs, Awake, IntactVM, SafeVM, IntactNext, SafeNext
  <2> QED  BY AwakeStep
<1>2. HandlerVMs'
  <2>1. CASE pc' = "idle"
    BY <2>1 DEF HandlerVMs, HandlesLive
  <2>2. CASE Call /\ pc' # "idle"
    BY <2>2, CallContinues, OutsideCall DEF Continues, CallEnds
  <2>3. CASE ~Call /\ UNCHANGED <<pc, key, m, origin, version, vm>> /\ pc # "idle"
    <3>1. key \in Machines /\ HandlerVMs
      BY <2>3, HandlerObjects DEF TypeOK, WorkerTypeOK, OutsideInv
    <3>2. pc \in HandlesLive => (SafeVM(name) => SafeNext(name))
      BY <3>1, AwakeKeeps DEF Awake, name
    <3> QED  BY <2>3, <3>1, <3>2 DEF HandlerVMs, HandlesLive, SafeVM, SafeNext, name
  <2>4. CASE /\ pc' \in {"setDeleting", "addFinalizer", "exists"} /\ UNCHANGED vms
             /\ \E k \in Machines : /\ key' = k /\ m' = cache[k]
                                    /\ pc' = "exists" => Live(cache[k])
    <3>1. PICK k \in Machines : /\ key' = k /\ m' = cache[k]
                                /\ pc' = "exists" => Live(cache[k])
      BY <2>4
    <3>2. Live(cache[k]) /\ machineIsProvisioned(cache[k]) => SafeVM(NameOf[k])
      BY DEF OutsideInv, AwakeVMs, Awake
    <3> QED  BY <2>4, <3>1, <3>2 DEF HandlerVMs, HandlesLive, SafeVM, name
  <2> QED  BY <2>1, <2>2, <2>3, <2>4, HandlerWaits
<1> QED  BY <1>1, <1>2, OutsideStores DEF OutsideInv

\* "This can only be reached if an instance was deleted outside the machine API"
\* (controller.go:333): as long as nobody but the provider deletes VirtualMachines, and
\* Machines have names of their own, no Machine is failed, however stale the caches are,
\* whatever calls fail and whichever instances do.
THEOREM FailsOnlyFromOutside ==
  ASSUME NoneDropped, NamesOfTheirOwn
  PROVE  Spec => []FailedOnlyFromOutside
<1>1. Init => OutsideInv
  BY DEF Init, TenantInit, WorkerInit, OutsideInv, FailedOnlyFromOutside, AwakeVMs,
     HandlerVMs, Awake, HandlesLive, Live, HasFinalizer, Has
<1>2. TypeOK /\ FinalizerInv /\ PatchInv /\ ReachInv /\ MarksInv /\ OutsideInv /\ [Next]_vars
        => OutsideInv'
  BY OutsideStep
<1>3. OutsideInv => FailedOnlyFromOutside
  BY DEF OutsideInv
<1> QED
  BY <1>1, <1>2, <1>3, TypeCorrect, FinalizerInvariant, PatchInvariant, ReachInvariant,
     MarksInvariant, PTL DEF Spec

-----------------------------------------------------------------------------
(* Phases that stay. *)

\* A Machine without a phase was given no VirtualMachine, and has none.
Blank(x) == x.phase = ""
NoVMOf(k) == vms[NameOf[k]] = Absent /\ ~machineIsProvisioned(machines[k])

\* The inductive invariant: so it is of the stored Machine, of a cached one and of the
\* handler's copy, however old they are; and what has a phase keeps one.
StoredBlank == \A k \in Machines : Live(machines[k]) /\ Blank(machines[k]) => NoVMOf(k)
CachedBlank ==
  \A k \in Machines : Live(cache[k]) => IF Blank(cache[k]) THEN NoVMOf(k) ELSE ~Blank(machines[k])
HandledBlank ==
  pc \in HandlesLive =>
    IF Blank(m)
    THEN /\ NoVMOf(key) /\ ~machineIsProvisioned(m)
         /\ pc \in {"exists", "setProvisioning", "reportError"}
    ELSE ~Blank(machines[key]) /\ (Live(cache[key]) => ~Blank(cache[key]))
BlankInv == StoredBlank /\ CachedBlank /\ HandledBlank

\* The phase of a Machine that stays is the one it had, or the one the handler writes.
LEMMA PhaseStep ==
  ASSUME TypeOK, PatchInv, [Next]_vars, NEW k \in Machines, Has(machines[k]), Has(machines'[k])
  PROVE  \/ machines'[k].phase = machines[k].phase
         \/ Call /\ k = key /\ Writes(machines'[k].phase)
<1>1. machines \in [Machines -> Machine \cup {Absent}] /\ Absent \notin Machine
  BY TenantAssumption DEF TypeOK, TenantTypeOK
<1>2. CASE machines'[k] = machines[k]
  BY <1>2
<1>3. CASE TenantNext(k)
  BY <1>3, TenantKeeps
<1>4. CASE Call /\ k = key /\ machines'[k] # machines[k]
  BY <1>1, <1>4, StoredPhase DEF Stores, Has
<1> QED  BY <1>2, <1>3, <1>4, WhoStores

\* A Machine appears by a step of its users, without a phase.
LEMMA MachinesAppear ==
  ASSUME TypeOK, PatchInv, [Next]_vars, NEW k \in Machines, ~Has(machines[k]), Has(machines'[k])
  PROVE  TenantNext(k) /\ Blank(machines'[k]) /\ uids'[k] = uids[k] + 1
<1>1. machines \in [Machines -> Machine \cup {Absent}] /\ Absent \notin Machine
  BY TenantAssumption DEF TypeOK, TenantTypeOK
<1>2. machines'[k] # machines[k]
  OBVIOUS
<1>3. ~(Call /\ k = key)
  BY <1>1, <1>2, StoredPhase DEF Stores, Has
<1>4. TenantNext(k)
  BY <1>2, <1>3, WhoStores
<1>5. uids'[k] = uids[k] + 1
  BY <1>1, <1>4, TenantStores DEF Has
<1> QED  BY <1>4, <1>5, TenantKeeps DEF Blank

\* No phase is taken away.
LEMMA NeverBlanked ==
  ASSUME TypeOK, PatchInv, [Next]_vars, NEW k \in Machines, Has(machines[k]), Has(machines'[k]),
         ~Blank(machines[k])
  PROVE  ~Blank(machines'[k])
BY PhaseStep DEF Writes, Blank

\* The handler's copy keeps its phase, or takes that of the Machine an answer shows.
LEMMA CopyPhase ==
  ASSUME TypeOK, Call, CallGoesOn
  PROVE  \/ m'.phase = m.phase
         \/ Has(machines'[key]) /\ m'.phase = machines'[key].phase /\ ~Blank(m')
<1>1. m \in Machine
  BY CallFrame, HandlerObjects DEF TypeOK, WorkerTypeOK
<1>2. CASE Unread
  BY <1>2 DEF Unread
<1>3. CASE Answered
  <2>1. m' = Decoded(machines'[key], m) /\ Has(machines'[key])
    BY <1>3, TenantAssumption DEF Answered, Has
  <2> QED  BY <2>1 DEF Decoded, Kept, Blank
<1>4. CASE HalfPatched
  <2>1. Decoded(machines'[key], m) \in Machine
    BY <1>1, <1>4, DecodedType DEF HalfPatched
  <2> HIDE DEF Decoded
  <2> QED  BY <1>4, <2>1 DEF HalfPatched, WithStatus, Machine
<1>5. CASE Synced
  BY <1>1, <1>5 DEF Synced, FinishSync, SyncMachine, Machine
<1> QED  BY <1>2, <1>3, <1>4, <1>5 DEF CallGoesOn

\* A Machine that was given no VirtualMachine goes to phase Provisioning without a phase, and
\* is created only with one; it is reported after exists only when that fails.
LEMMA ExistsLeads ==
  ASSUME Call, pc = "exists"
  PROVE  /\ pc' \in {"setProvisioning", "getUserData"} => ~machineIsProvisioned(m)
         /\ pc' = "setProvisioning" => m.phase \in NoPhase
         /\ pc' = "getUserData" => ~Blank(m)
         /\ pc' = "reportError" => Fault
<1>1. exists
  BY DEF Call, addFinalizer, setDeleting, drain, getForDelete, deleteVM,
     existsAfterDelete, deleteNode, removeFinalizer, setProvisioning,
     getUserData, createSecret, createVM, getForUpdate, updateVM, getVMI, patchMachine,
     patchStatus, setRunning, failAnnotation, failStatus, reportError
<1>2. Fails => pc' \notin {"setProvisioning", "getUserData"}
  BY DEF Fails, Reports, PatchAfterError, Goto, Return, Done
<1> QED  BY <1>1, <1>2 DEF exists, Read, Goto, Unsent, NoPhase, Blank

\* A Machine is given a VirtualMachine by a handler whose copy has a phase.
LEMMA NoVMStays ==
  ASSUME NamesOfTheirOwn, TypeOK, FinalizerInv, NamesInv, ReachInv, MarksInv, HandledBlank,
         [Next]_vars, NEW k \in Machines, NoVMOf(k), Has(machines'[k]),
         ~(pc \in HandlesLive /\ key = k /\ ~Blank(m))
  PROVE  vms'[NameOf[k]] = Absent /\ ~machineIsProvisioned(machines'[k])
<1>1. NameOf[k] \in Names
  BY TenantAssumption
<1>2. ASSUME createVM, NameOf[k] = name  PROVE FALSE
  <2>1. pc = "createVM" /\ key \in Machines
    BY <1>2, HandlerObjects DEF createVM, TypeOK, WorkerTypeOK
  <2>2. k = key
    BY <1>2, <2>1 DEF NamesOfTheirOwn, name
  <2> QED  BY <2>1, <2>2 DEF HandledBlank, HandlesLive
<1>3. vms'[NameOf[k]] = Absent
  BY <1>1, <1>2, Appearances DEF NoVMOf
<1>4. ~machineIsProvisioned(machines'[k])
  BY StoredMarks DEF MarksInv, NoVMOf, HandledBlank
<1> QED  BY <1>3, <1>4

\* The handler's part of the invariant, for a call that goes on.
LEMMA BlankCall ==
  ASSUME NamesOfTheirOwn, TypeOK, FinalizerInv, NamesInv, PatchInv, ReachInv, MarksInv,
         BlankInv, Call, CallGoesOn, Arrival, pc' \in HandlesLive
  PROVE  IF Blank(m')
         THEN /\ vms'[NameOf[key]] = Absent /\ ~machineIsProvisioned(machines'[key])
              /\ ~machineIsProvisioned(m')
              /\ pc = "exists" /\ pc' \in {"setProvisioning", "reportError"}
         ELSE /\ ~Blank(m) /\ ~Blank(machines'[key])
              /\ Live(cache[key]) => ~Blank(cache[key])
<1>1. /\ pc # "idle" /\ key \in Machines /\ m \in Machine /\ key' = key /\ [Next]_vars
      /\ HandledBlank
  BY CallFrame, HandlerObjects
  DEF TypeOK, WorkerTypeOK, CallGoesOn, Next, ControllerNext, BlankInv
<1>2. pc \in HandlesLive
  BY DEF Arrival, HandlesLive, UpdateCalls, ReportedCalls, HalfPatched, Synced, createVM
<1>3. Has(machines[key]) /\ Has(machines'[key])
  <2>1. FinalizerInv'
    BY <1>1, TypeStep, FinalizerStep
  <2> QED  BY <1>1, <1>2, <2>1 DEF FinalizerInv, HandlerIsRight, HasFinalizer
<1>4. CASE ~Blank(m)
  <2>1. ~Blank(m')
    BY <1>4, CopyPhase DEF Blank
  <2>2. ~Blank(machines'[key])
    BY <1>1, <1>2, <1>3, <1>4, NeverBlanked DEF HandledBlank
  <2> QED  BY <1>1, <1>2, <1>4, <2>1, <2>2 DEF HandledBlank
<1>5. CASE Blank(m)
  <2>1. /\ NoVMOf(key) /\ ~machineIsProvisioned(m)
        /\ pc \in {"exists", "setProvisioning", "reportError"}
    BY <1>1, <1>2, <1>5 DEF HandledBlank
  <2>2. Unread
    BY <2>1 DEF CallGoesOn, Answered, HalfPatched, Synced, createVM
  <2>3. vms'[NameOf[key]] = Absent /\ ~machineIsProvisioned(machines'[key])
    BY <1>1, <1>3, <1>5, <2>1, NoVMStays
  <2>4. pc = "exists" /\ pc' \in {"setProvisioning", "reportError"}
    <3>1. pc = "exists"
      BY <2>1 DEF Arrival, HandlesLive, UpdateCalls, ReportedCalls, HalfPatched, Synced,
         createVM
    <3>2. pc' \notin {"getUserData", "getForUpdate", "failAnnotation"}
      BY <1>5, <2>1, <3>1, ExistsLeads DEF Arrival, NoVMOf, name
    <3> QED  BY <3>1, <3>2 DEF Arrival, HandlesLive, UpdateCalls, HalfPatched, Synced, createVM
  <2> QED  BY <1>5, <2>1, <2>2, <2>3, <2>4 DEF Unread
<1> QED  BY <1>4, <1>5

\* Every step keeps the invariant.
LEMMA BlankStep ==
  ASSUME NamesOfTheirOwn, TypeOK, FinalizerInv, NamesInv, PatchInv, ReachInv, MarksInv,
         BlankInv, [Next]_vars
  PROVE  BlankInv'
<1> DEFINE NoVMNext(k) == vms'[NameOf[k]] = Absent /\ ~machineIsProvisioned(machines'[k])
<1>1. FinalizerInv' /\ StoredBlank /\ CachedBlank /\ HandledBlank
  BY FinalizerStep, TypeStep DEF BlankInv
<1>2. ASSUME NEW k \in Machines, Live(machines'[k]), Blank(machines'[k])  PROVE NoVMNext(k)
  <2>1. /\ Has(machines'[k]) /\ Has(machines[k])
        /\ Live(machines[k]) \/ (pc = "addFinalizer" /\ ~machines[k].finalizer)
    BY <1>2, StoredMarks DEF Live, HasFinalizer, MarksInv
  <2>2. Blank(machines[k])
    BY <1>2, <2>1, NeverBlanked
  <2>3. CASE Live(machines[k])
    <3>1. NoVMOf(k)
      BY <1>1, <2>2, <2>3 DEF StoredBlank
    <3>2. ~(pc \in HandlesLive /\ key = k /\ ~Blank(m))
      BY <1>1, <2>2 DEF HandledBlank
    <3> QED  BY <1>1, <2>1, <3>1, <3>2, NoVMStays
  <2>4. CASE pc = "addFinalizer" /\ ~machines[k].finalizer
    <3>1. NameOf[k] \in Names
      BY TenantAssumption
    <3>2. ASSUME NEW j \in Machines, NameOf[j] = NameOf[k], HasFinalizer(machines[j])
          PROVE  FALSE
      BY <2>4, <3>2 DEF NamesOfTheirOwn, HasFinalizer
    <3>3. vms[NameOf[k]] = Absent
      BY <3>1, <3>2 DEF FinalizerInv, NoOrphanedVM, HasFinalizer
    <3>4. NoVMOf(k)
      BY <2>1, <2>4, <3>3 DEF MarksInv, NoVMYet, NoVMOf
    <3> QED  BY <1>1, <2>1, <2>4, <3>4, NoVMStays DEF HandlesLive
  <2> QED  BY <2>1, <2>3, <2>4
<1>3. ASSUME NEW k \in Machines, Live(cache'[k])
      PROVE  IF Blank(cache'[k]) THEN NoVMNext(k) ELSE ~Blank(machines'[k])
  <2>1. CASE cache'[k] = cache[k]
    <3>1. Has(machines[k]) /\ Has(machines'[k])
      BY <1>1, <1>3, <2>1 DEF FinalizerInv, CachedLive, HasFinalizer
    <3>2. CASE Blank(cache[k])
      <4>1. NoVMOf(k)
        BY <1>1, <1>3, <2>1, <3>2 DEF CachedBlank
      <4>2. ~(pc \in HandlesLive /\ key = k /\ ~Blank(m))
        BY <1>1, <1>3, <2>1, <3>2 DEF HandledBlank
      <4> QED  BY <1>1, <2>1, <3>1, <3>2, <4>1, <4>2, NoVMStays
    <3>3. CASE ~Blank(cache[k])
      BY <1>1, <1>3, <2>1, <3>1, <3>3, NeverBlanked DEF CachedBlank
    <3> QED  BY <3>2, <3>3
  <2>2. CASE cache'[k] = machines[k] /\ UNCHANGED machines
    BY <1>2, <1>3, <2>2
  <2> QED  BY <2>1, <2>2, CacheSteps
<1>4. ASSUME pc' \in HandlesLive
      PROVE  IF Blank(m')
             THEN /\ NoVMNext(key') /\ ~machineIsProvisioned(m')
                  /\ pc' \in {"exists", "setProvisioning", "reportError"}
             ELSE ~Blank(machines'[key']) /\ (Live(cache'[key']) => ~Blank(cache'[key']))
  <2>1. CASE Call
    <3>1. CallGoesOn /\ Arrival
      BY <1>4, <2>1, CallContinues DEF Continues, CallEnds, HandlesLive
    <3> QED  BY <1>4, <2>1, <3>1, BlankCall DEF CallGoesOn
  <2>2. CASE ~Call /\ UNCHANGED <<pc, key, m, origin, version, vm>>
    <3>1. pc \in HandlesLive /\ key \in Machines
      BY <1>4, <2>2, HandlerObjects DEF HandlesLive, TypeOK, WorkerTypeOK
    <3>2. Has(machines[key]) /\ Has(machines'[key])
      BY <1>1, <2>2, <3>1 DEF FinalizerInv, HandlerIsRight, HasFinalizer
    <3>3. CASE Blank(m)
      <4>1. NoVMNext(key)
        BY <1>1, <3>1, <3>2, <3>3, NoVMStays DEF HandledBlank
      <4> QED  BY <1>1, <2>2, <3>1, <3>3, <4>1 DEF HandledBlank
    <3>4. CASE ~Blank(m)
      <4>1. ~Blank(machines[key]) /\ (Live(cache[key]) => ~Blank(cache[key]))
        BY <1>1, <3>1, <3>4 DEF HandledBlank
      <4>2. ~Blank(machines'[key])
        BY <3>1, <3>2, <4>1, NeverBlanked
      <4>3. Live(cache'[key]) => ~Blank(cache'[key])
        BY <3>1, <4>1, CacheSteps
      <4> QED  BY <2>2, <3>4, <4>2, <4>3
    <3> QED  BY <3>3, <3>4
  <2>3. CASE /\ pc' \in {"setDeleting", "addFinalizer", "exists"}
             /\ UNCHANGED <<machines, cache, vms>>
             /\ \E k \in Machines : /\ key' = k /\ m' = cache[k]
                                    /\ pc' = "exists" => Live(cache[k])
    <3>1. pc' = "exists"
      BY <1>4, <2>3 DEF HandlesLive
    <3>2. PICK k \in Machines : key' = k /\ m' = cache[k] /\ Live(cache[k])
      BY <2>3, <3>1
    <3>3. machineIsProvisioned(cache[k]) => machineIsProvisioned(machines[k])
      BY <3>2 DEF ReachInv, CacheReach, Below, HasID, machineIsProvisioned
    <3> QED  BY <1>1, <2>3, <3>1, <3>2, <3>3 DEF CachedBlank, NoVMOf
  <2> QED  BY <1>4, <2>1, <2>2, <2>3, HandlerWaits DEF HandlesLive
<1> QED  BY <1>2, <1>3, <1>4 DEF BlankInv, StoredBlank, CachedBlank, HandledBlank, NoVMOf

\* It holds initially, and in every reachable state.
LEMMA BlankInvariant ==
  ASSUME NamesOfTheirOwn
  PROVE  Spec => []BlankInv
<1>1. Init => BlankInv
  BY DEF Init, TenantInit, WorkerInit, BlankInv, StoredBlank, CachedBlank, HandledBlank,
     HandlesLive, Live, HasFinalizer, Has
<1>2. /\ TypeOK /\ FinalizerInv /\ NamesInv /\ PatchInv /\ ReachInv /\ MarksInv /\ BlankInv
      /\ [Next]_vars
      => BlankInv'
  BY BlankStep
<1> QED
  BY <1>1, <1>2, TypeCorrect, FinalizerInvariant, NamesInvariant, PatchInvariant,
     ReachInvariant, MarksInvariant, PTL DEF Spec

\* A Machine that is reported has no phase in the copy (see Worker!Reports).
LEMMA ReportsBlank ==
  ASSUME Call, pc' = "reportError"
  PROVE  Blank(m')
<1> USE DEF Blank
<1>1. Fails \/ Reports => m.phase = "" /\ m' = m
  BY DEF Fails, Reports, PatchAfterError, Goto, Return, Done
<1>2. Refused \/ Unsent \/ Panic => m'.phase = ""
  BY <1>1 DEF Refused, Unsent, Panic, Restart, Done
<1>3. ASSUME NEW v, StartSync(v)  PROVE FALSE
  BY <1>3 DEF StartSync, FinishSync
<1>4. CASE addFinalizer \/ removeFinalizer \/ failAnnotation \/ patchMachine
  BY <1>1, <1>2, <1>4
  DEF addFinalizer, removeFinalizer, failAnnotation, patchMachine, WriteTenant, Lost, Return,
      Done, GotoWith
<1>5. CASE drain \/ deleteNode
  BY <1>1, <1>2, <1>5 DEF drain, deleteNode, WriteTenant, Lost, Goto
<1>6. CASE setDeleting \/ setProvisioning \/ setRunning \/ failStatus \/ reportError
  BY <1>1, <1>2, <1>6
  DEF setDeleting, setProvisioning, setRunning, failStatus, reportError, updateStatus,
      WriteTenant, Lost, Return, Done, Goto, GotoWith
<1>7. CASE patchStatus
  BY <1>1, <1>2, <1>7 DEF patchStatus, WriteTenant, Lost, Return, Done, GotoWith
<1>8. CASE createSecret \/ deleteVM
  BY <1>1, <1>2, <1>8 DEF createSecret, deleteVM, WriteInfra, Lost, Goto
<1>9. CASE createVM \/ updateVM
  BY <1>1, <1>2, <1>3, <1>9
  DEF createVM, updateVM, WriteInfra, Lost, CreateFails, Goto, Return, Done
<1>10. CASE getForDelete \/ existsAfterDelete \/ exists \/ getUserData
  BY <1>2, <1>10
  DEF getForDelete, existsAfterDelete, exists, getUserData, Read, DeleteFails, CreateFails,
      Restart, Goto, Return, Done
<1>11. CASE getForUpdate \/ getVMI
  BY <1>1, <1>2, <1>11 DEF getForUpdate, getVMI, Read, FinishSync
<1> QED  BY <1>4, <1>5, <1>6, <1>7, <1>8, <1>9, <1>10, <1>11 DEF Call

\* An error is reported, and phase Provisioning set, for a copy without a phase.
PhaseRead ==
  /\ pc = "reportError" => Blank(m)
  /\ pc = "setProvisioning" => m.phase \in NoPhase

\* Every step keeps it.
LEMMA PhaseReadStep ==
  ASSUME TypeOK, PhaseRead, [Next]_vars
  PROVE  PhaseRead'
<1>1. ASSUME Call, pc' = "setProvisioning"  PROVE m'.phase \in NoPhase
  <2>1. pc = "exists" /\ m' = m
    BY <1>1, CallContinues DEF Continues, CallEnds, CallGoesOn, Arrival, Unread
  <2> QED  BY <1>1, <2>1, ExistsLeads
<1>2. ASSUME Call  PROVE PhaseRead'
  BY <1>1, <1>2, ReportsBlank DEF PhaseRead, Blank
<1>3. ASSUME ~Call  PROVE PhaseRead'
  BY <1>3, HandlerWaits DEF PhaseRead, Blank
<1> QED  BY <1>2, <1>3

\* A Machine does not go back to a phase before its VirtualMachine was created
\* (controller.go:279-362), although the phase is computed from a cached Machine, the
\* VirtualMachine may have been lost and a failing call writes an empty phase over whatever
\* is stored: that is written only while there was no VirtualMachine yet.  The one way back
\* to phase Provisioning is from a copy that shows such an empty phase.  With two Machines
\* of one name there are more.
THEOREM ProvisionedStay ==
  ASSUME NamesOfTheirOwn
  PROVE  Spec => ProvisionedStaysProvisioned
<1>1. Init => PhaseRead
  BY DEF Init, WorkerInit, PhaseRead
<1>2. TypeOK /\ PhaseRead /\ [Next]_vars => PhaseRead'
  BY PhaseReadStep
<1>3. /\ TypeOK /\ PatchInv /\ ReachInv /\ BlankInv /\ PhaseRead /\ [Next]_vars
      => [\A k \in Machines :
            Has(machines[k]) /\ Has(machines'[k]) /\ machines[k].phase \in {"Provisioned", "Running"} =>
              /\ machines'[k].phase \notin NoPhase
              /\ machines'[k].phase = "Provisioning"
                   => pc = "setProvisioning" /\ m.phase = "empty"]_vars
  <2> SUFFICES ASSUME TypeOK, PatchInv, ReachInv, BlankInv, PhaseRead,
                      [Next]_vars, NEW k \in Machines, Has(machines[k]), Has(machines'[k]),
                      machines[k].phase \in {"Provisioned", "Running"}
               PROVE  /\ machines'[k].phase \notin NoPhase
                      /\ machines'[k].phase = "Provisioning"
                           => pc = "setProvisioning" /\ m.phase = "empty"
    OBVIOUS
  <2>1. machineIsProvisioned(machines[k])
    BY DEF ReachInv, ProvisionedMeansReachable, machineIsProvisioned
  <2>2. CASE machines'[k].phase = machines[k].phase
    BY <2>2 DEF NoPhase
  <2>3. CASE k = key /\ Writes(machines'[k].phase)
    <3>1. pc \in {"reportError", "setProvisioning"} => ~Blank(m)
      BY <2>1, <2>3 DEF BlankInv, HandledBlank, NoVMOf, HandlesLive
    <3> QED  BY <2>3, <3>1 DEF Writes, NoPhase, PhaseRead, Blank
  <2> QED  BY <2>2, <2>3, PhaseStep
<1> QED
  BY <1>1, <1>2, <1>3, TypeCorrect, PatchInvariant, ReachInvariant, BlankInvariant, PTL
  DEF Spec, ProvisionedStaysProvisioned

\* The inductive invariant for phase Failed: whatever the cache and the handler go by shows
\* that the Machine was given a VirtualMachine, which is gone, and so leads there again.
FailedKnown(k) ==
  machineIsProvisioned(machines[k]) /\ (Live(cache[k]) => machineIsProvisioned(cache[k]))
FailedInv ==
  /\ \A k \in Machines : Has(machines[k]) /\ machines[k].phase = "Failed" =>
       /\ FailedKnown(k)
       /\ pc \in HandlesLive /\ key = k =>
            machineIsProvisioned(m) /\ pc \in {"exists", "failAnnotation", "failStatus"}
  /\ pc \in {"exists", "failAnnotation", "failStatus"} /\ machineIsProvisioned(m) =>
       FailedKnown(key)
  /\ pc \in {"failAnnotation", "failStatus"} => machineIsProvisioned(m)

\* Every step keeps it.
LEMMA FailedStep ==
  ASSUME TypeOK, FinalizerInv, PatchInv, ReachInv, MarksInv, FailInv, BlankInv, FailedInv,
         [Next]_vars
  PROVE  FailedInv'
<1> DEFINE KnownNext(k) == /\ machineIsProvisioned(machines'[k])
                           /\ Live(cache'[k]) => machineIsProvisioned(cache'[k])
<1>1. /\ machines \in [Machines -> Machine \cup {Absent}] /\ Absent \notin Machine
      /\ FinalizerInv'
  BY TenantAssumption, TypeStep, FinalizerStep DEF TypeOK, TenantTypeOK
<1>2. ASSUME NEW k \in Machines, FailedKnown(k), Has(machines[k]), Has(machines'[k])
      PROVE  KnownNext(k)
  <2>1. machineIsProvisioned(machines'[k])
    BY <1>2, MachinesGrow DEF FailedKnown, Below, HasID, machineIsProvisioned
  <2> QED  BY <1>2, <2>1, CacheSteps DEF FailedKnown
<1>3. ASSUME pc' \in {"exists", "failAnnotation", "failStatus"}
      PROVE  /\ machineIsProvisioned(m') => KnownNext(key')
             /\ pc' # "exists" => machineIsProvisioned(m')
  <2>1. CASE Call
    <3>1. /\ CallGoesOn /\ Arrival /\ key \in Machines /\ key' = key /\ m \in Machine
      BY <1>3, <2>1, CallContinues, CallFrame, HandlerObjects
      DEF Continues, CallEnds, CallGoesOn, TypeOK, WorkerTypeOK
    <3>2. /\ pc \in {"exists", "failAnnotation"} /\ (Unread \/ Answered)
          /\ machineIsProvisioned(m)
      BY <1>3, <3>1 DEF Arrival, FailedInv
    <3>3. Has(machines[key]) /\ Has(machines'[key])
      BY <1>1, <1>3, <3>1, <3>2 DEF FinalizerInv, HandlerIsRight, HandlesLive, HasFinalizer
    <3>4. KnownNext(key)
      BY <1>2, <3>1, <3>2, <3>3 DEF FailedInv
    <3>5. machineIsProvisioned(m')
      <4>1. CASE Unread
        BY <3>2, <4>1 DEF Unread
      <4>2. CASE Answered
        <5>1. m' = Decoded(machines'[key], m)
          BY <4>2 DEF Answered
        <5> QED  BY <3>2, <5>1 DEF Decoded, Kept, machineIsProvisioned
      <4> QED  BY <3>2, <4>1, <4>2
    <3> QED  BY <3>1, <3>4, <3>5
  <2>2. CASE ~Call /\ UNCHANGED <<pc, key, m, origin, version, vm>>
    <3>1. key \in Machines
      BY <1>3, <2>2, HandlerObjects DEF TypeOK, WorkerTypeOK
    <3>2. Has(machines[key]) /\ Has(machines'[key])
      BY <1>1, <1>3, <2>2 DEF FinalizerInv, HandlerIsRight, HandlesLive, HasFinalizer
    <3> QED  BY <1>2, <1>3, <2>2, <3>1, <3>2 DEF FailedInv
  <2>3. CASE /\ pc' \in {"setDeleting", "addFinalizer", "exists"} /\ UNCHANGED <<machines, cache>>
             /\ \E k \in Machines : /\ key' = k /\ m' = cache[k]
                                    /\ pc' = "exists" => Live(cache[k])
    <3>1. pc' = "exists"
      BY <1>3, <2>3
    <3>2. PICK k \in Machines : key' = k /\ m' = cache[k] /\ Live(cache[k])
      BY <2>3, <3>1
    <3>3. machineIsProvisioned(cache[k]) => machineIsProvisioned(machines[k])
      BY <3>2 DEF ReachInv, CacheReach, Below, HasID, machineIsProvisioned
    <3> QED  BY <2>3, <3>1, <3>2, <3>3
  <2> QED  BY <1>3, <2>1, <2>2, <2>3, HandlerWaits
<1>4. ASSUME NEW k \in Machines, Has(machines'[k]), machines'[k].phase = "Failed"
      PROVE  /\ KnownNext(k)
             /\ pc' \in HandlesLive /\ key' = k =>
                  machineIsProvisioned(m') /\ pc' \in {"exists", "failAnnotation", "failStatus"}
  <2>1. Has(machines[k])
    BY <1>4, MachinesAppear DEF Blank
  <2>2. CASE machines[k].phase = "Failed"
    <3>1. KnownNext(k)
      BY <1>2, <1>4, <2>1, <2>2 DEF FailedInv
    <3>2. ASSUME Call, pc' \in HandlesLive, key' = k
          PROVE  machineIsProvisioned(m') /\ pc' \in {"exists", "failAnnotation", "failStatus"}
      <4>1. CallGoesOn /\ Arrival /\ key = k
        BY <3>2, CallContinues DEF Continues, CallEnds, CallGoesOn, HandlesLive
      <4>2. pc \in HandlesLive
        BY <3>2, <4>1 DEF Arrival, HandlesLive, UpdateCalls, ReportedCalls, HalfPatched, Synced,
           createVM
      <4>3. /\ machineIsProvisioned(m) /\ pc \in {"exists", "failAnnotation", "failStatus"}
            /\ vms[name] = Absent
        BY <2>1, <2>2, <4>1, <4>2 DEF FailedInv, FailInv, name
      <4>4. pc' # "reportError"
        <5>1. ~Blank(m)
          BY <4>2, <4>3 DEF BlankInv, HandledBlank
        <5>2. pc' = "reportError" => Unread
          BY <4>1, <4>3 DEF Arrival
        <5> QED  BY <3>2, <5>1, <5>2, ReportsBlank DEF Unread, Blank
      <4>5. pc' \in {"exists", "failAnnotation", "failStatus"}
        BY <3>2, <4>1, <4>3, <4>4, ExistsLeads
        DEF Arrival, HandlesLive, UpdateCalls, HalfPatched, Synced, createVM
      <4>6. pc' # "exists"
        BY <4>1 DEF Arrival
      <4> QED  BY <1>3, <4>5, <4>6
    <3>3. ASSUME ~Call, pc' \in HandlesLive, key' = k
          PROVE  machineIsProvisioned(m') /\ pc' \in {"exists", "failAnnotation", "failStatus"}
      BY <2>1, <2>2, <3>3, HandlerWaits DEF FailedInv, FailedKnown, HandlesLive
    <3> QED  BY <3>1, <3>2, <3>3
  <2>3. CASE machines[k].phase # "Failed"
    <3>1. Call /\ k = key /\ pc = "failStatus"
      BY <1>4, <2>1, <2>3, PhaseStep DEF Writes
    <3>2. KnownNext(k)
      BY <1>2, <1>4, <2>1, <3>1 DEF FailedInv
    <3>3. pc' \notin HandlesLive
      BY <3>1, CallContinues
      DEF Continues, CallEnds, Arrival, HandlesLive, UpdateCalls, ReportedCalls, HalfPatched,
          Synced, createVM
    <3> QED  BY <3>2, <3>3
  <2> QED  BY <2>2, <2>3
<1> QED  BY <1>3, <1>4 DEF FailedInv, FailedKnown

FailedStay ==
  \A k \in Machines :
    Has(machines[k]) /\ Has(machines'[k]) /\ machines[k].phase = "Failed"
      => machines'[k].phase \in {"Failed", "Deleting"}

\* A failed Machine is not revived (controller.go:274-277, 332-346), however stale the cache
\* is and whatever fails meanwhile, as long as Machines have names of their own.
THEOREM FailedAreFinal ==
  ASSUME NamesOfTheirOwn
  PROVE  Spec => [][FailedStay]_vars
<1>1. Init => FailedInv /\ FailInv
  BY DEF Init, TenantInit, WorkerInit, FailedInv, FailInv, HandlesLive, Has
<1>2. TypeOK /\ FinalizerInv /\ NamesInv /\ CopiesInv /\ PatchInv /\ FailInv /\ [Next]_vars
        => FailInv'
  BY FailStep
<1>3. /\ TypeOK /\ FinalizerInv /\ PatchInv /\ ReachInv /\ MarksInv /\ FailInv /\ BlankInv
      /\ FailedInv /\ [Next]_vars
      => FailedInv'
  BY FailedStep
<1>4. TypeOK /\ PatchInv /\ FailedInv /\ [Next]_vars => [FailedStay]_vars
  <2> SUFFICES ASSUME TypeOK, PatchInv, FailedInv, [Next]_vars, NEW k \in Machines,
                      Has(machines[k]), Has(machines'[k]), machines[k].phase = "Failed"
               PROVE  machines'[k].phase \in {"Failed", "Deleting"}
    BY DEF FailedStay
  <2>1. pc \in HandlesLive /\ key = k => pc \in {"exists", "failAnnotation", "failStatus"}
    BY DEF FailedInv
  <2> QED  BY <2>1, PhaseStep DEF Writes, HandlesLive
<1> QED
  BY <1>1, <1>2, <1>3, <1>4, TypeCorrect, FinalizerInvariant, NamesInvariant,
     CopiesInvariant, PatchInvariant, ReachInvariant, MarksInvariant, BlankInvariant, PTL
  DEF Spec

\* No key is used for a second Machine; of those that were never used there is nothing.
KeysUsedOnce == MaxIncarnations <= 1
UnusedKeys ==
  \A k \in Machines : uids[k] = 0 => machines[k] = Absent /\ cache[k] = Absent /\ key # k

\* A deletion that was seen once is seen by everyone who comes later.
GoneOrSeen(k) == machines[k] = Absent \/ (machines[k].deleted /\ Deleted(cache[k]))
DeletingInv ==
  /\ UnusedKeys
  /\ \A k \in Machines : \/ Deleted(cache[k])
                         \/ Has(machines[k]) /\ machines[k].phase = "Deleting"
                         \/ pc \in HandlesDeleted /\ key = k
                         => GoneOrSeen(k)
  /\ pc \in HandlesLive => machines[key].phase # "Deleting"

\* Keys are only ever used up, by the users.
LEMMA UidSteps ==
  ASSUME TypeOK, [Next]_vars, NEW k \in Machines
  PROVE  uids'[k] = uids[k] \/ uids'[k] = uids[k] + 1
<1>1. uids \in [Machines -> 0 .. MaxIncarnations]
  BY DEF TypeOK, TenantTypeOK
<1>2. ASSUME Call  PROVE UNCHANGED uids
  <2>1. Refused \/ Unsent \/ Panic => UNCHANGED uids
    BY DEF Refused, Unsent, Panic, clusterVars, tenantVars
  <2>2. UNCHANGED clusterVars \/ UNCHANGED tenantVars => UNCHANGED uids
    BY DEF clusterVars, tenantVars
  <2>3. ASSUME NEW o, StoreMachine(key, o)  PROVE UNCHANGED uids
    BY <2>3 DEF StoreMachine
  <2>4. CASE \/ addFinalizer \/ removeFinalizer \/ failAnnotation \/ patchMachine \/ patchStatus
             \/ drain \/ deleteNode
    BY <2>1, <2>2, <2>3, <2>4
    DEF addFinalizer, removeFinalizer, failAnnotation, patchMachine, patchStatus, drain,
        deleteNode, WriteTenant, Lost
  <2>5. CASE setDeleting \/ setProvisioning \/ setRunning \/ failStatus \/ reportError
    BY <2>1, <2>2, <2>3, <2>5
    DEF setDeleting, setProvisioning, setRunning, failStatus, reportError, updateStatus,
        WriteTenant, Lost
  <2>6. CASE createSecret \/ createVM \/ updateVM \/ deleteVM
    BY <2>1, <2>2, <2>6 DEF createSecret, createVM, updateVM, deleteVM, WriteInfra, Lost
  <2>7. CASE getForDelete \/ existsAfterDelete \/ exists \/ getUserData \/ getForUpdate \/ getVMI
    BY <2>1, <2>2, <2>7
    DEF getForDelete, existsAfterDelete, exists, getUserData, getForUpdate, getVMI, Read
  <2> QED  BY <1>2, <2>4, <2>5, <2>6, <2>7 DEF Call
<1>3. ASSUME NEW j \in Machines, TenantNext(j)
      PROVE  uids'[k] = uids[k] \/ uids'[k] = uids[k] + 1
  <2>1. CASE UserCreates(j)
    BY <1>1, <2>1 DEF UserCreates
  <2>2. CASE ~UserCreates(j)
    BY <1>3, <2>2
    DEF TenantNext, UserDeletes, UserEdits, UserEditsUserData, NodeLink, NodeUnlink
  <2> QED  BY <2>1, <2>2
<1>4. ASSUME NEW n \in Names, InfraNext(n)  PROVE UNCHANGED uids
  BY <1>4 DEF InfraNext, BootGuest, KubeletWrites, tenantVars
<1>5. ASSUME NEW j \in Machines, Reconcile(j) \/ Sync(j) \/ Resync(j)  PROVE UNCHANGED uids
  BY <1>5 DEF Reconcile, Sync, Resync, clusterVars, tenantVars
<1>6. Crash \/ UNCHANGED vars => UNCHANGED uids
  BY DEF Crash, vars, clusterVars, tenantVars
<1> QED  BY <1>2, <1>3, <1>4, <1>5, <1>6 DEF Next, ControllerNext

\* What is gone or seen to be deleted stays so, if its key is not used again.
LEMMA SeenStays ==
  ASSUME KeysUsedOnce, TypeOK, FinalizerInv, PatchInv, ReachInv, MarksInv, [Next]_vars,
         NEW k \in Machines, uids[k] # 0, GoneOrSeen(k)
  PROVE  machines'[k] = Absent \/ (machines'[k].deleted /\ Deleted(cache'[k]))
<1>1. CASE machines[k] = Absent
  <2>1. uids[k] \in Nat /\ uids'[k] <= MaxIncarnations /\ uids'[k] \in Nat /\ MaxIncarnations \in Nat
    <3>1. uids \in [Machines -> 0 .. MaxIncarnations] /\ uids' \in [Machines -> 0 .. MaxIncarnations]
      BY TypeStep DEF TypeOK, TenantTypeOK
    <3> QED  BY <3>1, TenantAssumption
  <2>2. uids'[k] # uids[k] + 1
    BY <2>1 DEF KeysUsedOnce
  <2> QED  BY <1>1, <2>2, MachinesAppear DEF Has
<1>2. CASE machines[k] # Absent /\ machines[k].deleted /\ Deleted(cache[k])
  <2>1. machines[k].finalizer
    BY <1>2 DEF FinalizerInv, DeletedHasFinalizer, Deleted, Has
  <2>2. Has(machines'[k]) => machines'[k].deleted
    BY <1>2, <2>1, StoredMarks DEF MarksInv, Live, HasFinalizer, Has
  <2>3. Deleted(cache'[k])
    BY <1>2, CacheSteps DEF Deleted, Has
  <2> QED  BY <2>2, <2>3 DEF Has
<1> QED  BY <1>1, <1>2 DEF GoneOrSeen

\* Every step keeps the invariant.
LEMMA DeletingStep ==
  ASSUME KeysUsedOnce, TypeOK, FinalizerInv, PatchInv, ReachInv, MarksInv, DeletingInv,
         [Next]_vars
  PROVE  DeletingInv'
<1>1. /\ TypeOK' /\ FinalizerInv' /\ UnusedKeys
      /\ \A k \in Machines : uids[k] \in Nat
  BY TypeStep, FinalizerStep DEF DeletingInv, TypeOK, TenantTypeOK
<1>2. ASSUME NEW k \in Machines, uids'[k] = 0
      PROVE  machines'[k] = Absent /\ cache'[k] = Absent /\ key' # k
  <2>1. uids[k] = 0 /\ uids'[k] # uids[k] + 1
    BY <1>1, <1>2, UidSteps
  <2>2. machines[k] = Absent /\ cache[k] = Absent /\ key # k
    BY <1>1, <2>1 DEF UnusedKeys
  <2>3. machines'[k] = Absent
    BY <2>1, <2>2, MachinesAppear DEF Has
  <2>4. cache'[k] = Absent
    BY <2>2, CacheSteps
  <2>5. key' # k
    <3>1. CASE pc' = "idle"
      BY <1>1, <3>1, TenantAssumption DEF TypeOK, WorkerTypeOK, HandlerTypeOK
    <3>2. CASE pc' # "idle" /\ Call
      BY <2>2, <3>2, CallContinues DEF Continues, CallEnds, CallGoesOn
    <3>3. CASE pc' # "idle" /\ ~Call
      BY <2>2, <3>3, HandlerWaits DEF Has
    <3> QED  BY <3>1, <3>2, <3>3
  <2> QED  BY <2>3, <2>4, <2>5
<1>3. ASSUME NEW k \in Machines,
             \/ Deleted(cache'[k])
             \/ Has(machines'[k]) /\ machines'[k].phase = "Deleting"
             \/ pc' \in HandlesDeleted /\ key' = k
      PROVE  machines'[k] = Absent \/ (machines'[k].deleted /\ Deleted(cache'[k]))
  <2>1. ASSUME \/ Deleted(cache[k])
               \/ Has(machines[k]) /\ machines[k].phase = "Deleting"
               \/ pc \in HandlesDeleted /\ key = k
        PROVE  machines'[k] = Absent \/ (machines'[k].deleted /\ Deleted(cache'[k]))
    <3>1. GoneOrSeen(k)
      BY <2>1 DEF DeletingInv
    <3>2. uids[k] # 0
      BY <1>1, <2>1 DEF UnusedKeys, Deleted, Has
    <3> QED  BY <3>1, <3>2, SeenStays
  <2>2. CASE Deleted(cache'[k])
    <3>1. CASE cache'[k] = machines[k] /\ UNCHANGED machines
      BY <2>2, <3>1 DEF Deleted
    <3> QED  BY <2>1, <2>2, <3>1, CacheSteps
  <2>3. CASE Has(machines'[k]) /\ machines'[k].phase = "Deleting"
    <3>1. Has(machines[k])
      BY <2>3, MachinesAppear DEF Blank
    <3>2. machines[k].phase = "Deleting" \/ (k = key /\ pc = "setDeleting")
      BY <2>3, <3>1, PhaseStep DEF Writes
    <3> QED  BY <2>1, <3>1, <3>2 DEF HandlesDeleted
  <2>4. CASE pc' \in HandlesDeleted /\ key' = k
    <3>1. CASE Call
      BY <2>1, <2>4, <3>1, CallContinues
      DEF Continues, CallEnds, Arrival, HandlesDeleted, CallGoesOn, HalfPatched, Synced
    <3>2. CASE ~Call
      BY <2>1, <2>4, <3>2, HandlerWaits DEF HandlesDeleted, Deleted
    <3> QED  BY <3>1, <3>2
  <2> QED  BY <1>3, <2>2, <2>3, <2>4
<1>4. ASSUME pc' \in HandlesLive  PROVE machines'[key'].phase # "Deleting"
  <2>1. ASSUME pc \in HandlesLive, key' = key  PROVE machines'[key].phase # "Deleting"
    <3>1. key \in Machines /\ Has(machines[key]) /\ Has(machines'[key])
      BY <1>1, <1>4, <2>1, HandlerObjects
      DEF FinalizerInv, HandlerIsRight, HandlesLive, HasFinalizer, TypeOK, WorkerTypeOK
    <3> QED  BY <2>1, <3>1, PhaseStep DEF DeletingInv, Writes, HandlesLive
  <2>2. CASE Call
    BY <1>4, <2>1, <2>2, CallContinues
    DEF Continues, CallEnds, CallGoesOn, Arrival, HandlesLive, UpdateCalls, ReportedCalls,
        HalfPatched, Synced, createVM
  <2>3. CASE ~Call /\ UNCHANGED <<pc, key, m, origin, version, vm>>
    BY <1>4, <2>1, <2>3
  <2>4. CASE pc' = "exists" /\ UNCHANGED machines /\ \E k \in Machines : key' = k /\ Live(cache[k])
    BY <2>4
    DEF DeletingInv, GoneOrSeen, Live, Deleted, FinalizerInv, CachedLive, HasFinalizer, Has
  <2> QED  BY <1>4, <2>2, <2>3, <2>4, HandlerWaits DEF HandlesLive
<1> QED  BY <1>2, <1>3, <1>4 DEF DeletingInv, UnusedKeys, GoneOrSeen

DeletingStay ==
  \A k \in Machines :
    Has(machines[k]) /\ Has(machines'[k]) /\ machines[k].phase = "Deleting"
      => machines'[k].phase = "Deleting"

\* A Machine in phase Deleting stays in it (controller.go:207-277), as long as no key is used
\* again: a Reconcile of a deleted Machine writes the phase into the one that was created
\* under its key since, and that one then goes on to other phases.
THEOREM DeletingAreFinal ==
  ASSUME KeysUsedOnce
  PROVE  Spec => [][DeletingStay]_vars
<1>1. Init => DeletingInv
  BY TenantAssumption
  DEF Init, TenantInit, WorkerInit, DeletingInv, UnusedKeys, GoneOrSeen, HandlesLive,
      HandlesDeleted, Deleted, Has
<1>2. /\ TypeOK /\ FinalizerInv /\ PatchInv /\ ReachInv /\ MarksInv /\ DeletingInv
      /\ [Next]_vars
      => DeletingInv'
  BY DeletingStep
<1>3. TypeOK /\ PatchInv /\ DeletingInv /\ [Next]_vars => [DeletingStay]_vars
  <2> SUFFICES ASSUME TypeOK, PatchInv, DeletingInv, [Next]_vars, NEW k \in Machines,
                      Has(machines[k]), Has(machines'[k]), machines[k].phase = "Deleting"
               PROVE  machines'[k].phase = "Deleting"
    BY DEF DeletingStay
  <2>1. ~(pc \in HandlesLive /\ key = k)
    BY DEF DeletingInv
  <2> QED  BY <2>1, PhaseStep DEF Writes, HandlesLive
<1> QED
  BY <1>1, <1>2, <1>3, TypeCorrect, FinalizerInvariant, PatchInvariant, ReachInvariant,
     MarksInvariant, PTL DEF Spec

\* The two together: a failed Machine is not revived, and a deleted one in phase Deleting
\* stays in it, however stale the cache a phase is computed from (controller.go:207-277).
THEOREM FinalPhases ==
  ASSUME NamesOfTheirOwn, KeysUsedOnce
  PROVE  Spec => FinalPhasesStay
<1>1. [FailedStay]_vars /\ [DeletingStay]_vars =>
        [\A k \in Machines :
           Has(machines[k]) /\ Has(machines'[k]) /\ machines'[k].uid = machines[k].uid =>
             LET old == machines[k].phase  new == machines'[k].phase
             IN /\ old = "Failed" => new \in {"Failed", "Deleting"}
                /\ old = "Deleting" /\ machines[k].deleted => new = "Deleting"]_vars
  BY DEF FailedStay, DeletingStay
<1> QED
  BY <1>1, FailedAreFinal, DeletingAreFinal, PTL DEF FinalPhasesStay
=============================================================================
