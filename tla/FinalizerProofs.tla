--------------------------- MODULE FinalizerProofs --------------------------
(***************************************************************************)
(* No VirtualMachine is left behind and no Node is deleted before its      *)
(* VirtualMachine, for any number of Machines, names, configurations,      *)
(* faults, upsets and incarnations.                                        *)
(*                                                                         *)
(* Neither is inductive: that the controller releases a Machine only when  *)
(* its VirtualMachine is gone, and creates one only for a Machine that has *)
(* the finalizer, depends on what it read some steps ago and from a cache. *)
(* FinalizerInv says what those old readings still guarantee.  Most steps  *)
(* are "quiet": they change no finalizer and no deletion, and create no    *)
(* VirtualMachine.  The seven that are not are treated one by one.         *)
(***************************************************************************)
EXTENDS TypeProofs

\* No finalizer or deletion timestamp changes, and no VirtualMachine appears.
SameMarks ==
  \A k \in Machines : /\ HasFinalizer(machines'[k]) <=> HasFinalizer(machines[k])
                      /\ Deleted(machines'[k]) <=> Deleted(machines[k])
NoNewVM == \A n \in Names : vms[n] = Absent => vms'[n] = Absent

\* A Reconcile that is under way goes on, with the same Machine and to the same end.
GoesOn ==
  /\ cache' = cache /\ key' = key
  /\ \/ pc' = pc
     \/ pc \in HandlesLive /\ pc' \in HandlesLive
     \/ /\ pc \in HandlesDeleted /\ pc' \in HandlesDeleted
        /\ pc' \in {"deleteNode", "removeFinalizer"} => vms[name] = Absent

Quiet ==
  /\ SameMarks /\ NoNewVM
  /\ GoesOn \/ (pc' = "idle" /\ cache' \in {cache, machines})

\* A quiet step keeps the invariant.
LEMMA QuietStep ==
  ASSUME TypeOK, FinalizerInv, Quiet
  PROVE  FinalizerInv'
<1> USE DEF FinalizerInv
<1>1. ASSUME NEW x  PROVE Live(x) <=> HasFinalizer(x) /\ ~Deleted(x)
  BY DEF Live, HasFinalizer, Deleted
<1>2. DeletedHasFinalizer'
  BY DEF Quiet, SameMarks, DeletedHasFinalizer, HasFinalizer, Deleted
<1>3. NoOrphanedVM'
  BY DEF Quiet, SameMarks, NoNewVM, NoOrphanedVM
<1>4. cache' \in {cache, machines}
  BY DEF Quiet, GoesOn
<1>5. CachedLive' /\ CachedDeleted'
  BY <1>1, <1>4 DEF Quiet, SameMarks, CachedLive, CachedDeleted
<1>6. HandlerIsRight'
  <2>1. CASE pc' = "idle"
    BY <2>1 DEF HandlerIsRight, HandlesLive, HandlesDeleted
  <2>2. CASE GoesOn /\ pc' # "idle"
    <3>1. pc # "idle"
      BY <2>2 DEF GoesOn, HandlesLive, HandlesDeleted
    <3>2. key \in Machines /\ name \in Names /\ name' = name
      BY <2>2, <3>1, HandlerObjects DEF TypeOK, WorkerTypeOK, GoesOn, name
    <3>3. pc' \in HandlesLive => HasFinalizer(machines'[key])
      BY <2>2, <3>2 DEF GoesOn, HandlerIsRight, Quiet, SameMarks, HandlesLive, HandlesDeleted
    <3>4. pc' \in HandlesDeleted => ~Live(machines'[key]) /\ ~Live(cache[key])
      BY <1>1, <2>2, <3>2
      DEF GoesOn, HandlerIsRight, Quiet, SameMarks, HandlesLive, HandlesDeleted
    <3>5. pc' = "addFinalizer" /\ ~HasFinalizer(machines'[key]) => ~Deleted(cache[key])
      BY <2>2, <3>2 DEF GoesOn, HandlerIsRight, Quiet, SameMarks, HandlesLive, HandlesDeleted
    <3>6. pc' \in {"deleteNode", "removeFinalizer"} => vms'[name] = Absent
      BY <2>2, <3>2 DEF GoesOn, HandlerIsRight, Quiet, NoNewVM, HandlesLive
    <3> QED  BY <2>2, <3>2, <3>3, <3>4, <3>5, <3>6 DEF GoesOn, HandlerIsRight
  <2> QED  BY <2>1, <2>2 DEF Quiet
<1> QED  BY <1>2, <1>3, <1>5, <1>6

-----------------------------------------------------------------------------
(* Which steps are quiet. *)

\* One in which Machines and VirtualMachines stay as they are.
LEMMA StillIsQuiet ==
  ASSUME UNCHANGED <<machines, vms>>
  PROVE  SameMarks /\ NoNewVM
BY DEF SameMarks, NoNewVM

\* One that stores a Machine with the marks it had.
LEMMA PatchIsQuiet ==
  ASSUME TypeOK, NEW k \in Machines, NEW o \in Machine, machines[k] \in Machine,
         o.deleted = machines[k].deleted, o.finalizer = machines[k].finalizer,
         machines' = [machines EXCEPT ![k] = o]
  PROVE  SameMarks
<1>1. Absent \notin Machine
  BY TenantAssumption
<1> QED  BY <1>1 DEF SameMarks, HasFinalizer, Deleted, Has, TypeOK, TenantTypeOK

\* A call that ends the Reconcile and leaves the marks alone.
LEMMA EndIsQuiet ==
  ASSUME NEW r, Return(r) \/ Restart, SameMarks, NoNewVM
  PROVE  Quiet
BY DEF Quiet, Return, Restart, Done

\* A call that failed: the Reconcile ends, or reports an error of the Machine it has.
LEMMA FailsIsQuiet ==
  ASSUME Fails, SameMarks, NoNewVM
  PROVE  Quiet
<1>1. CASE Return(TRUE)
  BY <1>1, EndIsQuiet
<1>2. CASE /\ pc \in ReportedCalls \cup UpdateCalls /\ pc' \in {"reportError", "patchMachine"}
           /\ UNCHANGED <<cache, key>>
  BY <1>2 DEF Quiet, GoesOn, ReportedCalls, UpdateCalls, HandlesLive
<1> QED  BY <1>1, <1>2 DEF Fails, Reports, PatchAfterError, Goto

\* A call that is refused or not sent, and a panic.
LEMMA FailedCallIsQuiet ==
  ASSUME Refused \/ Unsent \/ Panic
  PROVE  Quiet
<1>1. SameMarks /\ NoNewVM
  BY StillIsQuiet DEF Refused, Unsent, Panic, clusterVars, infraVars, tenantVars
<1> QED  BY <1>1, EndIsQuiet, FailsIsQuiet DEF Refused, Unsent, Panic

\* Every call is quiet but the three that add and remove the finalizer and create the
\* VirtualMachine: it patches what the marks do not depend on, or reads, or writes the
\* Node, or takes a VirtualMachine away.
LEMMA QuietCalls ==
  ASSUME TypeOK, FinalizerInv, Call, pc \notin {"addFinalizer", "removeFinalizer", "createVM"}
  PROVE  Quiet
<1>1. pc # "idle"
  BY DEF Call, addFinalizer, setDeleting, drain, getForDelete, deleteVM, existsAfterDelete,
         deleteNode, removeFinalizer, exists, setProvisioning, getUserData, createSecret,
         createVM, getForUpdate, updateVM, getVMI, patchMachine, patchStatus, setRunning,
         failAnnotation, failStatus, reportError
<1>2. key \in Machines /\ name \in Names /\ m \in Machine /\ version \in Machine
  BY <1>1, HandlerObjects DEF TypeOK, WorkerTypeOK
<1>3. PatchAccepted(key) => machines[key] \in Machine
  BY <1>2 DEF PatchAccepted, TypeOK, TenantTypeOK
<1>4. /\ UNCHANGED clusterVars => SameMarks /\ NoNewVM
      /\ UNCHANGED machines => SameMarks
      /\ UNCHANGED infraVars => NoNewVM
      /\ UNCHANGED tenantVars => SameMarks
  <2>1. /\ UNCHANGED clusterVars => UNCHANGED machines /\ UNCHANGED vms
        /\ UNCHANGED infraVars => UNCHANGED vms
        /\ UNCHANGED tenantVars => UNCHANGED machines
    BY DEF clusterVars, infraVars, tenantVars
  <2>2. UNCHANGED vms => NoNewVM
    BY DEF NoNewVM
  <2>3. UNCHANGED machines => SameMarks
    BY DEF SameMarks
  <2> QED  BY <2>1, <2>2, <2>3
<1>5. Refused \/ Unsent \/ Panic => Quiet
  BY FailedCallIsQuiet
<1>6. ASSUME NEW r, Return(r) \/ Restart, SameMarks, NoNewVM  PROVE Quiet
  BY <1>6, EndIsQuiet
<1>7. ASSUME NEW o \in Machine, PatchAccepted(key), StoreMachine(key, o),
             o.deleted = machines[key].deleted, o.finalizer = machines[key].finalizer
      PROVE  SameMarks
  BY <1>2, <1>3, <1>7, PatchIsQuiet DEF StoreMachine
<1>8. GoesOn /\ SameMarks /\ NoNewVM => Quiet
  BY DEF Quiet
<1>9. ASSUME NEW p \in Phases, PatchAccepted(key), StoreMachine(key, UpdatedStatus(p))
      PROVE  SameMarks
  <2>1. /\ UpdatedStatus(p) \in Machine
        /\ UpdatedStatus(p).deleted = machines[key].deleted
        /\ UpdatedStatus(p).finalizer = machines[key].finalizer
    BY <1>2, <1>3, <1>9, UpdatedStatusType
  <2> QED  BY <1>7, <1>9, <2>1
<1>10. Fails /\ SameMarks /\ NoNewVM => Quiet
  BY FailsIsQuiet
<1>20. CASE setDeleting
  <2>1. ASSUME NEW l \in {"drain", "getForDelete"}, NEW a, GotoWith(l, a)  PROVE GoesOn
    BY <1>20, <2>1 DEF setDeleting, GotoWith, GoesOn, HandlesDeleted
  <2>2. "Deleting" \in Phases
    BY DEF Phases, NoPhase
  <2> QED  BY <1>20, <2>1, <2>2, <1>4, <1>5, <1>6, <1>8, <1>9, <1>10
           DEF setDeleting, updateStatus, WriteTenant, Lost
<1>21. CASE setProvisioning \/ setRunning \/ failStatus \/ reportError
  <2>1. {"Provisioning", "Running", "Provisioned", "Failed", "empty"} \subseteq Phases
    BY DEF Phases, NoPhase
  <2>2. CASE setProvisioning
    BY <2>1, <2>2, <1>4, <1>5, <1>6, <1>9, <1>10 DEF setProvisioning, updateStatus, WriteTenant, Lost
  <2>3. CASE setRunning
    <3>1. Goto("reportError") => GoesOn
      BY <2>3 DEF setRunning, Goto, GoesOn, HandlesLive
    <3> QED
      BY <2>1, <2>3, <3>1, <1>4, <1>5, <1>6, <1>8, <1>9, <1>10
      DEF setRunning, Reports, updateStatus, WriteTenant, Lost
  <2>4. CASE failStatus
    BY <2>1, <2>4, <1>4, <1>5, <1>6, <1>9, <1>10 DEF failStatus, updateStatus, WriteTenant, Lost
  <2>5. CASE reportError
    BY <2>1, <2>5, <1>4, <1>5, <1>6, <1>9, <1>10 DEF reportError, updateStatus, WriteTenant, Lost
  <2> QED  BY <1>21, <2>2, <2>3, <2>4, <2>5
<1>22. CASE failAnnotation
  <2> DEFINE patched == PatchedMachine(m, [m EXCEPT !.instanceState = "Unknown"], machines[key])
  <2>1. [m EXCEPT !.instanceState = "Unknown"] \in Machine
    BY <1>2 DEF Machine, InstanceStates
  <2>2. PatchAccepted(key) => /\ patched \in Machine
                              /\ patched.deleted = machines[key].deleted
                              /\ patched.finalizer = machines[key].finalizer
    BY <2>1, <1>2, <1>3, PatchedMachineType
  <2>3. GotoWith("failStatus", patched) => GoesOn
    BY <1>22 DEF failAnnotation, GotoWith, GoesOn, HandlesLive
  <2>4. WriteTenant(PatchAccepted(key), StoreMachine(key, patched),
                    GotoWith("failStatus", patched))
    BY <1>22 DEF failAnnotation
  <2> HIDE DEF patched
  <2> QED  BY <2>2, <2>3, <2>4, <1>4, <1>5, <1>6, <1>7, <1>8, <1>10 DEF WriteTenant, Lost
<1>23. CASE patchMachine
  <2> DEFINE patched == PatchedMachine(origin, m, machines[key])
             then == /\ pc' = "patchStatus" /\ version' = patched
                     /\ m' = WithStatus(Decoded(patched, m), m)
                     /\ UNCHANGED <<cache, queue, key, origin, vm>>
  <2>1. origin \in Machine
    BY <1>23 DEF patchMachine, TypeOK, WorkerTypeOK, HandlerTypeOK
  <2>2. PatchAccepted(key) => /\ patched \in Machine
                              /\ patched.deleted = machines[key].deleted
                              /\ patched.finalizer = machines[key].finalizer
    BY <2>1, <1>2, <1>3, PatchedMachineType
  <2>3. then => GoesOn
    BY <1>23 DEF patchMachine, GoesOn, HandlesLive
  <2>4. WriteTenant(PatchAccepted(key), StoreMachine(key, patched), then)
    BY <1>23 DEF patchMachine
  <2> HIDE DEF patched, then
  <2> QED  BY <2>2, <2>3, <2>4, <1>4, <1>5, <1>6, <1>7, <1>8, <1>10 DEF WriteTenant, Lost
<1>24. CASE patchStatus
  <2> DEFINE patched == PatchedStatus(origin, m, machines[key])
  <2>1. origin \in Machine
    BY <1>24 DEF patchStatus, TypeOK, WorkerTypeOK, HandlerTypeOK
  <2>2. PatchAccepted(key) => /\ patched \in Machine
                              /\ patched.deleted = machines[key].deleted
                              /\ patched.finalizer = machines[key].finalizer
    BY <2>1, <1>2, <1>3, PatchedStatusType
  <2>3. GotoWith("setRunning", patched) \/ GotoWith("reportError", patched) => GoesOn
    BY <1>24 DEF patchStatus, GotoWith, GoesOn, HandlesLive
  <2>4. WriteTenant(StatusPatchAccepted, StoreMachine(key, patched),
                    IF vm # Absent /\ vm.ready THEN GotoWith("setRunning", patched)
                    ELSE IF Decoded(patched, m).phase = "" THEN GotoWith("reportError", patched)
                    ELSE Return(TRUE))
    BY <1>24 DEF patchStatus
  <2> HIDE DEF patched
  <2> QED  BY <2>2, <2>3, <2>4, <1>4, <1>5, <1>6, <1>7, <1>8, <1>10
           DEF WriteTenant, Lost, StatusPatchAccepted
<1>25. CASE drain
  <2>1. Goto("getForDelete") => GoesOn
    BY <1>25 DEF drain, Goto, GoesOn, HandlesDeleted
  <2>2. UNCHANGED <<machines, uids, userData>> => UNCHANGED machines
    OBVIOUS
  <2> QED  BY <1>25, <2>1, <2>2, <1>4, <1>5, <1>6, <1>8, <1>10 DEF drain, WriteTenant, Lost
<1>26. CASE deleteNode
  <2>1. Goto("removeFinalizer") => GoesOn
    BY <1>26 DEF deleteNode, Goto, GoesOn, HandlesDeleted, FinalizerInv, HandlerIsRight
  <2>2. UNCHANGED <<machines, uids, userData>> => UNCHANGED machines
    OBVIOUS
  <2> QED  BY <1>26, <2>1, <2>2, <1>4, <1>5, <1>6, <1>8, <1>10 DEF deleteNode, WriteTenant, Lost
<1>27. CASE getForDelete
  <2>1. Goto("existsAfterDelete") \/ Goto("deleteVM") => GoesOn
    BY <1>27 DEF getForDelete, Goto, GoesOn, HandlesDeleted
  <2>2. ASSUME NEW e, DeleteFails(e), UNCHANGED clusterVars  PROVE Quiet
    BY <2>1, <2>2, <1>4, <1>6, <1>8 DEF DeleteFails
  <2> QED  BY <1>27, <2>1, <2>2, <1>4, <1>5, <1>8 DEF getForDelete, Read
<1>28. CASE deleteVM
  <2>1. Goto("existsAfterDelete") => GoesOn
    BY <1>28 DEF deleteVM, Goto, GoesOn, HandlesDeleted
  <2>2. DeleteVirtualMachineAccepted(name) /\ DeleteVirtualMachine(name) => NoNewVM
    BY <1>2 DEF DeleteVirtualMachineAccepted, DeleteVirtualMachine, NoNewVM, TypeOK, InfraTypeOK
  <2> QED  BY <1>28, <2>1, <2>2, <1>4, <1>5, <1>6, <1>8, <1>10 DEF deleteVM, WriteInfra, Lost
<1>29. CASE existsAfterDelete
  <2>1. /\ vms[name] = Absent
        /\ Goto("deleteNode") \/ Goto("removeFinalizer")
        => GoesOn
    BY <1>29 DEF existsAfterDelete, Goto, GoesOn, HandlesDeleted
  <2> QED  BY <1>29, <2>1, <1>4, <1>5, <1>6, <1>8 DEF existsAfterDelete, Read
<1>30. CASE exists
  <2>1. ASSUME NEW l \in HandlesLive, Goto(l)  PROVE GoesOn
    BY <1>30, <2>1 DEF exists, Goto, GoesOn, HandlesLive
  <2>2. {"getForUpdate", "failAnnotation", "setProvisioning", "getUserData"}
          \subseteq HandlesLive
    BY DEF HandlesLive
  <2> QED  BY <1>30, <2>1, <2>2, <1>4, <1>5, <1>8 DEF exists, Read
<1>31. CASE getUserData
  <2>1. Goto("failAnnotation") \/ Goto("createSecret") => GoesOn
    BY <1>31 DEF getUserData, Goto, GoesOn, HandlesLive
  <2>2. ASSUME NEW e, CreateFails(e), UNCHANGED clusterVars  PROVE Quiet
    BY <2>1, <2>2, <1>4, <1>6, <1>8 DEF CreateFails
  <2> QED  BY <1>31, <2>1, <2>2, <1>4, <1>5, <1>6, <1>8 DEF getUserData, Read
<1>32. CASE createSecret
  <2>1. Goto("createVM") => GoesOn
    BY <1>32 DEF createSecret, Goto, GoesOn, HandlesLive
  <2>2. CreateSecret(name) => NoNewVM
    BY DEF CreateSecret, NoNewVM
  <2> QED  BY <1>32, <2>1, <2>2, <1>4, <1>5, <1>6, <1>8, <1>10 DEF createSecret, WriteInfra, Lost
<1>33. CASE getForUpdate
  <2>1. ASSUME pc' = "updateVM", UNCHANGED <<cache, queue, key, m, origin, version>>
        PROVE  GoesOn
    BY <1>33, <2>1 DEF getForUpdate, GoesOn, HandlesLive
  <2>2. Goto("reportError") => GoesOn
    BY <1>33 DEF getForUpdate, Goto, GoesOn, HandlesLive
  <2> QED  BY <1>33, <2>1, <2>2, <1>4, <1>5, <1>6, <1>8, <1>10 DEF getForUpdate, Read, Reports
<1>34. CASE updateVM
  <2> DEFINE v == UpdatedVM(vm, CreateVirtualMachineFromMachine(m.config), m.instanceState)
  <2>1. StartSync(v) => GoesOn
    BY <1>34 DEF updateVM, StartSync, FinishSync, GoesOn, HandlesLive
  <2>2. UpdateVirtualMachineAccepted(name, vm) /\ UpdateVirtualMachine(name, v) => NoNewVM
    <3>1. vm # Absent
      BY <1>34 DEF updateVM, TypeOK, WorkerTypeOK, HandlerTypeOK
    <3> HIDE DEF v
    <3> QED  BY <3>1, <1>2
             DEF UpdateVirtualMachineAccepted, UpdateVirtualMachine, NoNewVM, TypeOK, InfraTypeOK
  <2>3. WriteInfra(UpdateVirtualMachineAccepted(name, vm), UpdateVirtualMachine(name, v),
                   StartSync(v))
    BY <1>34 DEF updateVM
  <2> HIDE DEF v
  <2> QED  BY <2>1, <2>2, <2>3, <1>4, <1>5, <1>6, <1>8, <1>10 DEF WriteInfra, Lost
<1>35. CASE getVMI
  <2>1. FinishSync(vm, TRUE) => GoesOn
    BY <1>35 DEF getVMI, FinishSync, GoesOn, HandlesLive
  <2> QED  BY <1>35, <2>1, <1>4, <1>5, <1>6, <1>8, <1>10 DEF getVMI, Read
<1> QED
  BY <1>20, <1>21, <1>22, <1>23, <1>24, <1>25, <1>26, <1>27, <1>28, <1>29, <1>30, <1>31,
     <1>32, <1>33, <1>34, <1>35 DEF Call, addFinalizer, removeFinalizer, createVM

-----------------------------------------------------------------------------
(* The steps that are not quiet. *)

\* The machine stored is not the one that was there: what must be shown of the new one
\* at its key k, with nothing else changed, so that the invariant holds again.
LEMMA NewMarks ==
  ASSUME TypeOK, FinalizerInv, NEW k \in Machines, NEW o \in Machine \cup {Absent},
         machines' = [machines EXCEPT ![k] = o], UNCHANGED <<vms, cache>>,
         Deleted(o) => HasFinalizer(o),
         Live(cache[k]) => HasFinalizer(o),
         Deleted(cache[k]) => ~Live(o),
         HasFinalizer(o) \/ ~HasFinalizer(machines[k]) \/ vms[NameOf[k]] = Absent
  PROVE  DeletedHasFinalizer' /\ CachedLive' /\ CachedDeleted' /\ NoOrphanedVM'
<1> USE DEF FinalizerInv
<1>1. machines'[k] = o /\ \A j \in Machines \ {k} : machines'[j] = machines[j]
  BY DEF TypeOK, TenantTypeOK
<1>2. DeletedHasFinalizer'
  BY <1>1 DEF DeletedHasFinalizer, Deleted, HasFinalizer
<1>3. CachedLive'
  BY <1>1 DEF CachedLive
<1>4. CachedDeleted'
  BY <1>1 DEF CachedDeleted
<1>5. NoOrphanedVM'
  <2> SUFFICES ASSUME NEW n \in Names, vms[n] # Absent
               PROVE  \E j \in Machines : NameOf[j] = n /\ HasFinalizer(machines'[j])
    BY DEF NoOrphanedVM
  <2>1. PICK j \in Machines : NameOf[j] = n /\ HasFinalizer(machines[j])
    BY DEF NoOrphanedVM
  <2>2. j = k => HasFinalizer(o)
    BY <2>1
  <2> QED  BY <1>1, <2>1, <2>2
<1> QED  BY <1>2, <1>3, <1>4, <1>5

\* An Update refused or never sent is quiet; one that is stored ends the Reconcile,
\* whether its answer arrives or not.
LEMMA StoredUpdate ==
  ASSUME TypeOK, FinalizerInv, NEW o, pc \notin ReportedCalls \cup UpdateCalls,
         WriteTenant(UpdateAccepted(key, version, m), StoreMachine(key, o), Return(FALSE))
  PROVE  \/ Quiet
         \/ /\ machines[key] = version
            /\ machines' = [machines EXCEPT ![key] = o]
            /\ UNCHANGED <<vms, cache>> /\ pc' = "idle"
<1>1. CASE Refused \/ Unsent
  BY <1>1, FailedCallIsQuiet
<1>2. CASE /\ UpdateAccepted(key, version, m) /\ StoreMachine(key, o) /\ UNCHANGED infraVars
           /\ \E r \in BOOLEAN : Return(r)
  BY <1>2 DEF UpdateAccepted, StoreMachine, Return, Done, infraVars
<1>3. Fails => Return(TRUE)
  BY DEF Fails
<1> QED  BY <1>1, <1>2, <1>3 DEF WriteTenant, Lost

\* The finalizer is added to a Machine the controller has not seen deleted.
LEMMA AddFinalizerStep ==
  ASSUME TypeOK, FinalizerInv, addFinalizer
  PROVE  FinalizerInv'
<1> DEFINE o == UpdatedMachine(version, [m EXCEPT !.finalizer = TRUE])
<1>1. key \in Machines /\ m \in Machine /\ version \in Machine /\ pc = "addFinalizer"
  BY HandlerObjects DEF addFinalizer, TypeOK, WorkerTypeOK
<1>2. o \in Machine /\ o.finalizer /\ o.deleted = version.deleted
  <2>1. [m EXCEPT !.finalizer = TRUE] \in Machine /\ [m EXCEPT !.finalizer = TRUE].finalizer
    BY <1>1 DEF Machine
  <2> QED  BY <1>1, <2>1, UpdatedMachineType
<1>3. Absent \notin Machine
  BY TenantAssumption
<1>4. WriteTenant(UpdateAccepted(key, version, m), StoreMachine(key, o), Return(FALSE))
  BY DEF addFinalizer
<1> HIDE DEF o
<1>5. HasFinalizer(o)
  BY <1>2, <1>3 DEF HasFinalizer, Has
<1>6. CASE /\ machines[key] = version /\ machines' = [machines EXCEPT ![key] = o]
           /\ UNCHANGED <<vms, cache>> /\ pc' = "idle"
  <2>1. Deleted(cache[key]) => ~Live(o)
    <3>1. HasFinalizer(machines[key]) => ~Deleted(cache[key]) \/ ~Live(machines[key])
      BY <1>1 DEF FinalizerInv, CachedDeleted
    <3>2. ~HasFinalizer(machines[key]) => ~Deleted(cache[key])
      BY <1>1 DEF FinalizerInv, HandlerIsRight
    <3> QED  BY <3>1, <3>2, <1>2, <1>6 DEF Live
  <2>2. DeletedHasFinalizer' /\ CachedLive' /\ CachedDeleted' /\ NoOrphanedVM'
    BY <1>1, <1>2, <1>5, <1>6, <2>1, NewMarks
  <2> QED  BY <1>6, <2>2 DEF FinalizerInv, HandlerIsRight, HandlesLive, HandlesDeleted
<1>7. pc \notin ReportedCalls \cup UpdateCalls
  BY <1>1 DEF ReportedCalls, UpdateCalls
<1>8. \/ Quiet
      \/ /\ machines[key] = version /\ machines' = [machines EXCEPT ![key] = o]
         /\ UNCHANGED <<vms, cache>> /\ pc' = "idle"
  BY <1>4, <1>7, StoredUpdate
<1> QED  BY <1>6, <1>8, QuietStep

\* The finalizer is removed once the VirtualMachine is gone, from a Machine the cache
\* does not show as live.
LEMMA RemoveFinalizerStep ==
  ASSUME TypeOK, FinalizerInv, removeFinalizer
  PROVE  FinalizerInv'
<1> DEFINE o == UpdatedMachine(version, [m EXCEPT !.finalizer = FALSE])
<1>1. key \in Machines /\ m \in Machine /\ version \in Machine /\ pc = "removeFinalizer"
  BY HandlerObjects DEF removeFinalizer, TypeOK, WorkerTypeOK
<1>2. o \in Machine \cup {Absent} /\ ~HasFinalizer(o) /\ ~Deleted(o)
  <2>1. [m EXCEPT !.finalizer = FALSE] \in Machine /\ ~[m EXCEPT !.finalizer = FALSE].finalizer
    BY <1>1 DEF Machine
  <2> QED  BY <1>1, <2>1, UpdatedMachineType DEF HasFinalizer, Deleted, Has
<1>3. WriteTenant(UpdateAccepted(key, version, m), StoreMachine(key, o), Return(FALSE))
  BY DEF removeFinalizer
<1> HIDE DEF o
<1>4. CASE /\ machines[key] = version /\ machines' = [machines EXCEPT ![key] = o]
           /\ UNCHANGED <<vms, cache>> /\ pc' = "idle"
  <2>1. ~Live(cache[key]) /\ vms[NameOf[key]] = Absent
    BY <1>1 DEF FinalizerInv, HandlerIsRight, HandlesDeleted, name
  <2>2. ~Live(o)
    BY <1>2 DEF Live
  <2>3. DeletedHasFinalizer' /\ CachedLive' /\ CachedDeleted' /\ NoOrphanedVM'
    BY <1>1, <1>2, <1>4, <2>1, <2>2, NewMarks
  <2> QED  BY <1>4, <2>3 DEF FinalizerInv, HandlerIsRight, HandlesLive, HandlesDeleted
<1>5. pc \notin ReportedCalls \cup UpdateCalls
  BY <1>1 DEF ReportedCalls, UpdateCalls
<1>6. \/ Quiet
      \/ /\ machines[key] = version /\ machines' = [machines EXCEPT ![key] = o]
         /\ UNCHANGED <<vms, cache>> /\ pc' = "idle"
  BY <1>3, <1>5, StoredUpdate
<1> QED  BY <1>4, <1>6, QuietStep

\* A VirtualMachine is created for a Machine that has the finalizer.
LEMMA CreateVMStep ==
  ASSUME TypeOK, FinalizerInv, createVM
  PROVE  FinalizerInv'
<1> DEFINE v == NewVM(CreateVirtualMachineFromMachine(m.config), m.instanceState)
<1>1. key \in Machines /\ name \in Names /\ pc = "createVM"
  BY HandlerObjects DEF createVM, TypeOK, WorkerTypeOK
<1>2. HasFinalizer(machines[key]) /\ NameOf[key] = name
  BY <1>1 DEF FinalizerInv, HandlerIsRight, HandlesLive, name
<1>3. CASE /\ CreateVirtualMachine(name, v) /\ UNCHANGED tenantVars
           /\ cache' = cache
           /\ pc' = "idle" \/ (pc' \in {"getVMI", "patchMachine"} /\ key' = key)
  <2> HIDE DEF v
  <2>1. UNCHANGED machines
    BY <1>3 DEF tenantVars
  <2>2. NoOrphanedVM'
    BY <1>1, <1>2, <1>3, <2>1
    DEF CreateVirtualMachine, FinalizerInv, NoOrphanedVM, TypeOK, InfraTypeOK
  <2>3. DeletedHasFinalizer' /\ CachedLive' /\ CachedDeleted'
    BY <1>3, <2>1 DEF FinalizerInv, DeletedHasFinalizer, CachedLive, CachedDeleted
  <2>4. HandlerIsRight'
    BY <1>2, <1>3, <2>1 DEF HandlerIsRight, HandlesLive, HandlesDeleted
  <2> QED  BY <2>2, <2>3, <2>4 DEF FinalizerInv
<1>4. CASE Refused \/ Unsent \/ Panic
  BY <1>4, FailedCallIsQuiet, QuietStep
<1>5. CASE CreateFails(WrapError("invalid")) /\ UNCHANGED clusterVars
  <2>1. SameMarks /\ NoNewVM
    BY <1>5, StillIsQuiet DEF clusterVars, infraVars, tenantVars
  <2>2. Goto("failAnnotation") => GoesOn
    BY <1>1 DEF Goto, GoesOn, HandlesLive
  <2>3. Quiet
    BY <1>5, <2>1, <2>2, EndIsQuiet DEF CreateFails, Quiet
  <2> QED  BY <2>3, QuietStep
<1>6. ASSUME WriteInfra(CreateVirtualMachineAccepted(name), CreateVirtualMachine(name, v),
                        StartSync(v))
      PROVE  FinalizerInv'
  <2>1. StartSync(v) => /\ pc' \in {"getVMI", "patchMachine"} /\ key' = key
                        /\ cache' = cache
    BY DEF StartSync, FinishSync
  <2>2. Fails => pc' = "idle" /\ cache' = cache
    BY <1>1 DEF Fails, ReportedCalls, UpdateCalls, Return, Done
  <2> HIDE DEF v
  <2> QED  BY <1>3, <1>4, <1>6, <2>1, <2>2 DEF WriteInfra, Lost
<1> QED  BY <1>4, <1>5, <1>6 DEF createVM

\* A Reconcile starts from the cache, and the cache is right about what it is started for.
LEMMA ReconcileStep ==
  ASSUME TypeOK, FinalizerInv, NEW k \in Machines, Reconcile(k)
  PROVE  FinalizerInv'
<1>1. UNCHANGED <<machines, vms>> /\ UNCHANGED cache
  BY DEF Reconcile, clusterVars, tenantVars, infraVars, localVars
<1>2. DeletedHasFinalizer' /\ CachedLive' /\ CachedDeleted' /\ NoOrphanedVM'
  BY <1>1 DEF FinalizerInv, DeletedHasFinalizer, CachedLive, CachedDeleted, NoOrphanedVM
<1>3. CASE pc' = "idle"
  BY <1>2, <1>3 DEF FinalizerInv, HandlerIsRight, HandlesLive, HandlesDeleted
<1>4. CASE pc' = "setDeleting" /\ key' = k /\ cache[k] # Absent /\ cache[k].deleted
  <2>1. ~Live(machines[k]) /\ ~Live(cache[k])
    BY <1>4 DEF FinalizerInv, CachedDeleted, Deleted, Has, Live
  <2> QED  BY <1>1, <1>2, <1>4, <2>1 DEF FinalizerInv, HandlerIsRight, HandlesLive
<1>5. CASE pc' = "addFinalizer" /\ key' = k /\ ~cache[k].deleted
  BY <1>1, <1>2, <1>5
  DEF FinalizerInv, HandlerIsRight, HandlesLive, HandlesDeleted, Deleted
<1>6. CASE /\ pc' = "exists" /\ key' = k /\ cache[k] # Absent
           /\ ~cache[k].deleted /\ cache[k].finalizer
  <2>1. HasFinalizer(machines[k])
    BY <1>6 DEF FinalizerInv, CachedLive, Live, HasFinalizer, Has
  <2> QED  BY <1>1, <1>2, <1>6, <2>1 DEF FinalizerInv, HandlerIsRight, HandlesDeleted
<1> QED  BY <1>3, <1>4, <1>5, <1>6 DEF Reconcile, localVars

\* The cache catches up, under the feet of the Reconcile that read it.
LEMMA SyncStep ==
  ASSUME TypeOK, FinalizerInv, NEW k \in Machines, Sync(k)
  PROVE  FinalizerInv'
<1>1. /\ UNCHANGED <<machines, vms>> /\ pc' = pc /\ key' = key
      /\ cache' = [cache EXCEPT ![k] = machines[k]]
  BY DEF Sync, clusterVars, tenantVars, infraVars, localVars
<1>2. cache'[k] = machines[k] /\ \A j \in Machines \ {k} : cache'[j] = cache[j]
  BY <1>1 DEF TypeOK, WorkerTypeOK, HandlerTypeOK
<1>3. DeletedHasFinalizer' /\ NoOrphanedVM'
  BY <1>1 DEF FinalizerInv, DeletedHasFinalizer, NoOrphanedVM
<1>4. CachedLive' /\ CachedDeleted'
  BY <1>1, <1>2 DEF FinalizerInv, CachedLive, CachedDeleted, Live, Deleted
<1>5. HandlerIsRight'
  <2>1. CASE pc = "idle"
    BY <1>1, <2>1 DEF HandlerIsRight, HandlesLive, HandlesDeleted
  <2>2. CASE pc # "idle"
    <3>1. key \in Machines
      BY <2>2, HandlerObjects DEF TypeOK, WorkerTypeOK
    <3>2. name' = name
      BY <1>1 DEF name
    <3>3. pc \in HandlesDeleted => ~Live(cache'[key])
      BY <1>2, <3>1 DEF FinalizerInv, HandlerIsRight
    <3>4. pc = "addFinalizer" /\ ~HasFinalizer(machines[key]) => ~Deleted(cache'[key])
      BY <1>2, <3>1
      DEF FinalizerInv, HandlerIsRight, DeletedHasFinalizer, HasFinalizer, Deleted
    <3> QED  BY <1>1, <3>2, <3>3, <3>4 DEF FinalizerInv, HandlerIsRight
  <2> QED  BY <2>1, <2>2
<1> QED  BY <1>3, <1>4, <1>5 DEF FinalizerInv

\* Users create Machines without a finalizer, and cannot take the finalizer from one.
LEMMA UserStep ==
  ASSUME TypeOK, FinalizerInv, NEW k \in Machines, UserCreates(k) \/ UserDeletes(k),
         UNCHANGED workerVars
  PROVE  FinalizerInv'
<1>1. PICK o \in Machine \cup {Absent} :
        /\ machines' = [machines EXCEPT ![k] = o]
        /\ HasFinalizer(o) <=> HasFinalizer(machines[k])
        /\ Live(o) => Live(machines[k])
        /\ Deleted(o) => HasFinalizer(o)
  <2>1. Absent \notin Machine
    BY TenantAssumption
  <2>2. CASE UserCreates(k)
    <3>1. PICK c \in Configs : machines' = [machines EXCEPT ![k] = NewMachine(k, c)]
      BY <2>2 DEF UserCreates
    <3>2. NewMachine(k, c) \in Machine
      <4>1. uids[k] + 1 \in Nat
        <5>1. uids[k] \in 0 .. MaxIncarnations /\ MaxIncarnations \in Nat
          BY TenantAssumption DEF TypeOK, TenantTypeOK
        <5> QED  BY <5>1
      <4>2. c \in Config
        BY TenantAssumption
      <4> QED  BY <4>1, <4>2 DEF NewMachine, Machine, InstanceStates, Phases, NoPhase, ProviderIDs
    <3>3. ~HasFinalizer(NewMachine(k, c)) /\ ~Deleted(NewMachine(k, c))
      BY DEF HasFinalizer, Deleted, NewMachine
    <3>4. ~HasFinalizer(machines[k])
      BY <2>2 DEF UserCreates, HasFinalizer, Has
    <3> QED  BY <3>1, <3>2, <3>3, <3>4 DEF Live
  <2>3. CASE UserDeletes(k)
    <3>1. machines[k] \in Machine /\ ~machines[k].deleted
      BY <2>3 DEF UserDeletes, TypeOK, TenantTypeOK
    <3>2. CASE machines[k].finalizer
      <4>1. machines' = [machines EXCEPT ![k] = [machines[k] EXCEPT !.deleted = TRUE]]
        BY <2>3, <3>2 DEF UserDeletes
      <4>2. /\ [machines[k] EXCEPT !.deleted = TRUE] \in Machine
            /\ [machines[k] EXCEPT !.deleted = TRUE].deleted
            /\ [machines[k] EXCEPT !.deleted = TRUE].finalizer
        BY <3>1, <3>2 DEF Machine
      <4> QED  BY <2>1, <3>1, <3>2, <4>1, <4>2 DEF HasFinalizer, Live, Deleted, Has
    <3>3. CASE ~machines[k].finalizer
      <4>1. machines' = [machines EXCEPT ![k] = Absent]
        BY <2>3, <3>3 DEF UserDeletes
      <4> QED  BY <3>3, <4>1 DEF HasFinalizer, Live, Deleted, Has
    <3> QED  BY <3>2, <3>3
  <2> QED  BY <2>2, <2>3
<1>2. UNCHANGED <<vms, cache>> /\ pc' = pc /\ key' = key /\ name' = name
  BY DEF UserCreates, UserDeletes, infraVars, workerVars, localVars, name
<1>3. DeletedHasFinalizer' /\ CachedLive' /\ CachedDeleted' /\ NoOrphanedVM'
  BY <1>1, <1>2, NewMarks DEF FinalizerInv, CachedLive, CachedDeleted
<1>4. HandlerIsRight'
  <2>1. \A j \in Machines : /\ HasFinalizer(machines'[j]) <=> HasFinalizer(machines[j])
                            /\ Live(machines'[j]) => Live(machines[j])
    BY <1>1 DEF TypeOK, TenantTypeOK
  <2>2. CASE pc = "idle"
    BY <1>2, <2>2 DEF HandlerIsRight, HandlesLive, HandlesDeleted
  <2>3. CASE pc # "idle"
    <3>1. key \in Machines
      BY <2>3, HandlerObjects DEF TypeOK, WorkerTypeOK
    <3> QED  BY <1>2, <2>1, <3>1 DEF FinalizerInv, HandlerIsRight
  <2> QED  BY <2>2, <2>3
<1> QED  BY <1>3, <1>4 DEF FinalizerInv

\* KubeVirt, the administrators of the infra cluster, edits and the nodelink controller.
LEMMA EnvironmentIsQuiet ==
  ASSUME TypeOK, UNCHANGED workerVars,
         \/ \E n \in Names : InfraNext(n)
         \/ \E k \in Machines : \/ UserEdits(k) \/ UserEditsUserData
                                \/ NodeLink(k) \/ NodeUnlink(k)
  PROVE  Quiet
<1>1. GoesOn
  BY DEF GoesOn, workerVars, localVars
<1>2. ASSUME NEW n \in Names, InfraNext(n)
      PROVE  SameMarks /\ NoNewVM
  <2>1. UNCHANGED machines
    BY <1>2 DEF InfraNext, BootGuest, KubeletWrites, tenantVars
  <2>2. NoNewVM
    <3>1. CASE UNCHANGED vms
      BY <3>1 DEF NoNewVM
    <3>2. CASE SyncVMStatus(n) \/ FinishVM(n) \/ DropVM(n)
      <4>1. vms[n] # Absent
        BY <3>2 DEF SyncVMStatus, FinishVM, DropVM, DeleteVirtualMachineAccepted
      <4>2. \A j \in Names \ {n} : vms'[j] = vms[j]
        BY <3>2
        DEF SyncVMStatus, FinishVM, DropVM, DeleteVirtualMachine, TypeOK, InfraTypeOK
      <4> QED  BY <4>1, <4>2 DEF NoNewVM
    <3> QED  BY <1>2, <3>1, <3>2
             DEF InfraNext, KubeVirt, StartVMI, StopVMI, FailVMI, BootGuest, KubeletWrites,
                 infraVars
  <2> QED  BY <2>1, <2>2 DEF SameMarks
<1>3. ASSUME NEW k \in Machines,
             UserEdits(k) \/ UserEditsUserData \/ NodeLink(k) \/ NodeUnlink(k)
      PROVE  SameMarks /\ NoNewVM
  <2>1. NoNewVM
    BY <1>3 DEF UserEdits, UserEditsUserData, NodeLink, NodeUnlink, infraVars, NoNewVM
  <2>2. CASE UserEditsUserData
    BY <2>1, <2>2 DEF UserEditsUserData, SameMarks
  <2>3. CASE UserEdits(k) \/ NodeLink(k) \/ NodeUnlink(k)
    <3>1. machines[k] \in Machine
      BY <2>3 DEF UserEdits, NodeLink, NodeUnlink, TypeOK, TenantTypeOK
    <3>2. PICK o \in Machine : /\ machines' = [machines EXCEPT ![k] = o]
                              /\ o.deleted = machines[k].deleted
                              /\ o.finalizer = machines[k].finalizer
      <4>1. CASE UserEdits(k)
        <5>1. PICK c \in Configs : machines' = [machines EXCEPT ![k].config = c]
          BY <4>1 DEF UserEdits
        <5>2. c \in Config
          BY TenantAssumption
        <5>3. /\ [machines[k] EXCEPT !.config = c] \in Machine
              /\ [machines[k] EXCEPT !.config = c].deleted = machines[k].deleted
              /\ [machines[k] EXCEPT !.config = c].finalizer = machines[k].finalizer
          BY <3>1, <5>2 DEF Machine
        <5> QED  BY <5>1, <5>3
      <4>2. CASE NodeLink(k) \/ NodeUnlink(k)
        <5>1. PICK b \in BOOLEAN : machines' = [machines EXCEPT ![k].nodeRef = b]
          BY <4>2 DEF NodeLink, NodeUnlink
        <5>2. /\ [machines[k] EXCEPT !.nodeRef = b] \in Machine
              /\ [machines[k] EXCEPT !.nodeRef = b].deleted = machines[k].deleted
              /\ [machines[k] EXCEPT !.nodeRef = b].finalizer = machines[k].finalizer
          BY <3>1 DEF Machine
        <5> QED  BY <5>1, <5>2
      <4> QED  BY <2>3, <4>1, <4>2
    <3> QED  BY <2>1, <3>1, <3>2, PatchIsQuiet
  <2> QED  BY <1>3, <2>1, <2>2, <2>3
<1> QED  BY <1>1, <1>2, <1>3 DEF Quiet

\* Every step keeps the invariant.
LEMMA FinalizerStep ==
  ASSUME TypeOK, FinalizerInv, [Next]_vars
  PROVE  FinalizerInv'
<1>1. CASE Call
  <2>1. CASE pc \notin {"addFinalizer", "removeFinalizer", "createVM"}
    BY <1>1, <2>1, QuietCalls, QuietStep
  <2>2. CASE addFinalizer \/ removeFinalizer \/ createVM
    BY <2>2, AddFinalizerStep, RemoveFinalizerStep, CreateVMStep
  <2> QED
    BY <1>1, <2>1, <2>2
    DEF Call, setDeleting, drain, getForDelete, deleteVM, existsAfterDelete, deleteNode,
        exists, setProvisioning, getUserData, createSecret, getForUpdate, updateVM, getVMI,
        patchMachine, patchStatus, setRunning, failAnnotation, failStatus, reportError
<1>2. CASE \E k \in Machines : Reconcile(k)
  BY <1>2, ReconcileStep
<1>3. CASE \E k \in Machines : Sync(k)
  BY <1>3, SyncStep
<1>4. CASE (\E k \in Machines : Resync(k)) \/ Crash \/ UNCHANGED vars
  <2>1. UNCHANGED <<machines, vms>>
    BY <1>4 DEF Resync, Crash, vars, clusterVars, infraVars, tenantVars
  <2>2. \/ UNCHANGED <<cache, pc, key>>
        \/ pc' = "idle" /\ cache' = machines
    BY <1>4 DEF Resync, Crash, Restart, Done, vars, workerVars, localVars
  <2>3. Quiet
    BY <2>1, <2>2, StillIsQuiet DEF Quiet, GoesOn
  <2> QED  BY <2>3, QuietStep
<1>5. CASE \E n \in Names : InfraNext(n)
  <2>1. UNCHANGED workerVars
    BY <1>5 DEF InfraNext
  <2> QED  BY <1>5, <2>1, EnvironmentIsQuiet, QuietStep
<1>6. ASSUME NEW k \in Machines, TenantNext(k)
      PROVE  FinalizerInv'
  <2>1. UNCHANGED workerVars
    BY <1>6 DEF TenantNext
  <2>2. CASE UserCreates(k) \/ UserDeletes(k)
    BY <2>1, <2>2, UserStep
  <2>3. CASE UserEdits(k) \/ UserEditsUserData \/ NodeLink(k) \/ NodeUnlink(k)
    BY <2>1, <2>3, EnvironmentIsQuiet, QuietStep
  <2> QED  BY <1>6, <2>2, <2>3 DEF TenantNext
<1> QED  BY <1>1, <1>2, <1>3, <1>4, <1>5, <1>6 DEF Next, ControllerNext

-----------------------------------------------------------------------------
\* The facts that carry the two results below hold of every reachable state: what the
\* cache and a Reconcile under way (controller.go:158-378) know of a Machine's finalizer
\* and deletion stays true for as long as they act on it.
THEOREM FinalizerInvariant == Spec => []FinalizerInv
<1>1. Init => FinalizerInv
  BY DEF Init, InfraInit, TenantInit, WorkerInit, FinalizerInv, DeletedHasFinalizer,
         CachedLive, CachedDeleted, HandlerIsRight, NoOrphanedVM, HandlesLive,
         HandlesDeleted, Live, Deleted, HasFinalizer, Has
<1>2. TypeOK /\ FinalizerInv /\ [Next]_vars => FinalizerInv'
  BY FinalizerStep
<1> QED  BY <1>1, <1>2, TypeCorrect, PTL DEF Spec

\* No VirtualMachine is ever left behind: some Machine of its name has the finalizer for
\* which the controller deletes the VirtualMachine first (controller.go:244-268).
THEOREM NoOrphans == Spec => []NoOrphanedVM
<1>1. FinalizerInv => NoOrphanedVM
  BY DEF FinalizerInv
<1> QED  BY <1>1, FinalizerInvariant, PTL

\* No Node goes before its VirtualMachine in this step.
NodeGoesLast ==
  \A n \in Names : nodes[n] # Absent /\ nodes'[n] = Absent => vms[n] = Absent

\* A Node goes only by deleteNode, which is reached with the VirtualMachine gone.
LEMMA NodeStep ==
  ASSUME TypeOK, FinalizerInv, Next
  PROVE  NodeGoesLast
<1> USE DEF NodeGoesLast
<1>1. CASE UNCHANGED nodes
  BY <1>1
<1>2. CASE drain
  <2>1. name \in Names
    BY <1>2, HandlerObjects DEF drain, TypeOK, WorkerTypeOK
  <2>2. UNCHANGED nodes \/ nodes' = [nodes EXCEPT ![name] =
          IF @ = Absent THEN Absent ELSE [@ EXCEPT !.drained = TRUE]]
    BY <1>2 DEF drain, WriteTenant, Lost, Refused, Unsent, clusterVars, tenantVars
  <2>3. nodes[name] # Absent => [nodes[name] EXCEPT !.drained = TRUE] # Absent
    BY <2>1, TenantAssumption DEF TypeOK, TenantTypeOK, Node
  <2> QED  BY <1>1, <2>1, <2>2, <2>3 DEF TypeOK, TenantTypeOK
<1>3. CASE deleteNode
  <2>1. name \in Names /\ vms[name] = Absent
    BY <1>3, HandlerObjects
    DEF deleteNode, TypeOK, WorkerTypeOK, FinalizerInv, HandlerIsRight
  <2>2. UNCHANGED nodes \/ nodes' = [nodes EXCEPT ![name] = Absent]
    BY <1>3 DEF deleteNode, WriteTenant, Lost, Refused, Unsent, clusterVars, tenantVars
  <2> QED  BY <1>1, <2>1, <2>2 DEF TypeOK, TenantTypeOK
<1>4. CASE \E n \in Names : BootGuest(n) \/ KubeletWrites(n)
  <2>1. PICK n \in Names : BootGuest(n) \/ KubeletWrites(n)
    BY <1>4
  <2>2. NewNode # Absent
    BY NewNodeType, TenantAssumption
  <2>3. CASE BootGuest(n)
    BY <2>2, <2>3 DEF BootGuest, TypeOK, TenantTypeOK
  <2>4. CASE KubeletWrites(n)
    BY <2>4, KubeletKeeps DEF TypeOK
  <2> QED  BY <2>1, <2>3, <2>4
<1>5. ASSUME Call, ~drain, ~deleteNode  PROVE UNCHANGED nodes
  <2>1. ASSUME Refused \/ Unsent \/ Panic  PROVE UNCHANGED nodes
    BY <2>1 DEF Refused, Unsent, Panic, clusterVars, tenantVars
  <2>2. CASE addFinalizer \/ removeFinalizer \/ failAnnotation \/ patchMachine \/ patchStatus
    BY <2>1, <2>2 DEF addFinalizer, removeFinalizer, failAnnotation, patchMachine,
       patchStatus, WriteTenant, Lost, StoreMachine
  <2>3. CASE setDeleting \/ setProvisioning \/ setRunning \/ failStatus \/ reportError
    BY <2>1, <2>3 DEF setDeleting, setProvisioning, setRunning, failStatus, reportError,
       updateStatus, WriteTenant, Lost, StoreMachine, clusterVars, tenantVars
  <2>4. CASE createSecret \/ createVM \/ updateVM \/ deleteVM
    BY <2>1, <2>4 DEF createSecret, createVM, updateVM, deleteVM, WriteInfra, Lost,
       clusterVars, tenantVars
  <2>5. CASE getForDelete \/ existsAfterDelete \/ exists \/ getUserData
    BY <2>1, <2>5 DEF getForDelete, existsAfterDelete, exists, getUserData, Read,
       clusterVars, tenantVars
  <2>6. CASE getForUpdate \/ getVMI
    BY <2>1, <2>6 DEF getForUpdate, getVMI, Read, clusterVars, tenantVars
  <2> QED  BY <1>5, <2>2, <2>3, <2>4, <2>5, <2>6 DEF Call
<1>6. ASSUME NEW k \in Machines, Reconcile(k) \/ Sync(k) \/ Resync(k)
      PROVE  UNCHANGED nodes
  BY <1>6 DEF Reconcile, Sync, Resync, clusterVars, tenantVars
<1>7. Crash => UNCHANGED nodes
  BY DEF Crash, clusterVars, tenantVars
<1>8. ASSUME NEW n \in Names, InfraNext(n), ~BootGuest(n), ~KubeletWrites(n)
      PROVE  UNCHANGED nodes
  BY <1>8 DEF InfraNext, tenantVars
<1>9. ASSUME NEW k \in Machines, TenantNext(k)
      PROVE  UNCHANGED nodes
  BY <1>9 DEF TenantNext, UserCreates, UserDeletes, UserEdits, UserEditsUserData,
              NodeLink, NodeUnlink
<1> QED
  BY <1>1, <1>2, <1>3, <1>4, <1>5, <1>6, <1>7, <1>8, <1>9 DEF Next, ControllerNext

\* No Node is deleted while its VirtualMachine is there (controller.go:250-261).
THEOREM NodesOutliveVMs == Spec => NodeOutlivesVM
<1>1. TypeOK /\ FinalizerInv /\ [Next]_vars => [NodeGoesLast]_vars
  BY NodeStep
<1> QED  BY <1>1, TypeCorrect, FinalizerInvariant, PTL DEF Spec, NodeOutlivesVM, NodeGoesLast
=============================================================================
