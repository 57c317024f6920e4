# machine-api-provider-kubevirt in TLA+

The provider makes virtual machines of a KubeVirt cluster (the *infra cluster*) the
nodes of an OpenShift cluster (the *tenant cluster*). For every `Machine` object of the
tenant cluster it creates a `VirtualMachine` in the infra cluster, keeps the two in step,
and deletes the `VirtualMachine` before the `Machine` goes. It is one process with one
worker per controller; everything it knows of a Machine comes from a watch cache that may
be behind, everything it does is a sequence of requests to two API servers, and every one
of these may fail, take effect without its answer arriving, or be the last thing the
process does. This project models that process, the two clusters as it sees them, and
checks and proves what holds in between.

## The system

| part | source | state | operations |
|---|---|---|---|
| machine controller | `vendor/.../machine-api-operator/pkg/controller/machine/controller.go` | none of its own; phase, finalizer and deletion of the Machine | `Reconcile`, `updateStatus`, `drainNode`, `deleteNode` |
| actuator | `pkg/actuator/actuator.go` | infra ID and namespace, read once; the handler's copy of the Machine and `originMachineCopy` | `New`, `Create`, `Update`, `Delete`, `Exists`, `getUserData`, `patchMachine` |
| kubevirt wrapper | `pkg/kubevirt/kubevirt.go` | none | `Create`, `Update`, `Delete`, `Exists`, `syncMachine` |
| machine scope | `pkg/machinescope/*.go` | none | conversions Machine -> VirtualMachine and back |
| infra cluster client | `pkg/clients/infracluster/client.go` | secrets, VirtualMachines, instances (in the cluster) | `New`, create, get, update, delete |
| tenant cluster client | `pkg/clients/tenantcluster/client.go` | Machines, Nodes, user data secret, ConfigMap (in the cluster) | `PatchMachine`, `StatusPatchMachine`, `GetSecret`, `GetConfigMapValue` |
| controller process | `vendor/sigs.k8s.io/controller-runtime/.../controller.go`, `cmd/manager/main.go` | informer cache, work queue | start, hand out a key, requeue, resync |
| nodeupdate controller | `pkg/controller/nodeupdate/nodeupdate_controller.go` | none; provider ID and existence of Nodes | `Add`, `Reconcile` |
| startup | `cmd/manager/main.go` | credentials and ConfigMap, as found when the process starts | the steps of `main` |

`Reconcile` takes a key from the queue, reads the Machine from the cache and calls the
actuator; the actuator reads the user data, calls the wrapper and patches the Machine; the
wrapper calls the infra cluster. There are no callbacks: the only ways back are the watch
on Machines and the requeue. Nothing watches the infra cluster. The nodeupdate controller
runs beside it in the same process, with a queue, a cache and a worker of its own: for
every Node it looks up the VirtualMachine of the same name, in the namespace the ConfigMap
names at that moment, gives the Node its provider ID when the VirtualMachine is ready and
deletes the Node when there is none. The two controllers never call each other; they meet
in the Nodes, the VirtualMachines and in a crash or panic, which stops both.

What is hard: the decision (create, update, fail, delete) is made on a cached Machine and
acted on several requests later; the finalizer protocol has to survive a restart between
any two of them; the Machine and the VirtualMachine are copied into each other; errors
change their type on the way up; keys are recreated while traces of the earlier Machine
are still around; two controllers delete the same Nodes from two caches; one of them reads
the configuration once, the other every time; a process that is started again may find
another configuration than the one before it; and a start that half succeeds leaves a
process that runs and cannot work. `PROJECT.json` lists these hazards at their lines, with
the properties that would catch each of them.

## Modules

The first nine, up to `MachineController`, build on one another in this order.

* `ProviderConfig` - the ConfigMap and what `GetConfigMapValue` and `actuator.New` make of it.
* `MachineScope` - the pure functions: which configurations are valid
  (`assertMandatoryParams`, `BuildOutcome`), what they turn into
  (`CreateVirtualMachineFromMachine`), what a VirtualMachine turns a Machine into
  (`SyncMachine`), what becomes of user data.
* `InfraCluster` - secrets, VirtualMachines and instances, the requests the provider makes
  (each with the condition under which the server accepts it), and, external, KubeVirt's
  and the administrators' steps.
* `TenantCluster` - Machines, Nodes and the user data, updates and merge patches, the
  decoding of an answer into the caller's copy, and, external, users, kubelet and the
  nodelink controller.
* `Worker` - cache, queue and the local variables of the Reconcile in progress; how a call
  continues, returns, fails, is lost or ends the process.
* `MachineErrors` - what type an error has when it arrives, and what follows from it.
* `KubevirtVM`, `Actuator`, `MachineController` - one action per request, named after it;
  `pc` names the next request. What the code does between two requests is part of the step
  that follows the first. `MachineController` also composes everything (`Next`, `Spec`).
* `MachineLifecycle` - the abstract specification: Machines claim a name, are condemned and
  release it; a name is backed by a VirtualMachine once and joined by a Node. It knows
  nothing of caches, handlers, requests, faults and restarts.
* `MachineProperties` - the properties, the fairness, `FinalizerInv`, and the mapping
  (`Lifecycle`) under which the detailed specification implements `MachineLifecycle`.
* `Process` - the process the machine controller runs in: the ConfigMap, and the namespace the
  actuator was started with (`serving`), which nothing reads again. A second namespace of the
  infra cluster is a second instance of `MachineController` (`Elsewhere`) with secrets,
  VirtualMachines and instances of its own, on the same Machines, Nodes and worker.
* `NodeUpdate` - the nodeupdate controller (one action per request, `nodePc` the next one),
  and its composition with the machine controller and the process (`Stops`, `Start`,
  `SystemNext`, `SystemSpec`).
* `SystemProperties` - what the two controllers guarantee together.
* `Startup` - the steps of `main`, the restart after one that fails, and administrators who
  write the credentials and the ConfigMap meanwhile, one request after the other. Stands alone
  (with `ProviderConfig`): what a process does once it runs, and where, is the business of
  `Process` and `NodeUpdate`, and of it only the call of the actuator is left.
* `MCMachineController`, `MCSystem`, `MCStartup` - constants for TLC.
* `TypeProofs`, `FinalizerProofs`, `LifecycleProofs`, `CopiesProofs`, `PhaseProofs` - the
  theorems about `Spec`, each module building on the one before; `SystemProofs` - those about
  `SystemSpec`; `StartupProofs` - the one about `StartupSpec`.

### How the code is abstracted

* A resource version is the content of the object (with a `uid` per incarnation): an
  update is refused if the object differs from the one read. That is what the API server's
  check amounts to, except that a change and its exact reversal in between go unnoticed.
* A merge patch carries the fields in which two copies of the caller differ. The answer is
  unmarshalled into the caller's copy, so a field that is empty in the answer keeps the
  value it had there (`Decoded`). The phase is a pointer: `""` is nil, `"empty"` a pointer
  to the empty string; the difference decides whether a patch mentions it.
* A watch delivers the current object (`Sync`); the versions it skips are covered by the
  cache being arbitrarily far behind. Delays and backoff are not modelled: a key that is
  queued is handed out some time.
* A call has three outcomes: done, failed before it took effect, done with the answer lost.
  A request does not take effect after its caller has given up.
* `Crash` is a restart at any point. A panic (`resource.MustParse`, the writes to a nil map
  in `addHostnameToUserData`) is a restart too, and costs no fault: nothing recovers it.
* A deleted VirtualMachine is gone at once or stays, terminating, until its instance is
  gone; the caller's `DeleteOptions` are dropped by `deleteResource`. The update sent by
  the wrapper has no finalizers, so it releases a VirtualMachine that is terminating.
* An error of the wrapper is returned only after the Machine is patched with an unchanged
  copy. That matters only for a copy without a phase, which the answers may give one; the
  two requests are taken in that case and left out otherwise (`PatchAfterError`).
* The nodeupdate controller reads its Node from the cache and then the ConfigMap from the
  server. The two are one step: a Node that is delivered in between might as well have been
  delivered just after. A ConfigMap that cannot be read leaves the Node in the queue, which
  is no step at all.
* `MachineController` by itself is a process that always has its actuator, in
  `InfraNamespace`: `Crash` and a panic start it again at once. In `NodeUpdate` they stop it,
  and `Start` brings it up under the ConfigMap as it is then: in the same namespace, in the
  other one, without an actuator (the ConfigMap is missing or cannot be read: every Machine
  that is picked up panics), or not at all (it has no infra ID or no namespace). How a start
  fails half-way is `Startup`.
* The code checks that the ConfigMap has the key of the namespace and not that it says
  anything. The empty namespace is therefore a value like any other, and one in which the
  client refuses to create (`CreateSecretAccepted`); a missing key is `NoKey`.
* A Node has a status its kubelet writes, which is how the update of the nodeupdate controller
  meets a conflict. Kubelets write all the time; the writes are bounded like an upset.
* `deleteNode` of the machine controller lists the Nodes from a cache that may not show the
  Node yet, and then goes on. That is possible at any time and costs a fault here; it is a
  bound, not a restriction: the runs about deletions have a fault to spend.
* Left out because no decision depends on it: provider status, conditions, error reason and
  message, `LastUpdated`, the VM ID annotation, labels, events, metrics, logs; the fields
  `RequestedCPU`, `StorageClassName` and `CredentialsSecretName` of the provider spec.

## Runs

All bounds are guards: `MaxUpsets` (a VirtualMachine dropped, an instance failing, a Machine
or the user data or the ConfigMap edited, a Node written by its kubelet), `MaxFaults` (a
failed or lost call, a crash), `MaxIncarnations` (how often a Machine of one key is created).
One fault and one upset, at any point, are enough for every hazard on the list: each is one
interruption, followed by retries without one. Deadlock is not checked: with no Machine left
and the bounds used up, the system rightly stops. `startup` does check it: somebody can
always bring a Machine.

The runs have one Machine, except `shared_name`. Machines of different names touch disjoint
objects, but they share the worker and the process. The worker takes one Machine after the
other, so what it does for another one is, for this one, a delay. The process is another
matter: a Machine whose configuration or user data panic restarts it for all, over and over.
For the safety of the others each of these restarts is a crash, which the runs have at any
point once and the proofs any number of times, and the theorems are about any number of
Machines. Their progress is not covered: it would depend on the order of the queue after a
restart and on the back-off of the kubelet, neither of which is modelled. The hazard is on the
list, without a property.

| run | bounds | shows |
|---|---|---|
| `lifecycle` | 10 configurations and 3 kinds of user data, with every error and panic of the conversions; 1 upset, 1 fault | `NoOrphanedVM`, `NodeOutlivesVM`, `DrainedBeforeDelete`, `VMNeverReplaced`, `ValidVMsOnly`, `FailedMeansNoVM`, `ProvisionedMeansReachable`, `ProvisionedStaysProvisioned`, `FinalPhasesStay`, `ImplementsLifecycle`, `TypeOK` |
| `recreate` | fair, 1 fault, 2 incarnations | `FinalizerInv`; `FailedOnlyFromOutside`: the second Machine of a key never pays for the first; `VMStartsFresh`: no VirtualMachine comes up beside what an earlier one of its name has left; `ImplementsLifecycle`; `DeletionCompletes`, `ReadyMachineRuns`, `Settles` |
| `progress` | fair, 2 configurations, 2 kinds of user data (one panics), 1 upset (edit or loss), no fault | `LiveMachineGetsVM`, `SpecFollowsMachine`, `LostVMIsNoticed` |
| `nodes` | both controllers, 1 fault, 2 incarnations, no draining; the process stops, and starts with or without an actuator | `NodeDecisionsHold`, `NodeOutlivesVM`, `ImplementsLifecycle`, `SystemTypeOK` |
| `node_progress` | both controllers, fair, 1 fault, 2 upsets, 3 ConfigMaps, two namespaces | `NodeOfLostVMGoes`, `ReadyNodeIsIdentified` |
| `startup` | fair, 7 ConfigMaps (also one without the namespace and one with an empty one), 4 kinds of credentials, 2 edits, 2 failures | `MachinesAreServed`, `StartupTypeOK` |

`LiveMachineGetsVM` holds without faults only; what one fault does to it is shown by
`create_stuck`.

`node_progress` does not start with an empty cluster but with a guest that has just joined
(`MCSystem!Joined`), a state `nodes` passes through. From there it follows three histories:
one in which both controllers are at work and the upsets are used up; the same after the
ConfigMap was moved to another namespace, so that the nodeupdate controller looks there at
once and the actuator after the next start; and one in which the Machine has lost its
cluster label in an edit, so that the machine controller leaves it alone (`Validate`), and
the VirtualMachine is dropped, its instance fails and the ConfigMap is edited, moved or
taken away. Everything at once would be twenty times larger and add nothing to these two
questions: for the nodeupdate controller the machine controller is one more party that
changes Nodes and VirtualMachines, and it is given no fairness here.

`MachinesAreServed` rests on something odd: a process whose ConfigMap could not be read at
startup has a nil actuator and is repaired only by the panic of the first call. The mutant
of the property, in which such a panic is recovered from, as later versions of
controller-runtime can, is stuck for ever.

### The life cycle

`ImplementsLifecycle` maps a Machine with the finalizer to a claim, one that also has a
deletion timestamp to a condemned one, VirtualMachines to `backed`, Nodes to `joined`, and a
name to `used` from the moment its ignition secret exists and no `Create` is about to follow
it with the VirtualMachine. Every request, lost answer, crash, stale cache and loss is then
a step of `MachineLifecycle` or none. What this adds to the invariants is the order over a
whole life, across incarnations: claim, back at most once, condemn, lose, release. That a
name is used *once* is no promise of the code. It follows from the ignition secret that is
never deleted, which the runs `create_stuck` and `secret_left` show to be against what the
code says of itself. But it is also what makes stale decisions harmless: an instance that is
still being stopped is not taken over (`VMStartsFresh`), and the nodeupdate controller
deletes a Node by name some time after it found no VirtualMachine, and is right to, only
because no VirtualMachine of that name can have been created since (`NodeDecisionsHold`).
Whoever repairs `Delete` has to give these two another reason to hold.

Runs in which a comment of the code is violated by the code:

| run | what happens |
|---|---|
| `create_stuck` | One failed call, crash or panic on a malformed quantity between creating the ignition secret and the VirtualMachine: every later `Create` is refused for the secret that exists, also one of a configuration that was repaired, and the Machine never gets a VirtualMachine. |
| `secret_left` | `Delete` deletes the VirtualMachine only: when the Machine is gone its ignition secret, with the user data, is still there, and a new Machine of the same name is refused its secret at every attempt. |
| `invalid_undeletable` | The type of an `InvalidMachineConfiguration` error is lost in `fmt.Errorf("...%v")`, twice; a Machine that was invalid from the beginning can never be deleted (and, for the same reason, never goes to phase Failed but is retried for ever). |
| `shared_name` | Two Machines of one name in two namespaces share a VirtualMachine; deleting one fails the other. |
| `config_moved` | The actuator keeps the namespace it read at startup, the nodeupdate controller reads it in every `Reconcile`: after an edit it looks in the wrong namespace and deletes the Nodes of running VirtualMachines. |
| `namespace_moved` | A process that is started again after such an edit looks for the VirtualMachines in the new namespace, where there are none: a deleted Machine is released and its VirtualMachine left running in the old one. The provider ID of the Machine holds the old namespace; nothing compares the two. |

### Known behaviour

Behaviours the model has and no run is about:

* `actuator.New` answers a ConfigMap that cannot be read with `nil, nil`; `main` sees no error,
  and the process runs with a nil actuator until the first Machine makes it panic. That is in
  `Startup` (where `MachinesAreServed` depends on the panic) and in `Start` of `NodeUpdate`.
* The delete options are dropped and `Exists` looks at the VirtualMachine only: the Machine
  is released while the instance may still run.
* A status patch carries no resource version: one computed for a deleted Machine can put the
  Machine created in its place into phase Deleting, from which it goes on to other phases.
  That is why `FinalPhases` assumes keys that are used once.
* When `Exists` fails for a cached Machine without a phase, the error report writes an empty
  phase over the stored one; if the VirtualMachine was created meanwhile and is lost before
  the cache shows its provider ID, the Machine goes back to phase Provisioning instead of
  Failed. `ProvisionedStaysProvisioned` allows this one way back, from a copy that shows the
  empty phase, and no other.

### Fairness

Used by the liveness runs only; users, administrators and faults owe nothing.

* `WF(Call)`: the worker goroutine runs, every request has a timeout.
* `SF(Reconcile(k))` per key: the queue is FIFO, so a key that keeps coming back to it is
  handed out.
* `WF(Sync(k))`: the watch delivers. `WF(Resync(k))`: controller-runtime's default resync
  of 10 hours (`main.go` defines another `syncPeriod` and does not use it).
* `WF` of KubeVirt, of the guest booting and of the nodelink controller: they do their work.
* `node_progress` assumes the same of the nodeupdate controller's worker, queue, watch and
  resync, of KubeVirt and the guest, and nothing of the machine controller: it may be stuck.
  It also assumes `WF(Start)`: the container of a process that stopped is started again.
* `startup` assumes that the process runs and that its container is started again
  (`WF(ProcessNext)`).

## Proofs

Every invariant, every action property and the refinement that the passing runs check are
theorems, of `Spec` or of `SystemSpec`: for any number of Machines, names, configurations, faults, upsets and incarnations,
also several Machines of one name, unless a hypothesis below says otherwise. The assumptions
are those of the modules: bounds are natural numbers, `NameOf` maps keys to names, `Absent` is
none of the objects. The runs evaluate them.

| theorem | module | states | needs |
|---|---|---|---|
| `TypeCorrect` | `TypeProofs` | `Spec => []TypeOK` | |
| `FinalizerInvariant` | `FinalizerProofs` | `Spec => []FinalizerInv` | |
| `NoOrphans` | | `Spec => []NoOrphanedVM` | |
| `NodesOutliveVMs` | | `Spec => NodeOutlivesVM` | |
| `VMsStartFresh` | `LifecycleProofs` | `Spec => VMStartsFresh` | |
| `RefinesLifecycle` | | `Spec => ImplementsLifecycle` | |
| `VMsAreNotReplaced` | `CopiesProofs` | `Spec => VMNeverReplaced` | |
| `DrainsBeforeDelete` | | `Spec => []DrainedBeforeDelete` | |
| `FailedHaveNoVM` | | `Spec => []FailedMeansNoVM` | |
| `ValidVMs` | | `Spec => []ValidVMsOnly` | |
| `ProvisionedAreReachable` | `PhaseProofs` | `Spec => []ProvisionedMeansReachable` | |
| `FailsOnlyFromOutside` | | `Spec => []FailedOnlyFromOutside` | `NoneDropped`, `NamesOfTheirOwn` |
| `ProvisionedStay` | | `Spec => ProvisionedStaysProvisioned` | `NamesOfTheirOwn` |
| `FailedAreFinal` | | `Spec => [][FailedStay]_vars` | `NamesOfTheirOwn` |
| `DeletingAreFinal` | | `Spec => [][DeletingStay]_vars` | `KeysUsedOnce` |
| `FinalPhases` | | `Spec => FinalPhasesStay` | `NamesOfTheirOwn`, `KeysUsedOnce` |
| `SystemTypeCorrect` | `SystemProofs` | `SystemSpec => []SystemTypeOK` | `OneNamespace` |
| `SystemNoOrphans` | | `SystemSpec => []NoOrphanedVM` | `OneNamespace` |
| `NodeDecisions` | | `SystemSpec => []NodeDecisionsHold` | `OneNamespace` |
| `SystemNodesOutliveVMs` | | `SystemSpec => NodeOutlivesVM` | `OneNamespace` |
| `SystemRefinesLifecycle` | | `SystemSpec => ImplementsLifecycle` | `OneNamespace` |
| `StartupTypeCorrect` | `StartupProofs` | `StartupSpec => []StartupTypeOK` | |

The hypotheses are conditions on the constants under which the property is true, and each is
needed:

* `NamesOfTheirOwn`: no two Machines share a name. Names are unique within a namespace and the
  provider ignores the namespace (`shared_name`); two Machines of one name also revive and set
  back each other: with one upset and one fault TLC finds a failed Machine that goes back to
  another phase, with one upset a provisioned one that goes back to Provisioning.
* `NoneDropped`: nobody but the provider deletes a VirtualMachine, which is what
  `FailedOnlyFromOutside` is about.
* `KeysUsedOnce` (`MaxIncarnations <= 1`): see *Known behaviour*; TLC finds a counterexample
  with two incarnations.
* `OneNamespace`: the ConfigMap may be edited, broken and taken away, and the process started
  under any of these, but no ConfigMap names another namespace. With another one
  `config_moved` refutes `NodeOutlivesVM` while the process runs, and `namespace_moved`
  `NoOrphanedVM` once it is started again. Only `SystemTypeCorrect` would be true without the
  hypothesis; beyond it the types are model-checked.

The arguments, module by module:

**Types.** `TypeOK` says more than types: a Reconcile under way has a Machine, an
`originMachineCopy` while it patches, and a VirtualMachine where it uses one.

**The finalizer.** `NoOrphanedVM` is not inductive. Whether a VirtualMachine is created for a
Machine that has the finalizer, and whether the finalizer goes only after the VirtualMachine,
depends on what the handler read earlier, and that on what the cache held. `FinalizerInv` adds
what these old readings still guarantee: a deleted Machine has the finalizer
(`DeletedHasFinalizer`); a cache that shows a finalizer and no deletion is right about the
finalizer (`CachedLive`), since only the controller removes it, and only after it has seen the
deletion; a cache that shows a deletion is right that no live Machine is there
(`CachedDeleted`); and the same for the handler (`HandlerIsRight`), together with: the
VirtualMachine is gone when the Node and the finalizer are removed. Most steps are *quiet* -
they change no finalizer and no deletion timestamp and create no VirtualMachine - and one lemma
covers them; the seven others (`Reconcile`, `Sync`, `UserCreates`, `UserDeletes`,
`addFinalizer`, `removeFinalizer`, `createVM`) are treated one by one. That the handler need not
be right about *which* incarnation it deletes, only that none of them is live, is what makes it
hold across recreation.

**The life cycle.** `NamesInv` says that whatever there is of a name - VirtualMachine, instance,
Node - has its ignition secret stored, from the time it is used (`NamesUsedOnce`), and that a
Create about to make its VirtualMachine has made the secret, so that the secret refuses every
other Create and `Used` never shrinks. `VMStartsFresh` follows. With it and `FinalizerInv` every step is shown to change claims, used, backed and
joined names as one step of `MachineLifecycle` does, or not at all; the abstract guards (the
name is claimed and unused, nothing backs the one that is released) are what the two
invariants say.

**Copies.** Decisions are made from copies: the stored Machine, the cached one and the
handler's, put together by patches, updates and decoded answers. `CopiesInv` says that none of
them claims too much: one that is provisioned belongs to a used name, one with a node reference
to a name whose Node is there or whose VirtualMachine is gone for good. It is enough to know
that a copy put together from two others says no more than they do (`PutTogether`) and that
what it says stays true (`LinksStay`). `VMNeverReplaced` follows at once. `DrainInv` adds that a
Delete that found no Node to drain has no VirtualMachine to delete; `PatchInv` (an Update
patches with the phase it read) and `FailInv` (a Machine on its way to Failed has lost its
VirtualMachine for good) give `FailedMeansNoVM`; `ValidInv` keeps the outcome of the check of a
configuration together with the copy that was checked, until it is sent.

**Phases.** The other way round: a copy must not know *less* than was stored. `ReachInv` compares
provider ID and addresses along the way of a copy - what the cache shows of a live Machine, what
the handler holds, what the two patches store, until `setRunning` - and no update of the whole
Machine loses a provider ID. `MarksInv`: a Machine without the finalizer was given nothing, and a
handler that deletes has read the deletion. `OutsideInv`: a Machine that anybody still takes for
live has a VirtualMachine nobody is deleting, if it was given one, so no handler takes the way to
Failed. `BlankInv`: a Machine without a phase has no VirtualMachine, and what has a phase keeps
one, in all three copies; so an error report, which is sent only for a copy without a phase
(`PhaseRead`), does not meet a provisioned Machine, and one that goes back to Provisioning does
so from a copy that shows the empty phase (`ProvisionedStaysProvisioned`). `FailedInv`:
every copy a decision about a failed Machine may be made from shows that it was provisioned, and
so leads to Failed again. `DeletingInv`: once anybody has seen a deletion, the cache shows it and
the key is never live again.

**The system.** `Home`: under `OneNamespace` the actuator is in `InfraNamespace` or there is
none, and the other namespace stays empty. A step is then of one of four kinds. `MachineSide`
is a step of `Next`, to which the lemmas about the machine controller apply, and leaves the
other controller alone or stops it. `StartSide` empties and fills worker, cache and queue and
touches no cluster. `NodeSide`, the nodeupdate controller, changes nothing of the machine side but
Nodes, and these only in ways `FinalizerInv` and `NamesInv` do not mind. `ConfigSide` changes the
ConfigMap. So both invariants hold of `SystemSpec`. `NodeInv` is `NodeDecisionsHold` with the
fact that a Reconcile looks in the namespace the actuator creates in: then a name that was used
and has no VirtualMachine will not get one (`GoneForGood`), and the Node may go however late the
request is.

Only model-checked are the liveness properties, since the prover has no fairness:
`DeletionCompletes`, `ReadyMachineRuns`, `Settles`, `LiveMachineGetsVM`, `SpecFollowsMachine`, `LostVMIsNoticed`, `NodeOfLostVMGoes`,
`ReadyNodeIsIdentified` and `MachinesAreServed`.

## Not modelled

* Leader election, and two processes during a handover: `-leader-elect` is off by default,
  and nothing in the code tells the two cases apart.
* Requests that take effect after their caller is gone (a create that arrives after a crash
  and the deletion of the Machine): the code has nothing that handles them.
* A rotation of the infra cluster's credentials under a running process: every call fails
  until something restarts it.
* How other Machines fare beside one that panics over and over (see *Runs*).
* `UpdateAllowed` and `ListVirtualMachine`, which nothing calls; the encoders of the provider
  spec and status; queue delays and backoff; flags, metrics, health checks, events, logs.
* Generated code, mocks and test utilities (`pkg/testutils`).

## Plan

1. Theorems of `SystemSpec`: the properties of copies and phases with the nodeupdate controller
   at work (`VMNeverReplaced`, `FailedMeansNoVM`, `ProvisionedMeansReachable`, ...; under
   `OneNamespace`, since `CopiesInv` relies on Nodes that leave only after their
   VirtualMachine). No run checks them of `SystemSpec` yet.
2. Lemmas about the conversions of `MachineScope` (`SyncMachine` applied twice, defaults), on
   which `Settles` rests.
3. Requests that take effect late, and two processes during a change of leader.
4. Type correctness of `SystemSpec` without `OneNamespace`: the lemmas of `TypeProofs` would have
   to be instantiated for `Elsewhere`.
5. A queue in order and a back-off, to say what a Machine that panics leaves to the others.
