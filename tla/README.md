# A TLA+ verification of the E2E Cluster API provider

`cluster-api-provider-e2e` is a Cluster API infrastructure provider: a
controller manager that turns `E2ECluster` and `E2EMachine` objects into load
balancers and compute nodes of the E2E Networks cloud. This directory holds a
model of its controllers in TLA+, TLC configurations that check the model on
small instances, and proofs that TLAPS checks for every instance.

## 1. Inventory of the system

| Component | State | Operations | Interacts with |
|---|---|---|---|
| **E2EMachine controller** `internal/controller/e2emachine_controller.go` | the E2EMachine object (finalizer, `Spec.ProviderID`, `Status.InstanceID/Addresses/Bootstrapped/Ready/FailureReason`); one worker | `Reconcile`, `reconcileNormal`, `createInstance`, `reconcileInstanceStatus`, `reconcileDelete`, deferred patch | reads `LoadBalancerID` and `Ready` of the E2ECluster; compute and load balancer API; SSH; workload cluster |
| **E2ECluster controller** `e2ecluster_controller.go` | the E2ECluster object (finalizer, endpoint, `LoadBalancerID`, `APIServerIP`, `Ready`); one worker | `reconcileLoadBalancer` (get, recover by name, create), `reconcileDelete` (clear, delete) | load balancer API; wakes machines by the watch on E2ECluster |
| **Cloud client** `internal/cloud` | none of its own; the cloud's nodes and load balancers | create/get/list/delete of nodes; get/update/delete of load balancers; backends by GET, change in memory, PUT | the E2E REST API, which can refuse, time out, or execute a request whose reply is lost |
| **SSH bootstrap** `ssh.go`, `cloudinit.go` | files on the node, the sentinel, kubeadm's state | translate cloud-init to a script, run all of it as root until it ends well | the node; kubeadm asks for the API server through the load balancer |
| **Workload node maintenance** (`patchNodeProviderID`, `ensureControlPlaneNode`) | Node objects of the workload cluster | set `providerID` once; create a virtual Node for a k0s control plane and refresh its heartbeat | Cluster API matches Machine to Node by `providerID` |
| **SSH key pair** `sshkeys.go` | one Secret | get, or generate and create | runs at start-up, before leader election |
| **Manager** `cmd/main.go`, `SetupWithManager` | caches, work queues, leader lease | two controllers, one worker each (`controller.Options{}`) | watches and their mapping to items, requeues, resync |
| API types, templates, deep copies, kustomize, Helm, `hack/` | - | - | declarations and installation; no behaviour to model |

What is hard here: a reconciliation makes up to seven remote calls, each of
which can fail, take effect without its reply, or be the last one before a crash;
the object it works on comes from an informer cache that may be old; what it did
is stored only at the end, by a deferred patch that is **two** writes; and the
user, the Cluster API controllers, the cloud and the other controller act at any
moment in between. `PROJECT.json` lists these hazards at their lines.

What makes each component correct:

- *machines*: at most one node per machine; its own; never deleted for another
  one; never created for an object that could vanish unnoticed; `Ready` only
  after bootstrap; control plane registered before it is bootstrapped; nothing
  left behind after deletion; deletion and provisioning complete.
- *cluster*: at most one load balancer per cluster, released with it; the
  endpoint is that of the recorded load balancer.
- *backends*: no registration is lost, none survives its machine.
- *bootstrap*: running the script again after a lost reply or a partial run is
  harmless; what is reported as bootstrapped is set up; a finished node is never
  reset.
- *key pair*: whichever manager leads can log in to every node.
- *wake-ups*: whoever waits for somebody else's write is called when it comes.

## 2. The modules

| Module | Models |
|---|---|
| `ClusterContract` | what the E2ECluster controller promises the machines about the load balancer: the abstract specification between the two controllers |
| `E2EMachine` | the whole E2EMachine controller; its environment is made of the actions of `ClusterContract`; safety, action and liveness properties; inductive invariants |
| `E2ECluster` | the whole E2ECluster controller with the life of its load balancer; implements `ClusterContract` |
| `Bootstrap` | the bootstrap script as a process of the node, beside the controller that starts it again and again |
| `ProviderKey` | the start of several managers: the key pair, the leader, and what the key opens |
| `Wakeups` | caches, event mapping, queues, requeues and restarts, for the objects of one cluster |
| `MCE2EMachine`, `MCE2ECluster`, `MCBootstrap`, `MCProviderKey`, `MCWakeups` | instances of them for TLC |
| `E2EMachineProofs`, `E2EMachineOutcomeProofs`, `E2EMachineBackendProofs`, `E2EClusterProofs`, `BootstrapProofs`, `ProviderKeyProofs`, `WakeupsProofs` | theorems about them |

```
        E2EMachine --- INSTANCE (its environment) ---> ClusterContract
        E2ECluster --- INSTANCE (it implements) -----> ClusterContract

        Bootstrap     what E2EMachine holds as the steps BootstrapRuns and BootstrapWaits
        ProviderKey   why any leader can take these steps on any node
        Wakeups       why Reconcile is called again: what the fairness of the first two needs
```

The two controllers run concurrently and meet in the E2ECluster object and in
the load balancer. Each is checked against the contract instead of against the
other: `E2EMachine` may meet any sequence of contract steps, one step between any
two of its calls, and `E2ECluster` is shown to make no others. What an E2EMachine
reconciliation holds of the cluster (`w.lb`) can therefore be out of date in every
way the real controller can make it so. The actions of the E2ECluster controller
that lose a load balancer are enabled in `E2EMachine` only under the faults
`lbReset` and `clusterGone`.

### How `E2EMachine` corresponds to the code

**State.** `store` is the E2EMachine objects in the API server, `cache` the
informer's copy that `Reconcile` reads. `owner`, `cluster` and `paused` stand for
the owner Machine, the E2ECluster and the pause of the Cluster. `nodes`, `lbs`
and `servers` are the cloud, `workload` the `providerID` of each machine's Node.
`w` is the controller's one worker: the call it is about to make (`pc`), the
object as read (`base`) and as changed in memory (`obj`), the `LoadBalancerID` as
read (`lb`), and the backend servers as read by a GET-modify-PUT (`snap`).

**Actions.** `Reconcile` up to its first remote call is one step: one action for
each branch that changes something or calls out (`OwnerNotFound`,
`DeleteInstance`, `DeleteWithoutInstance`, `AddFinalizer`, `StartCreate`,
`StartStatus`). From there one action per remote call and outcome, in the order
of the code. Every return goes through `patchObject` and `patchStatus`, the two
writes of the deferred patch: each sends only the fields that `obj` changed with
respect to `base` (a merge patch), and the second is sent even if the first was
refused. A return that changed nothing and called nothing is no step.

**Data.** An address is identified with the node that owns it, a provider ID with
the node ID in it. A machine's node name is the machine's name. `WithAddress`
rebuilds `Status.Addresses` from what the cloud reports, so an address is lost again
when a node is answered without its private IP (`NodeLosesIP`, fault `noPrivateIP`).

**Faults.** `Faults` names the adverse behaviours the environment may show
(`FaultKind`); each passing run says under which of them its properties hold, and
most properties are false under some of the others. The two always present are
calls that fail without effect (`CreateNodeFails`, `GetNodeFails`,
`DeleteNodeFails`, `BootstrapWaits`, a load balancer that is not deleted while it
has backends) and every order of the other actors' steps.

### How `E2ECluster` corresponds to the code

**State.** `store`, `cache`, `paused` and `w` are as above, for the one E2ECluster
object. `lbs` is the load balancers of the cloud that carry the cluster's name,
`addressed` those that have a public IP, `servers` their TCP backends, `late` a
create request whose caller gave up. A public IP is identified with the load
balancer that has it, so `endpoint = lb` says that the endpoint is the address
of the recorded load balancer.

**Actions.** `AddFinalizer`, `CheckRecorded`, `StartLookup`, `DeleteLoadBalancer`
and `DeleteWithoutLB` are the branches of `Reconcile` up to the first remote call.
`GetLB*`, `Lookup*` and `CreateLB*` are the outcomes of the calls of
`reconcileLoadBalancer`; each that ends it ends in `Finish`, which sets the
endpoint and `Ready` when there is an IP. `Clear*` and `DeleteLB*` are
`reconcileDelete`; the GET and the PUT of `ClearBackendServers` are two steps. The
deferred patch is the same pair of writes as for a machine: the endpoint is in
the first, the ID and `Ready` in the second.

**The mapping.** `Contract` maps `cluster` to the three fields `exists`, `ready` and
`lb` of `store`, and `lbs` and `servers` to themselves. Every other step of
`E2ECluster` is a stutter of the contract.

### How `Bootstrap` corresponds to the code

`CloudInitToScript` writes the script and `RunScript` runs it, so that the
module is about what the *generated* script does. The payload is the parsed
cloud-init data: its files (under `/etc/kubernetes/` or not, wiped by `kubeadm reset` or
not, in base64 or not) and its commands, of which one sets the node up (`kubeadm init`, `kubeadm join` or the k0s
installation) and one writes the sentinel, in the same line or later.

Of the node it keeps the packages (`packages`: none, cut off in dpkg with or
without kubeadm, all there), the files, what kubeadm or k0s did (`kube`), whether
`kube-apiserver.yaml` exists (`manifest`), and the sentinel.

| Model | Script |
|---|---|
| `Prepare`, `Install`, `UnpackKubeadm`, `InstallEnds` | the packages: skipped where kubeadm is found, even if the rest is not there (line 71); apt refuses to go on where dpkg was cut off |
| `WriteFile` | `write_files`, at the start of every run |
| `CheckDone` | exit 0 under the sentinel; `kubeadm reset` if the manifest of an API server is there |
| `Reset`, `ResetEnds`, `ResetFails` | `kubeadm reset -f \|\| true` and `rm -rf`: the manifests and other files go first, the rest at the end; it can be cut in between, or fail before or after the first part, and the script goes on |
| `RewriteFile`, `Rewritten` | the second writing of what is under `/etc/kubernetes/`, which is not decoded |
| `RunPlain`, `StartKube`, `WriteManifest`, `FinishKube`, `Touch`, `KubeFails` | the lines of `runcmd` under `set -e`; the line of kubeadm is a `&&` list, whose first command may fail without ending the script |
| `Upload`, `UploadFails` | the phase `upload-config` that is put after `kubeadm init` |
| `Finish` | the exit status is that of the last command |

`Connect`, `RunSucceeds`, `RunFails` and `Cut` are the controller's side: it knows
the exit status and nothing else. A script whose connection is lost may go on
(`survive`) beside the one that is started next; a restart of the node clears
`/run`, and with it the sentinel, but not what kubeadm set up. `tainted` records
what the script does not guard against: that two scripts ran at the same time
(`overlap`), and that one with an unnoticed failure ended well (`masked`).

### How `ProviderKey` corresponds to the code

`EnsureSSHKeyPair` is called in `main` before the manager starts, so before leader
election: `GetSecret`, `GenerateKey` (only when the Secret is not found),
`CreateSecret`, and `SecretExists`, where the process exits and its Deployment
starts it again. `Lead` is the lease of client-go, which `--leader-elect` turns
on: its default is false (`cmd/main.go:61`), the deployment sets it
(`config/manager/manager.yaml`). A node takes the key of the leader that created it
(`CreateNode`).

### How `Wakeups` corresponds to the code

`store` is the objects at the API server, `cache` and `known` the manager's copies:
each object arrives on its own (`Deliver`, `DeliverOwner`), which leaves an event.
A handler maps the event to items by what the caches hold *then* (`Handle`,
`Woken`): the predicate `ResourceNotPaused` drops events of an
annotated object; the E2ECluster is mapped to its machines only if its owner
Cluster is cached; a Cluster wakes its E2ECluster and no machine; a Machine wakes
none either, because the mapping function compares with the wrong kind. `dirty`
is the work queue, `timer` the delayed additions. Of a reconciliation only what
decides whether it asks for another one is kept: it reads its object, the Cluster
and the E2ECluster one after the other (`view`), and ends in `Sleep`, `Fail`,
`AddFinalizer`, `Poll` or `Complete`. `asleep` names the machines that were left
waiting for something that wakes nobody.

### All

**Simplifications.** The owner Machine, the Cluster and the E2ECluster are read as
they are at the start of a reconciliation; only the E2EMachine itself is read
stale. What is read is kept in the worker and may be out of date when used. A
name that was deleted is not used again for a new object. Conditions,
`InstanceStatus`, public addresses and logging are left out.

## 3. What TLC checks

| Run | Instance | Shows |
|---|---|---|
| `MachineFaults` | 1 control plane machine, 1 node, 1 load balancer, 13 of the 14 faults (all but the pause) | `TypeOK`, `CreateUnderFinalizer`, and its inductive strengthening `FinalizerInv` |
| `MachinePair` | 2 control plane machines, 2 nodes; nodes are lost, the Cluster is paused | `BootstrappedIsRegistered`, `NoOrphanVM`, `NoStaleBackend`, `FailureIsReal`, and the action property `DeregistersOnlyItsOwn` |
| `MachineUnreliable` | 1 control plane and 1 worker machine, 2 nodes; stale cache, crash, refused writes, lost replies, failing load balancer calls | `NoDuplicateVM` (`OneNodeInv`), `InstanceIsOwn`, `ReadyIsEarned`, `RegisteredBeforeBootstrap`, `DeletesOnlyItsOwn` |
| `MachineProgress` | 1 machine, 1 node, 2 load balancers; load balancer and workload calls fail, the load balancer is lost | `DeletionCompletes`, `BecomesReady`, `ReadyNodeIsTagged`, `ServesAgain` under `FairSpec` |
| `ClusterUnreliable` | 3 load balancer IDs, 1 backend; 9 of the 11 faults (all but failing lists and late creation) | `TypeOK`, `OneLB` (`ContractInv`), `KeepsContract` (the refinement of `ClusterContract`), `ReleasedBeforeGone` |
| `ClusterProgress` | 2 load balancer IDs, 1 backend; calls fail, the load balancer is lost, a late IP, a list that fails, late creation, late registrations | `ReadyHasEndpoint`, and `Settles`, `ClusterDeletes` under `FairSpec` |
| `Bootstrap` | 2 scripts, 5 payloads (first and further control plane, worker, k0s control plane and worker), all 4 faults, cuts everywhere, also in dpkg and in the reset | `TypeOK`, `ReportedServes`, `FilesInPlace`, `SentinelProtects`, and `Completes` under `FairSpec` |
| `ProviderKey` | 2 managers, 2 nodes, 4 keys, lost replies | `NodesReachable`, and `OneLeads` under `FairSpec` |
| `Wakeups` | 1 worker machine, its E2ECluster and Cluster, all 5 faults, one pause | `TypeOK`, `NoLostWakeup` |
| `MachineListError` | refused writes, failing lists | `NoDuplicateVM` is **violated** |
| `MachineWorkerTag` | 1 worker, no faults | `ReadyNodeIsTagged` is **violated** |
| `BootstrapAllRun` | 1 script, 1 payload, no faults | `AllCommandsRun` is **violated** |

**Bounds.** The state of the two controllers is finite without any: the sets of machines, nodes and load
balancers are the only bounds, and a node or load balancer ID is never used
twice, so `NodeId` bounds how many nodes are ever created. Two node IDs let one
machine have a duplicate, or two machines have one each and then either one take
the other's; two machines are what it takes for one registration to disturb
another; two load balancers let one be lost and replaced. All the properties are
about one machine, or about a pair, and machines meet only in the worker and in
the load balancer. For the cluster, three load balancer IDs are one that is
recorded, one that is lost or made without a reply, and one more to be created by
mistake; the losses behind the provider's back (`LBReset`) never take the last unused ID,
so that two IDs in the liveness run mean one loss and one recovery. One
backend is enough, as the controller only clears all of them.

In the runs of `E2EMachine` one load balancer is enough to lose it, and two to
get another one instead.

`Bootstrap`: two scripts are what it takes for one that lost its connection to
meet its successor; a third would meet the same files. There is a payload of each
kind the bootstrap providers make, with files under `/etc/kubernetes/` that are
encoded and that are not, one that a reset wipes outside of it, and a command
before and after kubeadm's.
`ProviderKey`: two managers are what a rollout has; four keys, since each manager
and each node may hold one that nobody else has, so that there is always a fresh
one. `Wakeups`: `MaxPauses` bounds how often something is paused or held, as each pause
multiplies the states; one machine, because items meet only in the queue of
their controller, where one waiting behind another is delayed and not lost. A
control plane machine is requeued after every reconciliation that comes to its
end, so the worker is the harder case.

**The violations** are disagreements between the code and its own comments;
`PROJECT.json` quotes them.

1. *Duplicate node.* `createInstance` looks for a node of the machine's name so
   that a retry does not create a second one, but treats an error of that look-up
   as "there is none" (`e2emachine_controller.go:279`).
2. *Untagged worker.* The Node of a worker is tagged only in the reconciliation
   in which its script ended (line 498); a Node that joins later never is.
3. *Skipped commands.* The sentinel is written in the line of `kubeadm init`
   (`cloudinit.go:299`), before the configuration is uploaded and before the
   commands that follow: if one of these fails, the next run finds the sentinel,
   skips all of them, and the machine is reported as bootstrapped.

**Limits of the code without a run of their own.** The passing runs and the
theorems leave these out by their fault sets or by an exception in the property:

- *Unregistered control plane.* A running node without a private IP skips step 1
  instead of waiting for the address (line 395), and is bootstrapped:
  `RegisteredBeforeBootstrap` excludes `noPrivateIP`.
- *Lost address.* An answer without the private IP, once the node is registered,
  wipes the recorded address and with it the deregistration (lines 357 and 570):
  `NoStaleBackend` excludes `noPrivateIP`.
- *Orphaned node, orphaned load balancer.* `reconcileDelete` looks only at the
  recorded ID (line 557; `e2ecluster_controller.go:262`): what was created and,
  after a crash or a refused write, never recorded stays for good. `NoOrphanVM`
  excludes `crash` and `patchError`, and `ReleasedBeforeGone` speaks of the recorded
  load balancer.
- *Ready without an endpoint.* Both are set together but stored by two requests,
  and the second is sent when the first was refused: `ReadyHasEndpoint` excludes
  `patchError`.
- *Partial set-up.* The script resets "any partial kubeadm state", but knows it
  only by `kube-apiserver.yaml` (line 240), which kubeadm writes late: the exception
  `Stuck` of `Completes`.
- *Encoded files.* What is written again after the reset is not decoded (258):
  the exception `InPlace` of `FilesInPlace`.
- *Overlapping scripts.* The sentinel is looked at once (235) and nothing
  excludes a second script: the exception `Alone`.

**What the fault sets say.** The following single faults break the properties
that the passing runs exclude them from: a stale cache can release a machine
without its node; a crash between creation and the status patch orphans it; a
create request executed after its caller gave up duplicates it; a failed
deregistration, or a private IP that is lost again, leaves a stale backend; a lost load balancer or a removed
E2ECluster lets a control plane node be bootstrapped unregistered; an owner that
goes first takes the finalizer with it and leaves everything. `MachinePair` leaves
these out for this reason. Theorem `ReleasesItsNode` says what holds under all of them
but the stale cache and the lost owner: the node that was *recorded* is deleted.

For the cluster: a list that fails, or a create request executed late, makes a
second load balancer, for the same reason as the duplicate node
(`e2ecluster_controller.go:207` takes any error of the look-up for "there is none").
`ReadyHasEndpoint` is false where writes can be refused: the endpoint and `Ready`
are two writes, and the second is sent when the first was refused.
`ReleasedBeforeGone` speaks of the load balancer that was *recorded* when the
deletion was read, under every fault; one that was made and never recorded is
left behind, as an orphaned node is. And once a duplicate exists nothing removes
it: the liveness run allows `listError`, because `Settles` needs only that the
cluster stays with the one load balancer it recorded.

For the bootstrap: nothing in the script excludes a second one, and two at once
can reset each other's work, so the safety properties hold `unless tainted`; the
exceptions are part of the properties, not of the fault set. `FilesInPlace` excepts
the two kinds of files that a reset costs: encoded ones under `/etc/kubernetes/`, and
those that kubeadm wipes elsewhere. `Completes` excepts a node that stays `Stuck`, the
two ways in which no later run gets on: packages that dpkg was cut off at (apt refuses, or
kubeadm is found and the rest is skipped), and a set-up, started or half reset, without
the manifest of an API server, which the script does not notice and kubeadm and k0s refuse: that of
a worker, of k0s, and of a control plane that was cut early. That a
node with the manifest is got over every time, whatever failed before, and that
a node is in one of these two states *for good* or reported, is what the run shows.

For the wake-ups: `NoLostWakeup` excepts the machines in `asleep`. There are two
kinds, and the model says which: a machine that was looked at while its Cluster
was paused (`e2emachine_controller.go:159`; no watch of its controller sees the
end of the pause), and one whose owner was not in the cache of Machines yet (line
838; the watch maps by the wrong kind). Both wait for the resync or another event.
Everything else holds in whatever order the caches catch up, in particular that
a machine waiting for its E2ECluster is woken (lines 200 and 844) although the
event is dropped while its owner Cluster is not cached (865): the E2ECluster becomes
ready in a reconciliation that found the Cluster in the same cache.

## 4. Fairness

`FairSpec` adds to `Spec`:

- `SF_vars(Reconcile(m))`: a machine is reconciled again and again. The code
  requeues after every unfinished step (30 s, 10 s, 20 s, or the back-off after an
  error), the watches add the rest, and the informers resync every 10 h; the queue
  is first-in first-out and has one worker, so other machines cannot keep it away
  for ever. Strong fairness, because the worker is not idle all the time.
- `WF_vars(Controller /\ w.pc # "idle")`: a reconciliation that began goes on.
  HTTP calls have a timeout. The SSH command has none (`ssh.go:66`): that a script
  ends is an assumption about the script.
- `SF_vars(w.m = m /\ ...)` for each call that can fail: it does not fail every
  time it is tried.
- weak fairness of the cache, the owner controllers, the kubelets and the start of
  nodes.
- of the E2ECluster controller: weak fairness of getting a load balancer made,
  recorded, and forgotten when it is gone, strong fairness of `ClusterReady`; and
  the assumption that from some time on the recorded load balancer is up
  (`<>[](cluster.lb # None => lbs[cluster.lb] = "up")`). Without the last one a
  control plane machine may find its load balancer gone each time it looks.
  `E2ECluster` checks the counterpart: `Settles`.

`E2ECluster` has the like: strong fairness of `Reconcile` and of every call that can
fail, weak fairness of a reconciliation that began, of the cache, of the
ownerReference and of a load balancer getting its address. A ready cluster is not
requeued, so that a loss of its load balancer is seen only with the next watch event
or resync (10 h): `Settles` says that it is repaired, not how soon. `DeleteLB` is fair
only when there are no backends, since the cloud may refuse otherwise; that
`ClearGet` and `ClearPut` come first is what makes `ClusterDeletes` hold.

`Bootstrap`: the controller connects again while the machine is not bootstrapped,
the script it waits for goes on, and one it does not wait for ends. From some
time on nothing fails (`<>[][~Failure]_vars`), except what the node's own state
makes fail: kubeadm on a node that was set up before still refuses, so that
`Completes` says that the leftovers of *all* earlier failures are got over. Fairness
of the single steps would not do: that each succeeds now and then does not give
one run in which all of them do.

`ProviderKey`: the Deployment starts a manager that is down, a free lease is taken,
and from some time on no manager ends but one that found the Secret made by another
(`SecretExists`). That exit is the code's own, so it is not excluded.

`Wakeups` states no fairness. `NoLostWakeup` is a safety property, and what it says
is the first half of `SF_vars(Reconcile(m))`: an item that has work is in the queue,
or something is on its way that will put it there.

No fairness is assumed of the user, of `Crash` or of any fault. Unbounded crashes
and refused writes are not part of the liveness run: to rule out that every
single reconciliation is cut short takes more than fairness of each call.

## 5. What is proved

`E2EMachineProofs` proves, for any sets of machines, nodes and load balancers and
for **every** set of faults unless stated, assuming only `ConstantAssumption`:

| Theorem | States | Argument |
|---|---|---|
| `TypeCorrect` | `Spec => []TypeOK` | `TypeOK` is inductive because of `WorkerOK`, which ties the worker's memory to its program counter |
| `FinalizerBeforeCreate` | `Spec => []CreateUnderFinalizer` | `FinalizerInv`: a finalizer is removed only by a reconciliation that saw a deletion or missed the owner; neither is undone and the cache only moves forward, so a cached finalizer without a cached deletion is still in the API server |
| `InstanceOwnership` | `Spec => []InstanceIsOwn` | `OwnershipInv`: an ID is "absent" exactly while it has no name, so a node is named once; every ID that is recorded comes from a look-up or a creation under that name |
| `OnlyOwnDeletes` | `Spec => DeletesOnlyItsOwn` | from `InstanceIsOwn` and the part of `FinalizerInv` that the deletion calls are made only for an object read as deleted |
| `OneNode` | `Spec => []NoDuplicateVM` | `OneNodeInv`, **assuming** that `listError` and `lateCreate` are not among the faults; the run `MachineListError` shows that the first assumption is needed |
| `FinalizerOutlivesTheCache`, `CreatesOnlyTheFirst` | that `FinalizerInv` and `OneNodeInv` are invariants | the theorems above follow from these |

`E2EMachineOutcomeProofs` proves what a reconciliation may leave behind. All of it rests
on `PatchInv`, which holds under every fault: what is about to be written differs
from what was read only in what this reconciliation saw or did itself.

| Theorem | States | Argument |
|---|---|---|
| `ReadsStayTrue` | `Spec => []FreshInv`, **assuming** no `staleCache` | the one worker is the only writer of the status and the finalizer, so what it read is what is stored until it writes, even after crashes and refused writes |
| `FailuresAreReal` | `Spec => []FailureIsReal`, under the same assumption | `FreshInv` and `FailureInv`: the failure is stored for the ID it was found for |
| `ReleasesItsNode` | `Spec => []RecordedVMDeleted`, **assuming** no `staleCache` and no `ownerGone` | `FreshInv` and `RecordInv`: the finalizer goes only after the node recorded then was deleted, and no other ID is recorded after that |
| `LeavesNoNode` | `Spec => []NoOrphanVM`, **assuming** none of `staleCache`, `crash`, `patchError`, `lostReply`, `lateCreate`, `ownerGone` | `OrphanInv`: a live node is the recorded one, or the one that the worker is about to record |
| `WorksOnTheRecordedNode` | `Spec => []LiveIsCurrent`, **assuming** no `staleCache`, or neither `listError` nor `lateCreate` | by `FreshInv` in the first case; in the second by `CurrentInv`: with one node per machine a recorded ID is written over only after its node was deleted, so an old ID that still lives is the current one |
| `ReadinessIsEarned` | `Spec => []ReadyIsEarned`, under the same assumption | `SettledInv`: the script ran on the recorded node, and from then on the ID is known to all and does not change; `ReadyInv` adds that `Ready` is never ahead of `Bootstrapped` |
| `RegistersFirst` | `Spec => RegisteredBeforeBootstrap`, **assuming** no `noPrivateIP`, `lbReset` and `clusterGone` | `RegisterInv`: a reconciliation that comes to the script added its node to a load balancer that is still up |

`E2EMachineBackendProofs` follows the registrations of every machine through the GET
and PUT of every other one:

| Theorem | States | Argument |
|---|---|---|
| `OnlyOwnDeregistrations` | `Spec => DeregistersOnlyItsOwn`, under every fault | `AddressInv`: only the one worker adds servers, so what it writes back after its GET contains all that is there; the address it takes out is that of a node of its own machine |
| `ServesUntilDeleted` | `Spec => []BootstrappedIsRegistered`, **assuming** no `noPrivateIP`, `lbReset` and `clusterGone`, and the assumption of `ReadinessIsEarned` | `ServingInv`: who is about to report the bootstrap registered its node in the same reconciliation, with the load balancer that is still the recorded one (`RegisterInv`), and the machine keeps the ID (`SettledInv`); no other machine takes the server out (`OnlyOwnDeregistrations`) |
| `LeavesNoBackend` | `Spec => []NoStaleBackend`, **assuming** none of `staleCache`, `crash`, `patchError`, `lbError`, `noPrivateIP`, `ownerGone`, `clusterGone` | `BackendInv`: every server is `Held` by its machine, which has its finalizer and knows the address to take out, in the API server or in the memory of the worker; who lets go of it has just deregistered it |
| `MachinesKeepContract` | every step of `Controller` is a `MachineStep` of the contract or leaves its state alone, and `Spec => Contract!Spec`, under every fault | the type invariant: the two PUT requests of a reconciliation, sent to a load balancer that is up, are all it writes (`BackendsWritten`) |

The assumptions are as weak as they can be, as far as TLC can tell: with any single fault that
`LeavesNoNode`, `LeavesNoBackend`, `ServesUntilDeleted`, `ReleasesItsNode`, `FailuresAreReal`
or `RegistersFirst` excludes put back, TLC finds the property violated on one or two
machines. So is `ReadyIsEarned` under a stale cache together with `listError` or with `lateCreate`.

What remains of the two properties about leftovers when a fault is allowed after
all is what the other theorems say: a node may be orphaned by a crash, but
not duplicated (`OneNode`) nor deleted for another machine (`OnlyOwnDeletes`); a server
may be left behind by a failed deregistration, but no other one is lost by it
(`OnlyOwnDeregistrations`).

`E2EClusterProofs` proves, for any sets of load balancers and backends:

| Theorem | States | Argument |
|---|---|---|
| `TypeCorrect` | `Spec => []TypeOK` | inductive as it stands: the last conjunct ties the recorded ID to the program counter |
| `KnowsItsLoadBalancer` | `Spec => []ContractInv` | below; **assuming** that `listError` and `lateCreate` are not among the faults |
| `OneLoadBalancer` | `Spec => []OneLB` | from `ContractInv`, under the same two assumptions |
| `Implements` | `Spec => KeepsContract`: every step is a step of `ClusterContract` or a stutter | from `ContractInv`, under the same two assumptions |
| `ReadyWithEndpoint` | `Spec => []ReadyHasEndpoint`, **assuming** no `patchError` | `EndpointInv`: an endpoint is never taken back, and the write that stores `Ready` comes after the one that stores the endpoint |
| `Releases` | `Spec => ReleasedBeforeGone`, under every fault | `ReleaseInv`: a finalizer is taken off only at the end of a deletion; a load balancer that is gone stays gone |

`ContractInv` is needed because `OneLB` says nothing of the memory of the worker.
`Known` says that an ID that is remembered anywhere (API server, cache, or worker)
belongs to a load balancer that is gone or is the recorded one; so a reconciliation
that acts on an old ID never acts on a load balancer that is up and not recorded.
`CreationInv` says that a load balancer is created only when there is none,
`WriteInv` what the two patches at the end may still write over, and `MemoryInv`
what a reconciliation has not decided yet. `Implements` rests on the same
invariant: a status patch that changes the ID is an `LBRecorded` or `LBForgotten` of the
contract because `WriteInv` says that the overwritten ID is gone.

Together with the use of the contract's actions in `E2EMachine`, `Implements` says
that the machine theorems hold beside the real E2ECluster controller and not only
beside an assumed one; `MachinesKeepContract` is the other direction. They hold under every fault set that enables the contract's steps; the
assumption on failing lists of load balancers is that of `Implements`.

`BootstrapProofs` proves, for any payloads that satisfy `IsPayload`, any number of
scripts and every set of faults:

| Theorem | States | Argument |
|---|---|---|
| `TypeCorrect` | `Spec => []TypeOK` | inductive as it stands: its last part ties a script to the files and commands there are |
| `ReportIsTrue` | `Spec => []ReportedServes` | `AloneInv` (while scripts never overlapped there is at most one) and `SetUpInv` (who writes the sentinel or ends well saw the node set up, or has a failure to hide) |
| `NoResetOfDone` | `Spec => SentinelProtects` | the same: a script that is about to reset found no sentinel, and nobody else can have written one since |
| `FilesBeforeCommands` | `Spec => []FilesInPlace` | `AloneInv` and `FilesInv`, an invariant of the loops that write the files and of a reset that is cut or fails between them |

`ProviderKeyProofs` proves, for any managers, nodes and keys:

| Theorem | States | Argument |
|---|---|---|
| `KeysAgree` | `Spec => []NodesReachable` | `KeyInv`: the Secret is never replaced, who got past its start holds its key, and so does every node |

`WakeupsProofs` proves, for any machines, any number of pauses and every set of faults:

| Theorem | States | Argument |
|---|---|---|
| `TypeCorrect` | `Spec => []TypeOK` | inductive as it stands |
| `NoWakeupIsLost` | `Spec => []NoLostWakeup` | `WakeInv`, below |

`NoLostWakeup` compares the API server with the queues; `WakeInv` goes by way of the
caches. `Rests` says that an item that is neither queued nor in work needs nothing by
what the *caches* hold, or that an event for it, or for what it waits for, is
still on its way. `ReadInv` says that a reconciliation has read what the caches
hold, or that its item was queued again meanwhile, so that one that goes to sleep
leaves its item at rest. The delicate step is the event of the E2ECluster,
which is mapped to no machine while the owner Cluster is not cached: `ReadInv` has it
that a machine waiting for the E2ECluster saw the Cluster in the cache, and a
Cluster that is there stays (deletions are not modelled).

Only model-checked: all liveness (`DeletionCompletes`, `BecomesReady`, `ServesAgain`,
`ReadyNodeIsTagged`, `Settles`, `ClusterDeletes`, `Completes`, `OneLeads`), since liveness
under fairness is beyond the prover. Every invariant and every action property
of a passing run is stated by a theorem. Induction over data is not needed: no module
has a recursive definition.

## 6. Plan

Done: `E2EMachine`, `ClusterContract` and `E2ECluster` with the refinement;
`Bootstrap`, `ProviderKey` and `Wakeups`; the proofs of section 5. What is left, in the
order of its worth:

1. Proofs of the steps that the liveness properties go by: that a reconciliation of a
   deleted object moves only towards its end, as an action property of the
   worker, which is within the prover's reach though the fairness is not.
2. Both controllers in one module, with two concurrent workers at the load
   balancer: today each meets the other only as an environment that may do at
   any moment what the contract allows (`ServersChange` in `E2ECluster`).
3. Deletion events and the resync in `Wakeups`.

A run is added only for a question that no run asks yet.

## 7. Not modelled

- *Time.* The virtual Node's heartbeat must be refreshed every 20 s by the worker
  that also waits for scripts (`e2emachine_controller.go:530`), and the SSH command has no
  deadline (`ssh.go:66`). No module has a clock; that a script ends is an assumption.
- *The cloud's own answers*: which errors become a 400 (`nodes.go:139`), the pages of the
  list of nodes (`nodes.go:182`), two machines of one name in different
  namespaces. Request encoding and response parsing are left out, as are the power
  actions of the node API, `getBootstrapData` and `machineFromE2EMachine`, which have
  no caller.
- *In the script*: shell quoting, package names, `runcmd` in list form, the text of
  the commands.
- *Of the key pair*: its encoding, and a Secret that is edited or deleted by hand.
- *Of the manager*: deletion events, the resync every 10 h (it would hide every lost
  wake-up), flags and environment variables.
- *API types*, registration and generated deep copies; kustomize, Helm and the CNI
  script: declarations and installation, without behaviour of their own.

The hazards among these are listed in `PROJECT.json` with a note.
