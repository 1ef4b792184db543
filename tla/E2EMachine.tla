----------------------------- MODULE E2EMachine -----------------------------
(***************************************************************************)
(* The E2EMachine controller: the reconcile loop that turns an E2EMachine  *)
(* object into a compute node of the E2E cloud, registers a control plane  *)
(* node with the API server load balancer, bootstraps the node over SSH,   *)
(* and releases everything again when the object is deleted.               *)
(*                                                                         *)
(* The manager runs one worker for this controller, so one reconciliation  *)
(* is in progress at a time.  It is cut at every remote call: between two  *)
(* calls the cloud, the user, the Cluster API controllers, the informer    *)
(* cache or a crash of the manager can act.  What a reconciliation read    *)
(* when it began (base, lb) is kept in the worker and may be out of date   *)
(* by the time it is used.                                                 *)
(*                                                                         *)
(* Conditions, InstanceStatus and log lines are left out: no guard of the  *)
(* code reads them.  A return that changes nothing is no step here.        *)
(***************************************************************************)
EXTENDS Naturals

CONSTANTS
    Machines,       \* names of the E2EMachine objects
    ControlPlane,   \* those owned by a control plane Machine
    NodeId,         \* IDs the cloud can give to compute nodes
    LbId,           \* IDs the cloud can give to load balancers
    None,           \* an unset ID or reference
    Faults          \* the adverse behaviours the environment may show

FaultKind ==
    { "staleCache",     \* the informer cache lags behind the API server
      "crash",          \* the manager dies and restarts
      "patchError",     \* a write to the API server is refused
      "listError",      \* the list of nodes cannot be read
      "lostReply",      \* a cloud call takes effect but reports an error
      "lateCreate",     \* a create request is executed after its caller gave up
      "lbError",        \* a load balancer call fails
      "workloadError",  \* a call to the workload cluster fails
      "nodeLoss",       \* a node is stopped or deleted behind the provider's back
      "noPrivateIP",    \* a node runs, for a while, without a private IP
      "lbReset",        \* the load balancer is deleted behind the provider's back
      "ownerGone",      \* the owner Machine disappears first
      "clusterGone",    \* the E2ECluster is deleted first
      "pause" }         \* the cluster is paused and resumed

ASSUME ConstantAssumption ==
    /\ ControlPlane \subseteq Machines
    /\ None \notin Machines \cup NodeId \cup LbId
    /\ Faults \subseteq FaultKind

VARIABLES
    store,      \* E2EMachine objects as the API server holds them
    cache,      \* the same objects as the manager's informer cache holds them
    owner,      \* the owner Machine: does it exist, has it bootstrap data
    cluster,    \* the E2ECluster: does it exist, Status.Ready, LoadBalancerID
    paused,     \* the Cluster is paused
    nodes,      \* compute nodes of the cloud
    late,       \* machines whose timed-out create request is still under way
    lbs,        \* load balancers of the cloud: absent, up or gone
    servers,    \* the first TCP backend group of each load balancer
    workload,   \* providerID of each machine's Node in the workload cluster
    w           \* the controller's worker

vars == <<store, cache, owner, cluster, paused, nodes, late, lbs, servers,
          workload, w>>
cloud == <<nodes, late, lbs, servers>>
inputs == <<cache, owner, cluster, paused>>

-----------------------------------------------------------------------------
(***************************************************************************)
(* State.                                                                  *)
(***************************************************************************)

\* The fields of an E2EMachine that the controller reads or that Cluster API
\* relies on.  An address is identified with the node that owns it.
Object == [exists       : BOOLEAN,
           owned        : BOOLEAN,              \* has a Machine ownerReference
           deleting     : BOOLEAN,              \* DeletionTimestamp is set
           finalizer    : BOOLEAN,
           providerID   : NodeId \cup {None},   \* Spec.ProviderID
           instanceID   : NodeId \cup {None},   \* Status.InstanceID
           address      : NodeId \cup {None},   \* InternalIP in Status.Addresses
           bootstrapped : BOOLEAN,
           ready        : BOOLEAN,
           failed       : BOOLEAN]              \* Status.FailureReason is set

NewObject == [exists |-> TRUE, owned |-> FALSE, deleting |-> FALSE,
              finalizer |-> FALSE, providerID |-> None, instanceID |-> None,
              address |-> None, bootstrapped |-> FALSE, ready |-> FALSE,
              failed |-> FALSE]

\* A compute node: its name, its status, whether it has a private IP and
\* whether the bootstrap script has run to its end on it.
Node == [name   : Machines \cup {None},
         status : {"absent", "Creating", "Running", "Stopped", "deleted"},
         ip     : BOOLEAN,
         booted : BOOLEAN]

Live(m) == {n \in NodeId : /\ nodes[n].name = m
                           /\ nodes[n].status \notin {"absent", "deleted"}}

\* "bare" is a workload Node without spec.providerID.
WorkloadNode == {"none", "bare"} \cup NodeId

WorkerPc == {"idle", "lookup", "create", "getNode", "addGet", "addPut",
             "bootstrap", "tagNode", "cpNode", "removeGet", "removePut",
             "deleteNode", "patchObject", "patchStatus"}

Worker == [pc   : WorkerPc,
           m    : Machines \cup {None},     \* the object being reconciled
           base : Object,                   \* as read from the cache
           obj  : Object,                   \* as changed in memory
           lb   : LbId \cup {None},         \* LoadBalancerID as read
           snap : SUBSET NodeId]            \* backend servers as read

IdleWorker == [pc |-> "idle", m |-> None, base |-> NewObject,
               obj |-> NewObject, lb |-> None, snap |-> {}]

Init ==
    /\ store = [m \in Machines |-> NewObject]
    /\ cache = store
    /\ owner = [m \in Machines |-> [exists |-> TRUE, data |-> FALSE]]
    /\ cluster = [exists |-> TRUE, ready |-> FALSE, lb |-> None]
    /\ paused = FALSE
    /\ nodes = [n \in NodeId |-> [name |-> None, status |-> "absent",
                                  ip |-> FALSE, booted |-> FALSE]]
    /\ late = {}
    /\ lbs = [l \in LbId |-> "absent"]
    /\ servers = [l \in LbId |-> {}]
    /\ workload = [m \in Machines |-> "none"]
    /\ w = IdleWorker

-----------------------------------------------------------------------------
(***************************************************************************)
(* Reconcile: read the objects, decide what to do.                         *)
(***************************************************************************)

\* The objects are read from the cache; a deleted one is not found, and one
\* without an owner Machine is left alone.
Reading(m) ==
    /\ w.pc = "idle"
    /\ cache[m].exists
    /\ cache[m].owned
    /\ "staleCache" \in Faults \/ cache[m] = store[m]

\* The reconciliation of m goes on at p, its object changed to o.
Begin(m, p, o) ==
    /\ w' = [pc |-> p, m |-> m, base |-> cache[m], obj |-> o,
             lb |-> IF cluster.exists THEN cluster.lb ELSE None,
             snap |-> {}]
    /\ UNCHANGED <<store, inputs, cloud, workload>>

\* Every return runs the deferred patch of the object.
Return(o) == w' = [w EXCEPT !.pc = "patchObject", !.obj = o]

Goto(p) == w' = [w EXCEPT !.pc = p]

\* Mutant of OwnerNotFound: every error of the lookup counts as "not found".
OwnerNotFoundOrError(m) ==
    /\ Reading(m)
    /\ Begin(m, "patchObject", [cache[m] EXCEPT !.finalizer = FALSE])

OwnerNotFound(m) ==
    /\ Reading(m)
    /\ ~owner[m].exists
    /\ Begin(m, "patchObject", [cache[m] EXCEPT !.finalizer = FALSE])

\* Mutant of Deleting: the deletion timestamp is not looked at.
DeletingUnasked(m) ==
    /\ Reading(m)
    /\ owner[m].exists
    /\ ~cluster.exists \/ ~paused

\* The deletion branches are taken when the E2ECluster is gone, which is
\* looked at before the pause, or when nothing is paused.
Deleting(m) ==
    /\ Reading(m)
    /\ owner[m].exists
    /\ cache[m].deleting
    /\ ~cluster.exists \/ ~paused

\* Mutant of DeleteInstance: deregisters without looking for an address.
DeleteInstanceUnchecked(m) ==
    /\ Deleting(m)
    /\ cache[m].instanceID # None
    /\ Begin(m, IF cluster.exists /\ cluster.lb # None
                THEN "removeGet" ELSE "deleteNode", cache[m])

\* Deregistration needs a load balancer and a recorded internal address.
DeleteInstance(m) ==
    /\ Deleting(m)
    /\ cache[m].instanceID # None
    /\ Begin(m, IF /\ cluster.exists
                   /\ cluster.lb # None
                   /\ cache[m].address # None
                THEN "removeGet" ELSE "deleteNode", cache[m])

DeleteWithoutInstance(m) ==
    /\ Deleting(m)
    /\ cache[m].instanceID = None
    /\ Begin(m, "patchObject", [cache[m] EXCEPT !.finalizer = FALSE])

Active(m) ==
    /\ Reading(m)
    /\ owner[m].exists
    /\ cluster.exists
    /\ ~paused
    /\ ~cache[m].deleting

\* Mutant of AddFinalizer: goes on with the creation instead of returning.
AddFinalizerAndCreate(m) ==
    /\ Active(m)
    /\ ~cache[m].finalizer
    /\ Begin(m, "lookup", [cache[m] EXCEPT !.finalizer = TRUE])

AddFinalizer(m) ==
    /\ Active(m)
    /\ ~cache[m].finalizer
    /\ Begin(m, "patchObject", [cache[m] EXCEPT !.finalizer = TRUE])

\* Mutant of StartCreate: does not look for a node made earlier.
StartCreateUnchecked(m) ==
    /\ Active(m)
    /\ cache[m].finalizer
    /\ cluster.ready
    /\ cache[m].instanceID = None
    /\ Begin(m, "create", cache[m])

StartCreate(m) ==
    /\ Active(m)
    /\ cache[m].finalizer
    /\ cluster.ready
    /\ cache[m].instanceID = None
    /\ Begin(m, "lookup", cache[m])

StartStatus(m) ==
    /\ Active(m)
    /\ cache[m].finalizer
    /\ cluster.ready
    /\ cache[m].instanceID # None
    /\ Begin(m, "getNode", cache[m])

-----------------------------------------------------------------------------
(***************************************************************************)
(* createInstance.                                                         *)
(***************************************************************************)

\* Mutant of LookupFound: takes the first node of the list.
LookupAny ==
    /\ w.pc = "lookup"
    /\ \E m \in Machines : \E n \in Live(m) : Return([w.obj EXCEPT !.instanceID = n])
    /\ UNCHANGED <<store, inputs, cloud, workload>>

\* GetNodeByName answers with a node of that name: recover it.
LookupFound ==
    /\ w.pc = "lookup"
    /\ \E n \in Live(w.m) : Return([w.obj EXCEPT !.instanceID = n])
    /\ UNCHANGED <<store, inputs, cloud, workload>>

\* Mutant of LookupMissed: creates a node even though one was found.
LookupIgnored ==
    /\ w.pc = "lookup"
    /\ Goto("create")
    /\ UNCHANGED <<store, inputs, cloud, workload>>

\* Any error of GetNodeByName, not only "not found", leads on to CreateNode.
LookupMissed ==
    /\ w.pc = "lookup"
    /\ Live(w.m) = {} \/ "listError" \in Faults
    /\ Goto("create")
    /\ UNCHANGED <<store, inputs, cloud, workload>>

\* The cloud starts a node named m under an ID it never used before.
Provision(m, n) ==
    /\ nodes[n].status = "absent"
    /\ nodes' = [nodes EXCEPT ![n] = [@ EXCEPT !.name = m, !.status = "Creating"]]

CreateNode ==
    /\ w.pc = "create"
    /\ \E n \in NodeId :
          /\ Provision(w.m, n)
          /\ \/ Return([w.obj EXCEPT !.instanceID = n])
             \/ "lostReply" \in Faults /\ Return(w.obj)
    /\ UNCHANGED <<store, inputs, late, lbs, servers, workload>>

CreateNodeFails ==
    /\ w.pc = "create"
    /\ \/ UNCHANGED late
       \/ "lateCreate" \in Faults /\ late' = late \cup {w.m}
    /\ Return(w.obj)
    /\ UNCHANGED <<store, inputs, nodes, lbs, servers, workload>>

-----------------------------------------------------------------------------
(***************************************************************************)
(* reconcileInstanceStatus.                                                *)
(***************************************************************************)

GetNodeNotFound ==
    /\ w.pc = "getNode"
    /\ nodes[w.obj.instanceID].status = "deleted"
    /\ Return([w.obj EXCEPT !.failed = TRUE])
    /\ UNCHANGED <<store, inputs, cloud, workload>>

\* Mutant of GetNodeFails: every error is final.
GetNodeErrorIsFinal ==
    /\ w.pc = "getNode"
    /\ Return([w.obj EXCEPT !.failed = TRUE])
    /\ UNCHANGED <<store, inputs, cloud, workload>>

GetNodeFails ==
    /\ w.pc = "getNode"
    /\ Return(w.obj)
    /\ UNCHANGED <<store, inputs, cloud, workload>>

\* The object with the address that the cloud reports for its node.
WithAddress(o) ==
    [o EXCEPT !.address = IF nodes[o.instanceID].ip THEN o.instanceID ELSE None]

GetNodeNotRunning ==
    /\ w.pc = "getNode"
    /\ nodes[w.obj.instanceID].status \in {"Creating", "Stopped"}
    /\ Return(WithAddress(w.obj))
    /\ UNCHANGED <<store, inputs, cloud, workload>>

\* Mutant of MarkReady: the virtual Node is seen to only the first time.
MarkReadyOnce(o) ==
    w' = [w EXCEPT !.pc = IF w.m \in ControlPlane /\ ~o.ready
                          THEN "cpNode" ELSE "patchObject",
                   !.obj = [o EXCEPT !.providerID = o.instanceID, !.ready = TRUE]]

\* Step 3: set the provider ID and mark the machine ready.
MarkReady(o) ==
    w' = [w EXCEPT !.pc = IF w.m \in ControlPlane THEN "cpNode" ELSE "patchObject",
                   !.obj = [o EXCEPT !.providerID = o.instanceID, !.ready = TRUE]]

\* Step 2, skipped once the object says that it is done.
ToBootstrap(o) ==
    IF o.bootstrapped THEN MarkReady(o)
                      ELSE w' = [w EXCEPT !.pc = "bootstrap", !.obj = o]

\* Mutant of NeedsBackend: a bootstrapped node is not registered again.
NeedsBackendOnce(o) ==
    /\ w.m \in ControlPlane
    /\ w.lb # None
    /\ o.address # None
    /\ ~o.bootstrapped

\* Step 1 is for a control plane node with a private IP and a load balancer.
NeedsBackend(o) == w.m \in ControlPlane /\ w.lb # None /\ o.address # None

GetNodeRunning ==
    /\ w.pc = "getNode"
    /\ nodes[w.obj.instanceID].status = "Running"
    /\ LET o == WithAddress(w.obj)
       IN  IF NeedsBackend(o) THEN w' = [w EXCEPT !.pc = "addGet", !.obj = o]
                              ELSE ToBootstrap(o)
    /\ UNCHANGED <<store, inputs, cloud, workload>>


-----------------------------------------------------------------------------
(***************************************************************************)
(* Registration with the load balancer: read the configuration, change the *)
(* first TCP backend group in memory, write the whole of it back.          *)
(***************************************************************************)

\* Mutant of AddBackendGet: a server that is registered already is an error.
AddBackendTwice ==
    /\ w.pc = "addGet"
    /\ lbs[w.lb] = "up"
    /\ IF w.obj.address \in servers[w.lb]
       THEN Return(w.obj)
       ELSE w' = [w EXCEPT !.pc = "addPut", !.snap = servers[w.lb]]
    /\ UNCHANGED <<store, inputs, cloud, workload>>

AddBackendGet ==
    /\ w.pc = "addGet"
    /\ lbs[w.lb] = "up"
    /\ IF w.obj.address \in servers[w.lb]
       THEN ToBootstrap(w.obj)
       ELSE w' = [w EXCEPT !.pc = "addPut", !.snap = servers[w.lb]]
    /\ UNCHANGED <<store, inputs, cloud, workload>>

\* Mutant of AddBackendPut: writes the new server in place of the others.
AddBackendAlone ==
    /\ w.pc = "addPut"
    /\ lbs[w.lb] = "up"
    /\ servers' = [servers EXCEPT ![w.lb] = {w.obj.address}]
    /\ ToBootstrap(w.obj)
    /\ UNCHANGED <<store, inputs, nodes, late, lbs, workload>>

AddBackendPut ==
    /\ w.pc = "addPut"
    /\ lbs[w.lb] = "up"
    /\ servers' = [servers EXCEPT ![w.lb] = w.snap \cup {w.obj.address}]
    /\ \/ ToBootstrap(w.obj)
       \/ "lostReply" \in Faults /\ Return(w.obj)
    /\ UNCHANGED <<store, inputs, nodes, late, lbs, workload>>

\* Mutant of AddBackendFails: the error is logged and the bootstrap goes on.
AddBackendErrorIgnored ==
    /\ w.pc \in {"addGet", "addPut"}
    /\ lbs[w.lb] # "up" \/ "lbError" \in Faults
    /\ ToBootstrap(w.obj)
    /\ UNCHANGED <<store, inputs, cloud, workload>>

\* The machine is requeued without having been bootstrapped.
AddBackendFails ==
    /\ w.pc \in {"addGet", "addPut"}
    /\ lbs[w.lb] # "up" \/ "lbError" \in Faults
    /\ Return(w.obj)
    /\ UNCHANGED <<store, inputs, cloud, workload>>

-----------------------------------------------------------------------------
(***************************************************************************)
(* Bootstrap over SSH, and the Node in the workload cluster.               *)
(***************************************************************************)

\* Mutant of BootstrapWaits: does not return, so that step 3 is reached.
BootstrapSkipped ==
    /\ w.pc = "bootstrap"
    /\ MarkReady([w.obj EXCEPT !.bootstrapped = TRUE])
    /\ UNCHANGED <<store, inputs, cloud, workload>>

\* No bootstrap data, no public IP, no SSH, or the script failed.
BootstrapWaits ==
    /\ w.pc = "bootstrap"
    /\ Return(w.obj)
    /\ UNCHANGED <<store, inputs, cloud, workload>>

BootstrapRuns ==
    /\ w.pc = "bootstrap"
    /\ owner[w.m].data
    /\ nodes[w.obj.instanceID].status = "Running"
    /\ nodes' = [nodes EXCEPT ![w.obj.instanceID].booted = TRUE]
    /\ \/ IF w.m \in ControlPlane
          THEN MarkReady([w.obj EXCEPT !.bootstrapped = TRUE])
          ELSE Goto("tagNode")
       \/ "lostReply" \in Faults /\ Return(w.obj)
    /\ UNCHANGED <<store, inputs, late, lbs, servers, workload>>

\* A providerID is written only where there is none yet.
Tag(m, id) ==
    workload' = [workload EXCEPT ![m] = IF @ \in NodeId THEN @ ELSE id]

TagNode ==
    /\ w.pc = "tagNode"
    /\ workload[w.m] # "none"
    /\ Tag(w.m, w.obj.instanceID)
    /\ MarkReady([w.obj EXCEPT !.bootstrapped = TRUE])
    /\ UNCHANGED <<store, inputs, cloud>>

\* The Node has not joined yet or a call fails: logged, then as above.
TagNodeFails ==
    /\ w.pc = "tagNode"
    /\ workload[w.m] = "none" \/ "workloadError" \in Faults
    /\ MarkReady([w.obj EXCEPT !.bootstrapped = TRUE])
    /\ UNCHANGED <<store, inputs, cloud, workload>>

\* The virtual Node of a control plane machine is created or completed.
EnsureControlPlaneNode ==
    /\ w.pc = "cpNode"
    /\ Tag(w.m, w.obj.instanceID)
    /\ Return(w.obj)
    /\ UNCHANGED <<store, inputs, cloud>>

EnsureControlPlaneNodeFails ==
    /\ w.pc = "cpNode"
    /\ "workloadError" \in Faults
    /\ Return(w.obj)
    /\ UNCHANGED <<store, inputs, cloud, workload>>

-----------------------------------------------------------------------------
(***************************************************************************)
(* reconcileDelete.                                                        *)
(***************************************************************************)

RemoveBackendGet ==
    /\ w.pc = "removeGet"
    /\ lbs[w.lb] = "up"
    /\ w' = [w EXCEPT !.pc = "removePut", !.snap = servers[w.lb]]
    /\ UNCHANGED <<store, inputs, cloud, workload>>

\* Mutant of RemoveBackendPut: the filter keeps what it should drop.
RemoveBackendOthers ==
    /\ w.pc = "removePut"
    /\ lbs[w.lb] = "up"
    /\ servers' = [servers EXCEPT ![w.lb] = w.snap \cap {w.obj.address}]
    /\ Goto("deleteNode")
    /\ UNCHANGED <<store, inputs, nodes, late, lbs, workload>>

RemoveBackendPut ==
    /\ w.pc = "removePut"
    /\ lbs[w.lb] = "up"
    /\ servers' = [servers EXCEPT ![w.lb] = w.snap \ {w.obj.address}]
    /\ Goto("deleteNode")
    /\ UNCHANGED <<store, inputs, nodes, late, lbs, workload>>

\* Mutant of RemoveBackendFails: the error ends the reconciliation.
RemoveBackendErrorReturned ==
    /\ w.pc \in {"removeGet", "removePut"}
    /\ lbs[w.lb] # "up" \/ "lbError" \in Faults
    /\ Return(w.obj)
    /\ UNCHANGED <<store, inputs, cloud, workload>>

\* Logged only: the deletion goes on.
RemoveBackendFails ==
    /\ w.pc \in {"removeGet", "removePut"}
    /\ lbs[w.lb] # "up" \/ "lbError" \in Faults
    /\ Goto("deleteNode")
    /\ UNCHANGED <<store, inputs, cloud, workload>>

\* A node that is already gone counts as deleted.
DeleteNode ==
    /\ w.pc = "deleteNode"
    /\ nodes' = [nodes EXCEPT ![w.obj.instanceID].status = "deleted"]
    /\ \/ Return([w.obj EXCEPT !.finalizer = FALSE])
       \/ "lostReply" \in Faults /\ Return(w.obj)
    /\ UNCHANGED <<store, inputs, late, lbs, servers, workload>>

\* Mutant of DeleteNodeFails: the finalizer is removed in spite of the error.
DeleteNodeErrorIgnored ==
    /\ w.pc = "deleteNode"
    /\ Return([w.obj EXCEPT !.finalizer = FALSE])
    /\ UNCHANGED <<store, inputs, cloud, workload>>

DeleteNodeFails ==
    /\ w.pc = "deleteNode"
    /\ Return(w.obj)
    /\ UNCHANGED <<store, inputs, cloud, workload>>

-----------------------------------------------------------------------------
(***************************************************************************)
(* The deferred patch: one merge patch for metadata and spec, then one for *)
(* the status, the second sent whether or not the first was accepted.      *)
(* Each holds only the fields that differ from what was read.              *)
(***************************************************************************)

Merged(b, o, current) == IF b = o THEN current ELSE o

\* The API server drops a deleted object with its last finalizer.
PatchedObject(b, o, old) ==
    LET new == [old EXCEPT !.finalizer  = Merged(b.finalizer, o.finalizer, @),
                           !.providerID = Merged(b.providerID, o.providerID, @)]
    IN  [new EXCEPT !.exists = ~new.deleting \/ new.finalizer]

PatchedStatus(b, o, old) ==
    [old EXCEPT !.instanceID   = Merged(b.instanceID, o.instanceID, @),
                !.address      = Merged(b.address, o.address, @),
                !.bootstrapped = Merged(b.bootstrapped, o.bootstrapped, @),
                !.ready        = Merged(b.ready, o.ready, @),
                !.failed       = Merged(b.failed, o.failed, @)]

\* The patch of an object that is gone has no effect.
Patch(o) ==
    store' = IF store[w.m].exists THEN [store EXCEPT ![w.m] = o] ELSE store

PatchObject ==
    /\ w.pc = "patchObject"
    /\ Patch(PatchedObject(w.base, w.obj, store[w.m]))
    /\ Goto("patchStatus")
    /\ UNCHANGED <<inputs, cloud, workload>>

PatchObjectFails ==
    /\ w.pc = "patchObject"
    /\ "patchError" \in Faults
    /\ Goto("patchStatus")
    /\ UNCHANGED <<store, inputs, cloud, workload>>

PatchStatus ==
    /\ w.pc = "patchStatus"
    /\ Patch(PatchedStatus(w.base, w.obj, store[w.m]))
    /\ w' = IdleWorker
    /\ UNCHANGED <<inputs, cloud, workload>>

PatchStatusFails ==
    /\ w.pc = "patchStatus"
    /\ "patchError" \in Faults
    /\ w' = IdleWorker
    /\ UNCHANGED <<store, inputs, cloud, workload>>

Reconcile(m) ==
    \/ OwnerNotFound(m)
    \/ DeleteInstance(m)
    \/ DeleteWithoutInstance(m)
    \/ AddFinalizer(m)
    \/ StartCreate(m)
    \/ StartStatus(m)

Controller ==
    \/ \E m \in Machines : Reconcile(m)
    \/ LookupFound
    \/ LookupMissed
    \/ CreateNode
    \/ CreateNodeFails
    \/ GetNodeNotFound
    \/ GetNodeFails
    \/ GetNodeNotRunning
    \/ GetNodeRunning
    \/ AddBackendGet
    \/ AddBackendPut
    \/ AddBackendFails
    \/ BootstrapWaits
    \/ BootstrapRuns
    \/ TagNode
    \/ TagNodeFails
    \/ EnsureControlPlaneNode
    \/ EnsureControlPlaneNodeFails
    \/ RemoveBackendGet
    \/ RemoveBackendPut
    \/ RemoveBackendFails
    \/ DeleteNode
    \/ DeleteNodeFails
    \/ PatchObject
    \/ PatchObjectFails
    \/ PatchStatus
    \/ PatchStatusFails

-----------------------------------------------------------------------------
(***************************************************************************)
(* The surroundings of the controller.                                     *)
(***************************************************************************)

\* The informer delivers the current object; older versions are delivered by
\* taking this step earlier.
CacheSync(m) ==
    /\ cache[m] # store[m]
    /\ cache' = [cache EXCEPT ![m] = store[m]]
    /\ UNCHANGED <<store, owner, cluster, paused, cloud, workload, w>>

\* The manager dies, loses its memory and lists the objects anew.
Crash ==
    /\ "crash" \in Faults
    /\ w.pc # "idle"
    /\ w' = IdleWorker
    /\ cache' = store
    /\ \/ UNCHANGED late
       \/ "lateCreate" \in Faults /\ w.pc = "create" /\ late' = late \cup {w.m}
    /\ UNCHANGED <<store, owner, cluster, paused, nodes, lbs, servers, workload>>

\* The Machine controller sets the ownerReference.
AdoptMachine(m) ==
    /\ store[m].exists
    /\ owner[m].exists
    /\ ~store[m].owned
    /\ store' = [store EXCEPT ![m].owned = TRUE]
    /\ UNCHANGED <<inputs, cloud, workload, w>>

\* A finalizer keeps a deleted object until it is removed.
UserDelete(m) ==
    /\ store[m].exists
    /\ ~store[m].deleting
    /\ store' = [store EXCEPT ![m] = [@ EXCEPT !.deleting = store[m].finalizer,
                                               !.exists = store[m].finalizer]]
    /\ UNCHANGED <<inputs, cloud, workload, w>>

\* The bootstrap provider names its secret in the Machine.
DataReady(m) ==
    /\ owner[m].exists
    /\ ~owner[m].data
    /\ owner' = [owner EXCEPT ![m].data = TRUE]
    /\ UNCHANGED <<store, cache, cluster, paused, cloud, workload, w>>

OwnerLost(m) ==
    /\ "ownerGone" \in Faults
    /\ owner[m].exists
    /\ owner' = [owner EXCEPT ![m] = [exists |-> FALSE, data |-> FALSE]]
    /\ UNCHANGED <<store, cache, cluster, paused, cloud, workload, w>>

NodeStarts(n) ==
    /\ nodes[n].status \in {"Creating", "Stopped"}
    /\ \/ nodes' = [nodes EXCEPT ![n] = [@ EXCEPT !.status = "Running", !.ip = TRUE]]
       \/ /\ "noPrivateIP" \in Faults
          /\ nodes' = [nodes EXCEPT ![n].status = "Running"]
    /\ UNCHANGED <<store, inputs, late, lbs, servers, workload, w>>

NodeGetsIP(n) ==
    /\ nodes[n].status = "Running"
    /\ ~nodes[n].ip
    /\ nodes' = [nodes EXCEPT ![n].ip = TRUE]
    /\ UNCHANGED <<store, inputs, late, lbs, servers, workload, w>>

\* The cloud answers without the private IP that it gave before.
NodeLosesIP(n) ==
    /\ "noPrivateIP" \in Faults
    /\ nodes[n].status = "Running"
    /\ nodes[n].ip
    /\ nodes' = [nodes EXCEPT ![n].ip = FALSE]
    /\ UNCHANGED <<store, inputs, late, lbs, servers, workload, w>>

NodeLost(n) ==
    /\ "nodeLoss" \in Faults
    /\ \E s \in {"Stopped", "deleted"} :
          /\ nodes[n].status \notin {"absent", "deleted", s}
          /\ nodes' = [nodes EXCEPT ![n].status = s]
    /\ UNCHANGED <<store, inputs, late, lbs, servers, workload, w>>

\* A create request whose caller gave up is executed after all, or is lost.
LateCreate(m) ==
    /\ m \in late
    /\ late' = late \ {m}
    /\ \/ \E n \in NodeId : Provision(m, n)
       \/ UNCHANGED nodes
    /\ UNCHANGED <<store, inputs, lbs, servers, workload, w>>

\* The kubelet of a bootstrapped worker joins the workload cluster.
KubeletRegisters(m) ==
    /\ m \notin ControlPlane
    /\ workload[m] = "none"
    /\ \E n \in Live(m) : nodes[n].booted
    /\ workload' = [workload EXCEPT ![m] = "bare"]
    /\ UNCHANGED <<store, inputs, cloud, w>>

\* The E2ECluster controller and its load balancers, as far as ClusterContract
\* promises.
Contract == INSTANCE ClusterContract WITH Backend <- NodeId

MachinesUnchanged == UNCHANGED <<store, cache, owner, paused, nodes, late, workload, w>>

\* An E2ECluster that is deleted loses its backends and its load balancer first.
ClusterStep ==
    /\ \/ \E l \in LbId :
             \/ Contract!LBCreated(l)
             \/ Contract!LBRecorded(l)
             \/ Faults \cap {"lbReset", "clusterGone"} # {} /\ Contract!LBVanishes(l)
             \/ "clusterGone" \in Faults /\ Contract!BackendsCleared(l)
       \/ Contract!LBForgotten
       \/ Contract!ClusterReady
       \/ "clusterGone" \in Faults /\ Contract!ClusterRemoved
    /\ MachinesUnchanged

TogglePause ==
    /\ "pause" \in Faults
    /\ paused' = ~paused
    /\ UNCHANGED <<store, cache, owner, cluster, cloud, workload, w>>

Environment ==
    \/ \E m \in Machines :
          \/ CacheSync(m)
          \/ AdoptMachine(m)
          \/ UserDelete(m)
          \/ DataReady(m)
          \/ OwnerLost(m)
          \/ LateCreate(m)
          \/ KubeletRegisters(m)
    \/ \E n \in NodeId :
          \/ NodeStarts(n)
          \/ NodeGetsIP(n)
          \/ NodeLosesIP(n)
          \/ NodeLost(n)
    \/ Crash
    \/ ClusterStep
    \/ TogglePause

Next == Controller \/ Environment

Spec == Init /\ [][Next]_vars

(***************************************************************************)
(* Fairness.  The watches, the requeues and the resync of the informers    *)
(* bring the worker back to every object again and again, whatever other   *)
(* objects ask for (SF).  A reconciliation that began goes on (WF), a      *)
(* remote call does not fail for ever, and the cloud, the kubelets and the *)
(* other controllers do their part.  Load balancers are not lost for ever. *)
(***************************************************************************)
Fairness ==
    /\ WF_vars(Controller /\ w.pc # "idle")
    /\ \A m \in Machines :
          /\ SF_vars(Reconcile(m))
          /\ SF_vars(w.m = m /\ CreateNode)
          /\ SF_vars(w.m = m /\ GetNodeRunning)
          /\ SF_vars(w.m = m /\ AddBackendGet)
          /\ SF_vars(w.m = m /\ AddBackendPut)
          /\ SF_vars(w.m = m /\ BootstrapRuns)
          /\ SF_vars(w.m = m /\ EnsureControlPlaneNode)
          /\ SF_vars(w.m = m /\ DeleteNode)
          /\ WF_vars(CacheSync(m))
          /\ WF_vars(AdoptMachine(m) \/ DataReady(m) \/ KubeletRegisters(m))
    /\ \A n \in NodeId : WF_vars(NodeStarts(n) \/ NodeGetsIP(n))
    /\ WF_vars(/\ MachinesUnchanged
               /\ \/ cluster.lb = None /\ \E l \in LbId : Contract!LBCreated(l)
                  \/ \E l \in LbId : Contract!LBRecorded(l)
                  \/ Contract!LBForgotten)
    /\ SF_vars(Contract!ClusterReady /\ MachinesUnchanged)
    /\ <>[](cluster.lb # None => lbs[cluster.lb] = "up")

FairSpec == Spec /\ Fairness

-----------------------------------------------------------------------------
(***************************************************************************)
(* Properties.                                                             *)
(***************************************************************************)

\* What the program counter says about the worker's memory.
WorkerOK ==
    /\ w.pc # "idle" => w.m \in Machines
    /\ w.pc \in {"getNode", "addGet", "addPut", "bootstrap", "tagNode",
                 "cpNode", "removeGet", "removePut", "deleteNode"}
         => w.obj.instanceID # None
    /\ w.pc \in {"addGet", "addPut", "removeGet", "removePut"}
         => w.lb # None /\ w.obj.address # None

\* Every variable has its type, and no step of a reconciliation dereferences
\* an instance ID, an address or a load balancer ID that is not set.
TypeOK ==
    /\ store \in [Machines -> Object]
    /\ cache \in [Machines -> Object]
    /\ owner \in [Machines -> [exists : BOOLEAN, data : BOOLEAN]]
    /\ cluster \in [exists : BOOLEAN, ready : BOOLEAN, lb : LbId \cup {None}]
    /\ paused \in BOOLEAN
    /\ nodes \in [NodeId -> Node]
    /\ late \in SUBSET Machines
    /\ lbs \in [LbId -> {"absent", "up", "gone"}]
    /\ servers \in [LbId -> SUBSET NodeId]
    /\ workload \in [Machines -> WorkloadNode]
    /\ w \in Worker
    /\ WorkerOK

\* A create request is only ever sent for an object that the API server holds
\* with the finalizer on it, however stale the cache: what the request makes
\* cannot be left behind by a deletion that nobody noticed.
CreateUnderFinalizer ==
    w.pc \in {"lookup", "create"}
        => store[w.m].exists /\ store[w.m].finalizer

\* No machine ever has two compute nodes: the lookup by name finds what an
\* earlier reconciliation made and could not record.
NoDuplicateVM ==
    \A m \in Machines : \A n1, n2 \in Live(m) : n1 = n2

\* The node ID recorded for a machine, in the API server, in the cache or in
\* the memory of a reconciliation, is that of a node made under its name.
InstanceIsOwn ==
    /\ \A m \in Machines :
          /\ store[m].instanceID # None => nodes[store[m].instanceID].name = m
          /\ cache[m].instanceID # None => nodes[cache[m].instanceID].name = m
    /\ w.pc # "idle" /\ w.obj.instanceID # None
          => nodes[w.obj.instanceID].name = w.m

\* The controller deletes a compute node only for the machine that it was
\* made for, and only once somebody asked for the deletion of that machine.
DeletesOnlyItsOwn ==
    [][\A n \in NodeId :
          /\ w.pc = "deleteNode" /\ w' # w
          /\ nodes[n].status # "deleted"
          /\ nodes'[n].status = "deleted"
          => nodes[n].name = w.m /\ store[w.m].deleting]_vars

\* A machine is reported ready only when its bootstrap script ran to the end
\* on the very node recorded for it, across crashes, stale reads and refused
\* writes; the provider ID is written first and names no other node.
ReadyIsEarned ==
    \A m \in Machines :
       store[m].exists /\ store[m].ready
         => /\ store[m].bootstrapped
            /\ store[m].instanceID # None
            /\ store[m].providerID \in {None, store[m].instanceID}
            /\ nodes[store[m].instanceID].booted

\* A terminal failure is recorded only for a node that no longer exists.
FailureIsReal ==
    \A m \in Machines :
       store[m].failed => nodes[store[m].instanceID].status = "deleted"

\* A control plane node is bootstrapped only when the load balancer already
\* sends API server traffic to it ("Step 1 ... must happen first").
RegisteredBeforeBootstrap ==
    [][\A n \in NodeId :
          /\ ~nodes[n].booted
          /\ nodes'[n].booted
          /\ nodes[n].name \in ControlPlane
          => \E l \in LbId : lbs[l] = "up" /\ n \in servers[l]]_vars

\* A reconciliation takes a server out of a load balancer only if it is the
\* node of its own machine, whose deletion somebody asked for: its GET and PUT
\* lose no registration of another machine.
DeregistersOnlyItsOwn ==
    [][\A l \in LbId : \A n \in servers[l] :
          n \notin servers'[l] /\ w' # w
          => nodes[n].name = w.m /\ store[w.m].deleting]_vars

\* A control plane machine that was bootstrapped stays registered while
\* other machines are registered and deregistered, until it is deleted.
BootstrappedIsRegistered ==
    \A m \in ControlPlane :
       store[m].exists /\ store[m].bootstrapped /\ ~store[m].deleting
         => cluster.lb # None /\ store[m].instanceID \in servers[cluster.lb]

\* When an object goes, the compute node recorded in it is deleted.
RecordedVMDeleted ==
    \A m \in Machines :
       ~store[m].exists /\ store[m].instanceID # None
         => nodes[store[m].instanceID].status = "deleted"

\* When an object goes, no compute node made for it is left, recorded or not.
NoOrphanVM ==
    \A m \in Machines : ~store[m].exists => Live(m) = {}

\* When an object goes, no load balancer sends traffic to its node any more.
NoStaleBackend ==
    \A m \in Machines, l \in LbId :
       ~store[m].exists => \A n \in servers[l] : nodes[n].name # m

\* A deleted object does go away, with its node and its registration, though
\* calls fail again and again.
DeletionCompletes ==
    \A m \in Machines : store[m].deleting ~> ~store[m].exists

\* A machine that has its owner and its bootstrap data becomes ready, unless
\* it is deleted first or its node is lost.
BecomesReady ==
    \A m \in Machines :
       store[m].owned ~> \/ store[m].ready
                         \/ store[m].deleting
                         \/ ~store[m].exists
                         \/ store[m].failed

\* A ready control plane machine is registered with the load balancer that
\* the E2ECluster records, again after the load balancer was replaced.
ServesAgain ==
    \A m \in ControlPlane :
       store[m].ready ~> \/ store[m].deleting
                         \/ ~store[m].exists
                         \/ cluster.lb = None
                         \/ lbs[cluster.lb] # "up"
                         \/ store[m].instanceID \in servers[cluster.lb]

\* A ready worker's Node comes to carry the provider ID that Cluster API
\* needs to match the Machine to the Node.
ReadyNodeIsTagged ==
    \A m \in Machines :
       store[m].ready ~> \/ workload[m] = store[m].providerID
                         \/ store[m].deleting
                         \/ ~store[m].exists

-----------------------------------------------------------------------------
(***************************************************************************)
(* Inductive strengthenings of the invariants that are proved.             *)
(***************************************************************************)

\* What makes CreateUnderFinalizer inductive.  A finalizer is taken off only by
\* a reconciliation that read a deletion or missed the owner; neither is ever
\* undone, and the cache only moves forward.  So as long as the owner is there,
\* a cached finalizer without a cached deletion is still in the API server.
FinalizerInv ==
    /\ \A m \in Machines :
          /\ cache[m].deleting => store[m].deleting
          /\ owner[m].exists /\ cache[m].exists /\ cache[m].finalizer
                /\ ~cache[m].deleting
             => store[m].exists /\ store[m].finalizer
    /\ w.pc # "idle" =>
          /\ w.base.deleting => cache[w.m].deleting
          /\ w.base.finalizer /\ ~w.obj.finalizer
                => w.base.deleting \/ ~owner[w.m].exists
    /\ w.pc \in {"removeGet", "removePut", "deleteNode"} => w.base.deleting
    /\ CreateUnderFinalizer

\* What makes InstanceIsOwn inductive: an unused ID carries no name, so the
\* name of a node is given once.
OwnershipInv ==
    /\ InstanceIsOwn
    /\ \A n \in NodeId : nodes[n].status = "absent" <=> nodes[n].name = None

\* What makes NoDuplicateVM inductive where the lookup cannot fail and no
\* create request outlives its caller.
OneNodeInv ==
    /\ NoDuplicateVM
    /\ w.pc = "create" => Live(w.m) = {}
    /\ late = {}

\* What a reconciliation is about to write differs from what it read only in
\* what it has seen or done itself, and then it is true of the node.
PatchInv ==
    w.pc # "idle" =>
       /\ w.base.instanceID # None => w.obj.instanceID = w.base.instanceID
       /\ w.pc \in {"lookup", "create"}
             => w.obj.instanceID = None /\ w.base.finalizer /\ ~w.base.deleting
       /\ w.pc \in {"getNode", "addGet", "addPut", "bootstrap", "tagNode",
                    "cpNode", "removeGet", "removePut", "deleteNode"}
             => w.base.instanceID # None
       /\ w.pc = "tagNode" => nodes[w.obj.instanceID].booted
       /\ w.obj.finalizer = w.base.finalizer \/ w.pc \in {"patchObject", "patchStatus"}
       /\ w.base.finalizer /\ ~w.obj.finalizer /\ w.obj.instanceID # None
             => \/ nodes[w.obj.instanceID].status = "deleted"
                \/ ~owner[w.m].exists
       /\ \/ w.obj.instanceID = w.base.instanceID
          \/ w.base.finalizer /\ w.obj.finalizer
       /\ \/ w.obj.providerID = w.base.providerID
          \/ w.obj.providerID = w.base.instanceID /\ w.base.instanceID # None
       /\ w.base.bootstrapped => w.obj.bootstrapped
       /\ w.base.ready => w.obj.ready
       /\ w.base.failed => w.obj.failed
       /\ w.obj.bootstrapped /\ ~w.base.bootstrapped
             => w.base.instanceID # None /\ nodes[w.base.instanceID].booted
       /\ w.obj.ready /\ ~w.base.ready => w.obj.bootstrapped
       /\ w.obj.failed /\ ~w.base.failed
             => /\ w.base.instanceID # None
                /\ nodes[w.base.instanceID].status = "deleted"

\* Where the cache does not lag, the only worker is the only writer: what it read
\* of the status and the finalizer is what is stored until it writes.
FreshInv ==
    w.pc # "idle" =>
       /\ w.base.instanceID = store[w.m].instanceID
       /\ cache[w.m].instanceID = store[w.m].instanceID
       /\ w.base.address = store[w.m].address
       /\ w.base.failed = store[w.m].failed
       /\ \/ w.base.finalizer = store[w.m].finalizer
          \/ w.pc = "patchStatus" /\ w.obj.finalizer = store[w.m].finalizer

\* What makes FailureIsReal inductive with FreshInv.
FailureInv ==
    \A m \in Machines :
       store[m].failed => /\ store[m].instanceID # None
                          /\ nodes[store[m].instanceID].status = "deleted"

\* What makes RecordedVMDeleted inductive with FreshInv where no owner is lost.
RecordInv ==
    \A m \in Machines :
       /\ owner[m].exists
       /\ store[m].finalizer => store[m].exists
       /\ store[m].instanceID # None /\ ~store[m].finalizer
             => nodes[store[m].instanceID].status = "deleted"

\* The ID that a reconciliation read, if its node is alive, is the recorded one.
LiveIsCurrent ==
    w.pc # "idle" /\ w.base.instanceID \in Live(w.m)
       => /\ store[w.m].instanceID = w.base.instanceID
          /\ cache[w.m].instanceID = w.base.instanceID

\* What makes LiveIsCurrent inductive where the cache lags but a machine has one
\* live node: a recorded ID is written over only after its node was deleted.
CurrentInv ==
    /\ LiveIsCurrent
    /\ \A m \in Machines :
          cache[m].instanceID \in Live(m) => store[m].instanceID = cache[m].instanceID
    /\ w.pc # "idle" /\ w.base.instanceID = None /\ w.obj.instanceID # None
          => Live(w.m) \subseteq {w.obj.instanceID}

\* What is recorded or about to be recorded depends on which node the machine has.
Settled(m) == store[m].bootstrapped \/ store[m].providerID # None

Settling ==
    \/ w.pc = "tagNode"
    \/ w.obj.bootstrapped # w.base.bootstrapped
    \/ w.obj.providerID # w.base.providerID

\* From the bootstrap of a machine on its ID is known to all and does not change.
SettledInv ==
    /\ \A m \in Machines :
          /\ cache[m].bootstrapped => store[m].bootstrapped
          /\ Settled(m) => /\ store[m].instanceID # None
                           /\ cache[m].instanceID = store[m].instanceID
    /\ w.pc # "idle"
          => /\ w.base.bootstrapped => store[w.m].bootstrapped
             /\ Settled(w.m) \/ Settling
                   => /\ store[w.m].instanceID = w.base.instanceID
                      /\ cache[w.m].instanceID = w.base.instanceID

\* What makes ReadyIsEarned inductive where LiveIsCurrent holds.
ReadyInv ==
    /\ SettledInv
    /\ \A m \in Machines :
          /\ cache[m].ready => store[m].ready
          /\ store[m].providerID \in {None, store[m].instanceID}
          /\ store[m].ready => store[m].bootstrapped
          /\ store[m].bootstrapped => nodes[store[m].instanceID].booted
    /\ w.pc # "idle" /\ w.base.ready => store[w.m].ready

\* What makes RegisteredBeforeBootstrap inductive where a running node has its
\* private IP and neither the cluster nor its load balancer goes away.
RegisterInv ==
    /\ cluster.exists
    /\ cluster.ready => cluster.lb # None
    /\ cluster.lb # None => lbs[cluster.lb] = "up"
    /\ \A l \in LbId : lbs[l] # "gone"
    /\ \A n \in NodeId : nodes[n].status = "Running" => nodes[n].ip
    /\ w.pc # "idle" /\ w.lb # None => lbs[w.lb] = "up"
    /\ w.pc \in {"getNode", "addGet", "addPut", "bootstrap"} => w.lb # None
    /\ w.pc \in {"addGet", "addPut"} => w.obj.address = w.obj.instanceID
    /\ w.pc = "bootstrap" /\ w.m \in ControlPlane
          => w.obj.instanceID \in servers[w.lb]

\* What makes DeregistersOnlyItsOwn inductive: an address is that of a node of
\* the machine, and since the one worker alone adds servers, what it read of a
\* load balancer is at least what is there when it writes.
AddressInv ==
    /\ \A m \in Machines :
          /\ store[m].address # None => nodes[store[m].address].name = m
          /\ cache[m].address # None => nodes[cache[m].address].name = m
    /\ w.pc # "idle" /\ w.obj.address # None
          => nodes[w.obj.address].name = w.m
    /\ w.pc \in {"addPut", "removePut"} => servers[w.lb] \subseteq w.snap

\* What makes NoOrphanVM inductive where every node that is made is recorded
\* (with FreshInv and RecordInv): a live node is the recorded one, or the one
\* that the worker is about to record.
OrphanInv ==
    /\ late = {}
    /\ \A m \in Machines : \A n \in Live(m) :
          \/ n = store[m].instanceID
          \/ w.pc # "idle" /\ w.m = m /\ n = w.obj.instanceID

\* The machine of server n holds its finalizer and knows the address by which n
\* is deregistered, in the API server or in the memory of the worker that has it.
Held(n, l) ==
    \E m \in Machines :
       /\ nodes[n].name = m
       /\ nodes[n].ip
       /\ store[m].instanceID = n
       /\ store[m].finalizer
       /\ IF w.pc # "idle" /\ w.m = m
          THEN /\ w.obj.address = n
               /\ w.obj.finalizer
               /\ w.pc # "deleteNode"
               /\ w.pc \in {"removeGet", "removePut"} => w.lb = l
          ELSE store[m].address = n

\* What makes NoStaleBackend inductive where the cluster stays and load balancer
\* calls succeed (with FreshInv and RecordInv): there are servers only in the
\* load balancer that is recorded, and each of them is held.
BackendInv ==
    /\ cluster.exists
    /\ cluster.lb # None => lbs[cluster.lb] # "absent"
    /\ w.pc # "idle" /\ w.lb # None
          => w.lb = cluster.lb \/ lbs[w.lb] = "gone"
    /\ w.pc \in {"getNode", "addGet", "addPut"} => w.base.finalizer
    /\ w.pc \in {"addGet", "addPut"}
          => /\ w.obj.address = w.obj.instanceID
             /\ nodes[w.obj.instanceID].ip
    /\ w.pc \in {"addPut", "removePut"} /\ lbs[w.lb] = "up"
          => w.snap \subseteq servers[w.lb]
    /\ \A l \in LbId : \A n \in servers[l] :
          lbs[l] = "up" /\ l = cluster.lb /\ Held(n, l)

\* Node n is registered with the load balancer that the cluster records.
Serving(n) == cluster.lb # None /\ n \in servers[cluster.lb]

\* What makes BootstrappedIsRegistered inductive where the cluster keeps its load
\* balancer (RegisterInv) and a bootstrapped machine its ID (SettledInv): the load
\* balancer that a reconciliation uses is the recorded one, and who is about to
\* report the bootstrap is registered with it.
ServingInv ==
    /\ \A m \in ControlPlane :
          store[m].bootstrapped
             => store[m].deleting \/ Serving(store[m].instanceID)
    /\ w.pc # "idle" /\ w.lb # None => w.lb = cluster.lb
    /\ w.pc = "tagNode" => w.m \notin ControlPlane
    /\ /\ w.pc # "idle"
       /\ w.m \in ControlPlane
       /\ w.obj.bootstrapped /\ ~w.base.bootstrapped
       => store[w.m].deleting \/ Serving(w.base.instanceID)

=============================================================================
