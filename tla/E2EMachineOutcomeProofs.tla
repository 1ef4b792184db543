---------------------- MODULE E2EMachineOutcomeProofs ----------------------
(***************************************************************************)
(* What the E2EMachine controller reports and leaves behind: a machine is  *)
(* ready only when its script ran, failed only when its node is gone, and  *)
(* gone only with the node it recorded and any other that was made for it; *)
(* and no control plane node is bootstrapped before it is registered.      *)
(* Each is proved for every choice of the faults that it survives.         *)
(***************************************************************************)
EXTENDS E2EMachineProofs

USE DEF WorkerPc

-----------------------------------------------------------------------------
(***************************************************************************)
(* What the steps do to the nodes and to the object in memory.             *)
(***************************************************************************)

\* What happened to a node is never undone; it keeps its private IP unless losing
\* it is one of the faults.
NodesAge ==
    \A n \in NodeId :
       /\ nodes[n].booted => nodes'[n].booted
       /\ "noPrivateIP" \notin Faults => (nodes[n].ip => nodes'[n].ip)
       /\ nodes[n].status = "deleted" => nodes'[n].status = "deleted"

LEMMA NodesOnlyAge ==
    ASSUME TypeOK, OwnershipInv, [Next]_vars
    PROVE  NodesAge
<1>1. ASSUME NEW m \in Machines, NEW n \in NodeId, Provision(m, n)
      PROVE  NodesAge
  <2>1. /\ nodes'[n].booted = nodes[n].booted
        /\ nodes'[n].ip = nodes[n].ip
        /\ nodes[n].status = "absent"
        /\ \A k \in NodeId : k # n => nodes'[k] = nodes[k]
    BY <1>1 DEF Provision, TypeOK, Node
  <2> QED
    BY <2>1 DEF NodesAge
<1>2. ASSUME NEW n \in NodeId, NEW x \in Node, Wears(n, x)
      PROVE  NodesAge
  <2>1. nodes'[n] = x /\ \A k \in NodeId : k # n => nodes'[k] = nodes[k]
    BY <1>2 DEF Wears, TypeOK
  <2> QED
    BY <1>2, <2>1 DEF Wears, NodesAge
<1>3. CASE UNCHANGED nodes
  BY <1>3 DEF NodesAge
<1> QED
  BY <1>1, <1>2, <1>3, NodeChanges DEF CreateNode, LateCreate, TypeOK, WorkerOK

\* What a reconciliation wants to write, as MarkReady leaves it.
LEMMA MarkReadyObject ==
    ASSUME TypeOK, NEW o \in Object, MarkReady(o)
    PROVE  /\ w'.pc \in {"cpNode", "patchObject"}
           /\ w'.m = w.m /\ w'.base = w.base
           /\ w'.obj.finalizer = o.finalizer
           /\ w'.obj.instanceID = o.instanceID
           /\ w'.obj.providerID = o.instanceID
           /\ w'.obj.bootstrapped = o.bootstrapped
           /\ w'.obj.ready
           /\ w'.obj.failed = o.failed
  BY DEF MarkReady, TypeOK, Worker, Object

\* An object that is on its way through reconcileInstanceStatus goes on as it
\* is, or as a ready one if it is bootstrapped.
Onward(o) ==
    /\ w'.m = w.m /\ w'.base = w.base
    /\ w'.obj.finalizer = o.finalizer
    /\ w'.obj.instanceID = o.instanceID
    /\ w'.obj.bootstrapped = o.bootstrapped
    /\ w'.obj.failed = o.failed
    /\ \/ w'.obj.ready = o.ready /\ w'.obj.providerID = o.providerID
       \/ o.bootstrapped /\ w'.obj.ready /\ w'.obj.providerID = o.instanceID

LEMMA ToBootstrapObject ==
    ASSUME TypeOK, NEW o \in Object, ToBootstrap(o)
    PROVE  Onward(o) /\ w'.pc \in {"bootstrap", "cpNode", "patchObject"}
<1>1. CASE o.bootstrapped
  BY <1>1, MarkReadyObject DEF ToBootstrap, Onward
<1>2. CASE ~o.bootstrapped
  BY <1>2 DEF ToBootstrap, TypeOK, Worker, Onward
<1> QED
  BY <1>1, <1>2

-----------------------------------------------------------------------------
(***************************************************************************)
(* The pending patch.                                                      *)
(***************************************************************************)

LEMMA InitPatch == Init => PatchInv
  BY DEF Init, PatchInv, IdleWorker

\* What is pending stays true while the nodes and the owners only age.
LEMMA PatchFrame ==
    ASSUME TypeOK, PatchInv, NodesAge,
           \A m \in Machines : owner'[m].exists => owner[m].exists,
           w.pc # "idle", w'.m = w.m, w'.base = w.base, w'.obj = w.obj,
           w'.pc = w.pc \/ w'.pc \in {"patchObject", "patchStatus"}
    PROVE  PatchInv'
<1>1. /\ w.m \in Machines
      /\ w.obj.instanceID \in NodeId \cup {None}
      /\ w.base.instanceID \in NodeId \cup {None}
  BY DEF TypeOK, WorkerOK, Worker, Object
<1> QED
  BY <1>1, ConstantAssumption DEF PatchInv, NodesAge

\* A step through reconcileInstanceStatus, for which the script has run if it is
\* the one that says so.
LEMMA PatchOnward ==
    ASSUME TypeOK, PatchInv, NodesAge, owner' = owner,
           w.pc # "idle", w.base.instanceID # None,
           w'.pc \in {"addGet", "addPut", "bootstrap", "cpNode", "patchObject"},
           w.obj.finalizer = w.base.finalizer,
           NEW o \in Object, Onward(o),
           o.finalizer = w.obj.finalizer, o.instanceID = w.obj.instanceID,
           o.providerID = w.obj.providerID, o.ready = w.obj.ready,
           o.failed = w.obj.failed,
           \/ o.bootstrapped = w.obj.bootstrapped
           \/ o.bootstrapped /\ nodes'[w.obj.instanceID].booted
    PROVE  PatchInv'
<1>1. /\ w.m \in Machines
      /\ w.base.instanceID \in NodeId
      /\ w.obj.instanceID = w.base.instanceID
      /\ \A f \in {w.obj, w.base, o} :
            /\ f.bootstrapped \in BOOLEAN
            /\ f.ready \in BOOLEAN
            /\ f.failed \in BOOLEAN
            /\ f.finalizer \in BOOLEAN
  BY DEF TypeOK, WorkerOK, Worker, Object, PatchInv
<1> QED
  BY <1>1, ConstantAssumption DEF PatchInv, NodesAge, Onward

LEMMA MiddlePatch ==
    ASSUME TypeOK, OwnershipInv, PatchInv, Middle, NodesAge
    PROVE  PatchInv'
<1>0. /\ w \in Worker /\ w.obj \in Object /\ w.base \in Object /\ w.pc # "idle"
      /\ w.m \in Machines /\ owner' = owner
      /\ w.obj.instanceID \in NodeId \cup {None}
      /\ w.base.instanceID \in NodeId \cup {None}
  BY MiddleKeeps DEF Keeps, TypeOK, WorkerOK, Worker, Object
<1>1. CASE LookupFound
  <2>1. PICK n \in Live(w.m) : Return([w.obj EXCEPT !.instanceID = n])
    BY <1>1 DEF LookupFound
  <2> DEFINE o == [w.obj EXCEPT !.instanceID = n]
  <2>2. /\ o \in Object /\ o.instanceID = n /\ n \in NodeId /\ n # None
        /\ o.finalizer = w.obj.finalizer /\ o.providerID = w.obj.providerID
        /\ o.bootstrapped = w.obj.bootstrapped /\ o.ready = w.obj.ready
        /\ o.failed = w.obj.failed
    BY <1>0, ConstantAssumption DEF Live, Object
  <2>3. w'.pc = "patchObject" /\ w'.obj = o /\ w'.m = w.m /\ w'.base = w.base
    BY <2>1, <2>2, ReturnKeeps
  <2>4. w.pc = "lookup" /\ UNCHANGED nodes
    BY <1>1 DEF LookupFound, cloud
  <2> HIDE DEF o
  <2> QED
    BY <1>0, <2>2, <2>3, <2>4 DEF PatchInv
<1>2. CASE LookupMissed
  <2>1. w'.pc = "create" /\ w'.obj = w.obj /\ w'.m = w.m /\ w'.base = w.base
    BY <1>2, GotoKeeps DEF LookupMissed
  <2>2. w.pc = "lookup" /\ UNCHANGED nodes
    BY <1>2 DEF LookupMissed, cloud
  <2> QED
    BY <1>0, <2>1, <2>2 DEF PatchInv
<1>3. CASE CreateNode
  <2>1. PICK n \in NodeId :
           Return([w.obj EXCEPT !.instanceID = n]) \/ Return(w.obj)
    BY <1>3 DEF CreateNode
  <2> DEFINE o == [w.obj EXCEPT !.instanceID = n]
  <2>2. /\ o \in Object /\ o.instanceID = n /\ n # None
        /\ o.finalizer = w.obj.finalizer /\ o.providerID = w.obj.providerID
        /\ o.bootstrapped = w.obj.bootstrapped /\ o.ready = w.obj.ready
        /\ o.failed = w.obj.failed
    BY <1>0, ConstantAssumption DEF Object
  <2>3. /\ w'.pc = "patchObject" /\ w'.m = w.m /\ w'.base = w.base
        /\ w'.obj = o \/ w'.obj = w.obj
    BY <1>0, <2>1, <2>2, ReturnKeeps
  <2>4. w.pc = "create"
    BY <1>3 DEF CreateNode
  <2> HIDE DEF o
  <2>5. CASE w'.obj = o
    BY <1>0, <2>2, <2>3, <2>4, <2>5 DEF PatchInv, NodesAge
  <2>6. CASE w'.obj = w.obj
    BY <1>0, <2>3, <2>6, PatchFrame
  <2> QED
    BY <2>3, <2>5, <2>6
<1>4. CASE GetNodeNotFound
  <2> DEFINE o == [w.obj EXCEPT !.failed = TRUE]
  <2>1. /\ o \in Object /\ o.instanceID = w.obj.instanceID
        /\ o.finalizer = w.obj.finalizer /\ o.providerID = w.obj.providerID
        /\ o.bootstrapped = w.obj.bootstrapped /\ o.ready = w.obj.ready
        /\ o.failed
    BY <1>0 DEF Object
  <2>2. /\ w.pc = "getNode" /\ UNCHANGED nodes
        /\ nodes[w.obj.instanceID].status = "deleted" /\ Return(o)
    BY <1>4 DEF GetNodeNotFound, cloud
  <2> HIDE DEF o
  <2>3. w'.pc = "patchObject" /\ w'.obj = o /\ w'.m = w.m /\ w'.base = w.base
    BY <2>1, <2>2, ReturnKeeps
  <2> QED
    BY <1>0, <2>1, <2>2, <2>3 DEF PatchInv
<1>5. CASE GetNodeNotRunning \/ GetNodeRunning
  <2> DEFINE o == WithAddress(w.obj)
  <2>0. w.pc = "getNode" /\ w.base.instanceID # None /\ w.obj.instanceID # None
    BY <1>5 DEF GetNodeNotRunning, GetNodeRunning, PatchInv, TypeOK, WorkerOK
  <2>1. o \in Object
    BY <1>0, <2>0, WithAddressType
  <2>2. /\ o.instanceID = w.obj.instanceID
        /\ o.finalizer = w.obj.finalizer /\ o.providerID = w.obj.providerID
        /\ o.bootstrapped = w.obj.bootstrapped /\ o.ready = w.obj.ready
        /\ o.failed = w.obj.failed
    BY <1>0 DEF WithAddress, Object
  <2>3. \/ Return(o)
        \/ ToBootstrap(o)
        \/ w' = [w EXCEPT !.pc = "addGet", !.obj = o]
    BY <1>5 DEF GetNodeNotRunning, GetNodeRunning
  <2> HIDE DEF o
  <2>4. Onward(o) /\ w'.pc \in {"addGet", "bootstrap", "cpNode", "patchObject"}
    <3>1. CASE Return(o)
      BY <2>1, <3>1, ReturnKeeps DEF Onward
    <3>2. CASE ToBootstrap(o)
      BY <2>1, <3>2, ToBootstrapObject
    <3>3. CASE w' = [w EXCEPT !.pc = "addGet", !.obj = o]
      BY <1>0, <3>3 DEF Worker, Onward
    <3> QED
      BY <2>3, <3>1, <3>2, <3>3
  <2>5. w.obj.finalizer = w.base.finalizer
    BY <2>0 DEF PatchInv
  <2> QED
    BY <1>0, <2>0, <2>1, <2>2, <2>4, <2>5, PatchOnward
<1>6. CASE AddBackendGet \/ AddBackendPut
  <2>0. /\ w.pc \in {"addGet", "addPut"} /\ w.base.instanceID # None
        /\ w.obj.finalizer = w.base.finalizer
    BY <1>6 DEF AddBackendGet, AddBackendPut, PatchInv
  <2>1. \/ Return(w.obj)
        \/ ToBootstrap(w.obj)
        \/ w' = [w EXCEPT !.pc = "addPut", !.snap = servers[w.lb]]
    BY <1>6 DEF AddBackendGet, AddBackendPut
  <2>2. Onward(w.obj) /\ w'.pc \in {"addPut", "bootstrap", "cpNode", "patchObject"}
    <3>1. CASE Return(w.obj)
      BY <1>0, <3>1, ReturnKeeps DEF Onward
    <3>2. CASE ToBootstrap(w.obj)
      BY <1>0, <3>2, ToBootstrapObject
    <3>3. CASE w' = [w EXCEPT !.pc = "addPut", !.snap = servers[w.lb]]
      BY <1>0, <3>3 DEF Worker, Onward
    <3> QED
      BY <2>1, <3>1, <3>2, <3>3
  <2> QED
    BY <1>0, <2>0, <2>2, PatchOnward
<1>7. CASE BootstrapRuns \/ TagNode \/ TagNodeFails
  <2> DEFINE o == [w.obj EXCEPT !.bootstrapped = TRUE]
  <2>0. /\ w.pc \in {"bootstrap", "tagNode"} /\ w.base.instanceID # None
        /\ w.obj.finalizer = w.base.finalizer
        /\ w.obj.instanceID = w.base.instanceID
    BY <1>7 DEF BootstrapRuns, TagNode, TagNodeFails, PatchInv
  <2>1. /\ o \in Object /\ o.instanceID = w.obj.instanceID
        /\ o.finalizer = w.obj.finalizer /\ o.providerID = w.obj.providerID
        /\ o.bootstrapped /\ o.ready = w.obj.ready
        /\ o.failed = w.obj.failed
    BY <1>0 DEF Object
  <2>2. nodes'[w.obj.instanceID].booted
    <3>1. CASE BootstrapRuns
      <4>1. nodes' = [nodes EXCEPT ![w.obj.instanceID].booted = TRUE]
        BY <3>1 DEF BootstrapRuns
      <4>2. nodes \in [NodeId -> Node] /\ nodes[w.obj.instanceID] \in Node
            /\ w.obj.instanceID \in NodeId
        BY <1>0, <2>0 DEF TypeOK
      <4> QED
        BY <4>1, <4>2 DEF Node
    <3>2. CASE TagNode \/ TagNodeFails
      BY <3>2 DEF TagNode, TagNodeFails, PatchInv, cloud
    <3> QED
      BY <1>7, <3>1, <3>2
  <2>3. MarkReady(o) \/ (Goto("tagNode") /\ w.pc = "bootstrap") \/ Return(w.obj)
    BY <1>7 DEF BootstrapRuns, TagNode, TagNodeFails
  <2> HIDE DEF o
  <2>4. CASE MarkReady(o)
    <3>1. Onward(o) /\ w'.pc \in {"cpNode", "patchObject"}
      BY <2>1, <2>4, MarkReadyObject DEF Onward
    <3> QED
      BY <1>0, <2>0, <2>1, <2>2, <3>1, PatchOnward
  <2>5. CASE Goto("tagNode")
    <3>1. w'.pc = "tagNode" /\ w'.obj = w.obj /\ w'.m = w.m /\ w'.base = w.base
      BY <2>5, GotoKeeps
    <3> QED
      BY <1>0, <2>0, <2>2, <3>1 DEF PatchInv, NodesAge
  <2>6. CASE Return(w.obj)
    BY <1>0, <2>6, ReturnKeeps, PatchFrame
  <2> QED
    BY <2>3, <2>4, <2>5, <2>6
<1>8. CASE RemoveBackendGet \/ RemoveBackendPut \/ RemoveBackendFails
  <2>1. /\ w'.pc \in {"removePut", "deleteNode"} /\ w'.obj = w.obj
        /\ w'.m = w.m /\ w'.base = w.base
    <3>1. CASE RemoveBackendGet
      <4>1. w' = [w EXCEPT !.pc = "removePut", !.snap = servers[w.lb]]
        BY <3>1 DEF RemoveBackendGet
      <4> QED
        BY <1>0, <4>1 DEF Worker
    <3>2. CASE RemoveBackendPut \/ RemoveBackendFails
      BY <3>2, GotoKeeps DEF RemoveBackendPut, RemoveBackendFails
    <3> QED
      BY <1>8, <3>1, <3>2
  <2>2. w.pc \in {"removeGet", "removePut"} /\ UNCHANGED nodes
    BY <1>8 DEF RemoveBackendGet, RemoveBackendPut, RemoveBackendFails, cloud
  <2> QED
    BY <1>0, <2>1, <2>2 DEF PatchInv
<1>9. CASE DeleteNode
  <2> DEFINE o == [w.obj EXCEPT !.finalizer = FALSE]
  <2>1. /\ o \in Object /\ o.instanceID = w.obj.instanceID
        /\ ~o.finalizer /\ o.providerID = w.obj.providerID
        /\ o.bootstrapped = w.obj.bootstrapped /\ o.ready = w.obj.ready
        /\ o.failed = w.obj.failed
    BY <1>0 DEF Object
  <2>2. /\ w.pc = "deleteNode"
        /\ Return(o) \/ Return(w.obj)
        /\ nodes' = [nodes EXCEPT ![w.obj.instanceID].status = "deleted"]
    BY <1>9 DEF DeleteNode
  <2>3. nodes'[w.obj.instanceID].status = "deleted"
    <3>1. nodes[w.obj.instanceID] \in Node /\ w.obj.instanceID \in NodeId
      BY <1>0, <2>2 DEF TypeOK, WorkerOK
    <3> QED
      BY <2>2, <3>1 DEF TypeOK, Node
  <2> HIDE DEF o
  <2>4. CASE Return(o)
    <3>1. w'.pc = "patchObject" /\ w'.obj = o /\ w'.m = w.m /\ w'.base = w.base
      BY <2>1, <2>4, ReturnKeeps
    <3> QED
      BY <1>0, <2>1, <2>2, <2>3, <3>1 DEF PatchInv, NodesAge
  <2>5. CASE Return(w.obj)
    BY <1>0, <2>5, ReturnKeeps, PatchFrame
  <2> QED
    BY <2>2, <2>4, <2>5
<1>10. CASE \/ CreateNodeFails \/ GetNodeFails \/ AddBackendFails
            \/ BootstrapWaits \/ EnsureControlPlaneNode
            \/ EnsureControlPlaneNodeFails \/ DeleteNodeFails
  <2>1. Return(w.obj)
    BY <1>10
    DEF CreateNodeFails, GetNodeFails, AddBackendFails, BootstrapWaits,
        EnsureControlPlaneNode, EnsureControlPlaneNodeFails, DeleteNodeFails
  <2> QED
    BY <1>0, <2>1, ReturnKeeps, PatchFrame
<1> QED
  BY <1>1, <1>2, <1>3, <1>4, <1>5, <1>6, <1>7, <1>8, <1>9, <1>10 DEF Middle

\* A reconciliation begins with what it read, or with the finalizer changed.
LEMMA ReconcileBegins ==
    ASSUME TypeOK, NEW m \in Machines, Reconcile(m)
    PROVE  \E p \in {"lookup", "patchObject", "getNode", "deleteNode", "removeGet"},
              o \in Object :
              /\ w'.pc = p /\ w'.m = m /\ w'.base = cache[m] /\ w'.obj = o
              /\ w'.lb = IF cluster.exists THEN cluster.lb ELSE None
              /\ UNCHANGED <<store, cache, owner, cluster, nodes, lbs, servers>>
              /\ o.instanceID = cache[m].instanceID
              /\ o.address = cache[m].address
              /\ o.providerID = cache[m].providerID
              /\ o.bootstrapped = cache[m].bootstrapped
              /\ o.ready = cache[m].ready
              /\ o.failed = cache[m].failed
              /\ o.finalizer # cache[m].finalizer => p = "patchObject"
              /\ cache[m].finalizer /\ ~o.finalizer
                   => ~owner[m].exists \/ cache[m].instanceID = None
              /\ p \in {"getNode", "deleteNode", "removeGet"}
                   => cache[m].instanceID # None
              /\ p = "lookup" => /\ cache[m].instanceID = None
                                 /\ cache[m].finalizer /\ ~cache[m].deleting
              /\ p = "getNode" => /\ cluster.exists /\ cluster.ready
                                  /\ cache[m].finalizer
              /\ p = "deleteNode" => \/ ~cluster.exists
                                     \/ cluster.lb = None
                                     \/ cache[m].address = None
              /\ cache[m].exists
              /\ w.pc = "idle"
              /\ "staleCache" \in Faults \/ cache[m] = store[m]
<1>0. cache[m] \in Object /\ cache[m].finalizer \in BOOLEAN
  BY DEF TypeOK, Object
<1>1. ASSUME NEW b \in BOOLEAN
      PROVE  LET o == [cache[m] EXCEPT !.finalizer = b]
             IN  /\ o \in Object /\ o.finalizer = b
                 /\ o.instanceID = cache[m].instanceID
                 /\ o.address = cache[m].address
                 /\ o.providerID = cache[m].providerID
                 /\ o.bootstrapped = cache[m].bootstrapped
                 /\ o.ready = cache[m].ready
                 /\ o.failed = cache[m].failed
  BY <1>0 DEF Object
<1>2. ASSUME NEW p, NEW o, Begin(m, p, o)
      PROVE  /\ w'.pc = p /\ w'.m = m /\ w'.base = cache[m] /\ w'.obj = o
             /\ w'.lb = IF cluster.exists THEN cluster.lb ELSE None
             /\ UNCHANGED <<store, cache, owner, cluster, nodes, lbs, servers>>
  BY <1>2 DEF Begin, inputs, cloud
<1>3. CASE OwnerNotFound(m) \/ DeleteWithoutInstance(m) \/ AddFinalizer(m)
  <2>1. PICK b \in BOOLEAN :
           /\ Begin(m, "patchObject", [cache[m] EXCEPT !.finalizer = b])
           /\ b \/ ~owner[m].exists \/ cache[m].instanceID = None
    BY <1>3 DEF OwnerNotFound, DeleteWithoutInstance, AddFinalizer
  <2>2. /\ cache[m].exists /\ w.pc = "idle"
        /\ "staleCache" \in Faults \/ cache[m] = store[m]
    BY <1>3 DEF OwnerNotFound, DeleteWithoutInstance, AddFinalizer, Deleting, Active,
       Reading
  <2> DEFINE o == [cache[m] EXCEPT !.finalizer = b]
  <2>3. /\ o \in Object /\ o.finalizer = b
        /\ o.instanceID = cache[m].instanceID /\ o.address = cache[m].address
        /\ o.providerID = cache[m].providerID
        /\ o.bootstrapped = cache[m].bootstrapped
        /\ o.ready = cache[m].ready /\ o.failed = cache[m].failed
    BY <1>1
  <2>4. /\ w'.pc = "patchObject" /\ w'.m = m /\ w'.base = cache[m] /\ w'.obj = o
        /\ w'.lb = IF cluster.exists THEN cluster.lb ELSE None
        /\ UNCHANGED <<store, cache, owner, cluster, nodes, lbs, servers>>
    BY <1>2, <2>1
  <2> HIDE DEF o
  <2> QED
    BY <2>1, <2>2, <2>3, <2>4
<1>4. CASE DeleteInstance(m) \/ StartCreate(m) \/ StartStatus(m)
  <2>1. PICK p \in {"lookup", "getNode", "deleteNode", "removeGet"} :
           /\ Begin(m, p, cache[m])
           /\ p = "lookup" => /\ cache[m].instanceID = None
                              /\ cache[m].finalizer /\ ~cache[m].deleting
           /\ p # "lookup" => cache[m].instanceID # None
           /\ p = "getNode" => cluster.exists /\ cluster.ready /\ cache[m].finalizer
           /\ p = "deleteNode" => \/ ~cluster.exists
                                  \/ cluster.lb = None
                                  \/ cache[m].address = None
    BY <1>4 DEF DeleteInstance, StartCreate, StartStatus, Active
  <2>2. /\ cache[m].exists /\ w.pc = "idle"
        /\ "staleCache" \in Faults \/ cache[m] = store[m]
    BY <1>4 DEF DeleteInstance, StartCreate, StartStatus, Deleting, Active, Reading
  <2>3. /\ w'.pc = p /\ w'.m = m /\ w'.base = cache[m] /\ w'.obj = cache[m]
        /\ w'.lb = IF cluster.exists THEN cluster.lb ELSE None
        /\ UNCHANGED <<store, cache, owner, cluster, nodes, lbs, servers>>
    BY <1>2, <2>1
  <2> QED
    BY <1>0, <2>1, <2>2, <2>3
<1> QED
  BY <1>3, <1>4 DEF Reconcile

LEMMA ReconcilePatch ==
    ASSUME TypeOK, NEW m \in Machines, Reconcile(m)
    PROVE  PatchInv'
  BY ReconcileBegins DEF PatchInv

\* A step that is neither the beginning of a reconciliation nor in its middle
\* leaves the worker alone, moves it on with its patch or ends its work.
LEMMA OtherSteps ==
    ASSUME TypeOK, [Next]_vars, ~Middle, \A m \in Machines : ~Reconcile(m)
    PROVE  \/ w' = w
           \/ w'.pc = "idle"
           \/ /\ PatchObject \/ PatchObjectFails
              /\ w.pc = "patchObject" /\ w'.pc = "patchStatus"
              /\ w'.m = w.m /\ w'.base = w.base /\ w'.obj = w.obj
<1>1. CASE PatchObject \/ PatchObjectFails
  BY <1>1, GotoKeeps DEF PatchObject, PatchObjectFails
<1>2. CASE PatchStatus \/ PatchStatusFails \/ Crash
  BY <1>2 DEF PatchStatus, PatchStatusFails, Crash, IdleWorker
<1>3. CASE w' = w
  BY <1>3
<1> QED
  BY <1>1, <1>2, <1>3
  DEF Next, Controller, Middle, Environment, CacheSync, AdoptMachine,
      UserDelete, DataReady, OwnerLost, LateCreate, KubeletRegisters,
      NodeStarts, NodeGetsIP, NodeLosesIP, NodeLost, ClusterStep, MachinesUnchanged,
      TogglePause, vars

\* An owner that is gone does not come back.
LEMMA OwnersOnlyGo ==
    ASSUME TypeOK, [Next]_vars, ~Middle, \A m \in Machines : ~Reconcile(m)
    PROVE  /\ \A m \in Machines : owner'[m].exists => owner[m].exists
           /\ \/ \A m \in Machines : owner'[m].exists = owner[m].exists
              \/ "ownerGone" \in Faults
<1>1. ASSUME NEW k \in Machines, DataReady(k) \/ OwnerLost(k)
      PROVE  /\ \A m \in Machines : owner'[m].exists => owner[m].exists
             /\ \/ \A m \in Machines : owner'[m].exists = owner[m].exists
                \/ "ownerGone" \in Faults
  <2>1. owner[k] \in [exists : BOOLEAN, data : BOOLEAN]
    BY DEF TypeOK
  <2>2. CASE DataReady(k)
    <3>1. owner' = [owner EXCEPT ![k] = [owner[k] EXCEPT !.data = TRUE]]
      BY <2>2 DEF DataReady
    <3>2. [owner[k] EXCEPT !.data = TRUE].exists = owner[k].exists
      BY <2>1
    <3> QED
      BY <3>1, <3>2 DEF TypeOK
  <2>3. CASE OwnerLost(k)
    BY <2>3 DEF OwnerLost, TypeOK
  <2> QED
    BY <1>1, <2>2, <2>3
<1>2. (\E k \in Machines : DataReady(k) \/ OwnerLost(k)) \/ owner' = owner
  BY DEF Next, Controller, Middle, Environment, PatchObject, PatchObjectFails,
         PatchStatus, PatchStatusFails, Crash, CacheSync, AdoptMachine,
         UserDelete, LateCreate, KubeletRegisters, NodeStarts, NodeGetsIP, NodeLosesIP,
         NodeLost, ClusterStep, MachinesUnchanged, TogglePause, inputs, vars
<1> QED
  BY <1>1, <1>2

LEMMA PatchStep ==
    ASSUME TypeOK, OwnershipInv, PatchInv, [Next]_vars
    PROVE  PatchInv'
<1>0. NodesAge
  BY NodesOnlyAge
<1>1. CASE Middle
  BY <1>0, <1>1, MiddlePatch
<1>2. CASE \E m \in Machines : Reconcile(m)
  BY <1>2, ReconcilePatch
<1>3. CASE ~Middle /\ \A m \in Machines : ~Reconcile(m)
  <2>1. \A m \in Machines : owner'[m].exists => owner[m].exists
    BY <1>3, OwnersOnlyGo
  <2>2. CASE w'.pc = "idle"
    BY <2>2 DEF PatchInv
  <2>3. CASE w' = w /\ w.pc # "idle"
    BY <1>0, <2>1, <2>3, PatchFrame
  <2>4. CASE /\ w.pc = "patchObject" /\ w'.pc = "patchStatus"
             /\ w'.m = w.m /\ w'.base = w.base /\ w'.obj = w.obj
    BY <1>0, <2>1, <2>4, PatchFrame
  <2> QED
    BY <1>3, <2>2, <2>3, <2>4, OtherSteps
<1> QED
  BY <1>1, <1>2, <1>3

-----------------------------------------------------------------------------
(***************************************************************************)
(* What the API server holds.                                              *)
(***************************************************************************)

\* The object of machine m is adopted, deleted or left alone.
Touched(m) ==
    \/ store'[m] = store[m]
    \/ store'[m] = [store[m] EXCEPT !.owned = TRUE]
    \/ /\ store[m].exists /\ ~store[m].deleting
       /\ store'[m] = [store[m] EXCEPT !.deleting = store[m].finalizer,
                                       !.exists = store[m].finalizer]

\* Or it takes the patch of its metadata and spec, or that of its status.
StoreChange(m) ==
    \/ Touched(m)
    \/ /\ PatchObject /\ w.m = m /\ store[m].exists
       /\ store'[m] = PatchedObject(w.base, w.obj, store[m])
    \/ /\ PatchStatus /\ w.m = m /\ store[m].exists
       /\ store'[m] = PatchedStatus(w.base, w.obj, store[m])

LEMMA StoreSteps ==
    ASSUME TypeOK, [Next]_vars, NEW m \in Machines
    PROVE  StoreChange(m)
<1>1. CASE PatchObject \/ PatchStatus
  <2>1. w.m \in Machines
    BY <1>1 DEF PatchObject, PatchStatus, TypeOK, WorkerOK
  <2> QED
    BY <1>1, <2>1 DEF PatchObject, PatchStatus, Patch, StoreChange, Touched, TypeOK
<1>2. ASSUME NEW k \in Machines, AdoptMachine(k) \/ UserDelete(k)
      PROVE  StoreChange(m)
  BY <1>2 DEF AdoptMachine, UserDelete, StoreChange, Touched, TypeOK
<1>3. CASE UNCHANGED store
  BY <1>3 DEF StoreChange, Touched
<1>4. CASE Middle
  BY <1>3, <1>4, MiddleKeeps DEF Keeps
<1>5. CASE \E k \in Machines : Reconcile(k)
  BY <1>3, <1>5, ReconcileBegins
<1> QED
  BY <1>1, <1>2, <1>3, <1>4, <1>5
  DEF Next, Controller, Middle, Environment, PatchObjectFails, PatchStatusFails,
      CacheSync, Crash, DataReady, OwnerLost, LateCreate, KubeletRegisters,
      NodeStarts, NodeGetsIP, NodeLosesIP, NodeLost, ClusterStep, MachinesUnchanged,
      TogglePause, vars

\* The fields that a patch writes.
LEMMA PatchFields ==
    ASSUME NEW b \in Object, NEW o \in Object, NEW old \in Object
    PROVE  LET po == PatchedObject(b, o, old)
               ps == PatchedStatus(b, o, old)
           IN  /\ po.finalizer = Merged(b.finalizer, o.finalizer, old.finalizer)
               /\ po.providerID = Merged(b.providerID, o.providerID, old.providerID)
               /\ po.exists = (~old.deleting
                                 \/ Merged(b.finalizer, o.finalizer, old.finalizer))
               /\ po.deleting = old.deleting
               /\ po.instanceID = old.instanceID
               /\ po.address = old.address
               /\ po.bootstrapped = old.bootstrapped
               /\ po.ready = old.ready
               /\ po.failed = old.failed
               /\ ps.exists = old.exists
               /\ ps.deleting = old.deleting
               /\ ps.finalizer = old.finalizer
               /\ ps.providerID = old.providerID
               /\ ps.instanceID = Merged(b.instanceID, o.instanceID, old.instanceID)
               /\ ps.address = Merged(b.address, o.address, old.address)
               /\ ps.bootstrapped
                    = Merged(b.bootstrapped, o.bootstrapped, old.bootstrapped)
               /\ ps.ready = Merged(b.ready, o.ready, old.ready)
               /\ ps.failed = Merged(b.failed, o.failed, old.failed)
<1>1. ASSUME NEW x \in BOOLEAN, NEW y \in BOOLEAN, NEW z \in BOOLEAN
      PROVE  Merged(x, y, z) \in BOOLEAN
  BY DEF Merged
<1>2. ASSUME NEW x \in NodeId \cup {None}, NEW y \in NodeId \cup {None},
             NEW z \in NodeId \cup {None}
      PROVE  Merged(x, y, z) \in NodeId \cup {None}
  BY DEF Merged
<1> DEFINE f == Merged(b.finalizer, o.finalizer, old.finalizer)
           p == Merged(b.providerID, o.providerID, old.providerID)
           new == [old EXCEPT !.finalizer = f, !.providerID = p]
           i == Merged(b.instanceID, o.instanceID, old.instanceID)
           a == Merged(b.address, o.address, old.address)
           t == Merged(b.bootstrapped, o.bootstrapped, old.bootstrapped)
           r == Merged(b.ready, o.ready, old.ready)
           d == Merged(b.failed, o.failed, old.failed)
<1>3. /\ f \in BOOLEAN /\ p \in NodeId \cup {None}
      /\ i \in NodeId \cup {None} /\ a \in NodeId \cup {None}
      /\ t \in BOOLEAN /\ r \in BOOLEAN /\ d \in BOOLEAN
  BY <1>1, <1>2 DEF Object
<1>4. PatchedObject(b, o, old)
        = [new EXCEPT !.exists = ~new.deleting \/ new.finalizer]
  BY DEF PatchedObject
<1>5. PatchedStatus(b, o, old)
        = [old EXCEPT !.instanceID = i, !.address = a, !.bootstrapped = t,
                      !.ready = r, !.failed = d]
  BY DEF PatchedStatus
<1> HIDE DEF f, p, i, a, t, r, d
<1>6. /\ new \in Object /\ new.finalizer = f /\ new.providerID = p
      /\ new.deleting = old.deleting /\ new.instanceID = old.instanceID
      /\ new.address = old.address
      /\ new.bootstrapped = old.bootstrapped /\ new.ready = old.ready
      /\ new.failed = old.failed
  BY <1>3 DEF Object
<1> HIDE DEF new
<1>7. /\ PatchedObject(b, o, old).finalizer = f
      /\ PatchedObject(b, o, old).providerID = p
      /\ PatchedObject(b, o, old).exists = (~old.deleting \/ f)
      /\ PatchedObject(b, o, old).deleting = old.deleting
      /\ PatchedObject(b, o, old).instanceID = old.instanceID
      /\ PatchedObject(b, o, old).address = old.address
      /\ PatchedObject(b, o, old).bootstrapped = old.bootstrapped
      /\ PatchedObject(b, o, old).ready = old.ready
      /\ PatchedObject(b, o, old).failed = old.failed
  BY <1>4, <1>6 DEF Object
<1>8. LET ps == PatchedStatus(b, o, old)
      IN  /\ ps.exists = old.exists
          /\ ps.deleting = old.deleting
          /\ ps.finalizer = old.finalizer
          /\ ps.providerID = old.providerID
          /\ ps.instanceID = i
          /\ ps.address = a
          /\ ps.bootstrapped = t
          /\ ps.ready = r
          /\ ps.failed = d
  BY <1>3, <1>5 DEF Object
<1> QED
  BY <1>7, <1>8 DEF f, p, i, a, t, r, d

\* A patch moves the worker on; adoption and deletion change neither the ID of
\* the node, nor the finalizer, nor what the status says.
LEMMA StoreStatus ==
    ASSUME TypeOK, NEW m \in Machines, Touched(m)
    PROVE  /\ store'[m].finalizer = store[m].finalizer
           /\ store'[m].providerID = store[m].providerID
           /\ store'[m].instanceID = store[m].instanceID
           /\ store'[m].address = store[m].address
           /\ store'[m].bootstrapped = store[m].bootstrapped
           /\ store'[m].ready = store[m].ready
           /\ store'[m].failed = store[m].failed
           /\ store'[m].exists = store[m].exists
                \/ store'[m].exists = store[m].finalizer
           /\ store[m].deleting => store'[m].deleting
           /\ store'[m].exists => store[m].exists
<1>1. store[m] \in Object /\ store[m].finalizer \in BOOLEAN
  BY DEF TypeOK, Object
<1>2. CASE store'[m] = store[m]
  BY <1>2
<1>3. CASE store'[m] = [store[m] EXCEPT !.owned = TRUE]
  BY <1>1, <1>3 DEF Object
<1>4. CASE /\ store[m].exists /\ ~store[m].deleting
           /\ store'[m] = [store[m] EXCEPT !.deleting = store[m].finalizer,
                                           !.exists = store[m].finalizer]
  <2> DEFINE f == store[m].finalizer
             x == [store[m] EXCEPT !.deleting = f, !.exists = f]
  <2> HIDE DEF f
  <2>1. f \in BOOLEAN /\ f = store[m].finalizer
    BY <1>1 DEF f
  <2>2. /\ x.finalizer = store[m].finalizer /\ x.providerID = store[m].providerID
        /\ x.instanceID = store[m].instanceID /\ x.address = store[m].address
        /\ x.bootstrapped = store[m].bootstrapped
        /\ x.ready = store[m].ready /\ x.failed = store[m].failed
        /\ x.exists = f
    BY <1>1, <2>1 DEF Object
  <2>3. store'[m] = x
    BY <1>4 DEF f
  <2> HIDE DEF x
  <2> QED
    BY <1>4, <2>1, <2>2, <2>3
<1> QED
  BY <1>2, <1>3, <1>4 DEF Touched

LEMMA MiddlePc ==
    ASSUME Middle
    PROVE  w.pc \notin {"idle", "patchObject", "patchStatus"}
  BY DEF Middle, LookupFound, LookupMissed, CreateNode, CreateNodeFails,
         GetNodeNotFound, GetNodeFails, GetNodeNotRunning, GetNodeRunning,
         AddBackendGet, AddBackendPut, AddBackendFails, BootstrapWaits,
         BootstrapRuns, TagNode, TagNodeFails, EnsureControlPlaneNode,
         EnsureControlPlaneNodeFails, RemoveBackendGet, RemoveBackendPut,
         RemoveBackendFails, DeleteNode, DeleteNodeFails

-----------------------------------------------------------------------------
(***************************************************************************)
(* What was read, where the cache does not lag.                            *)
(***************************************************************************)

\* The worker, an object and the patch of it are made of objects.
LEMMA PatchTypes ==
    ASSUME TypeOK, NEW m \in Machines
    PROVE  /\ store[m] \in Object /\ cache[m] \in Object
           /\ w.base \in Object /\ w.obj \in Object
           /\ \A o \in {store[m], cache[m], w.base, w.obj} :
                 /\ o.instanceID \in NodeId \cup {None}
                 /\ o.address \in NodeId \cup {None}
                 /\ o.providerID \in NodeId \cup {None}
                 /\ o.exists \in BOOLEAN /\ o.deleting \in BOOLEAN
                 /\ o.finalizer \in BOOLEAN /\ o.bootstrapped \in BOOLEAN
                 /\ o.ready \in BOOLEAN /\ o.failed \in BOOLEAN
<1>1. /\ store[m] \in Object /\ cache[m] \in Object
      /\ w.base \in Object /\ w.obj \in Object
  BY DEF TypeOK, Worker
<1> QED
  BY <1>1 DEF Object

\* The cache takes over what is stored, or stays as it is.
LEMMA CacheSteps ==
    ASSUME TypeOK, [Next]_vars, NEW m \in Machines
    PROVE  cache'[m] = cache[m] \/ (cache'[m] = store[m] /\ store' = store)
<1>1. ASSUME NEW k \in Machines, CacheSync(k)
      PROVE  cache'[m] = cache[m] \/ (cache'[m] = store[m] /\ store' = store)
  BY <1>1 DEF CacheSync, TypeOK
<1>2. CASE Crash
  BY <1>2 DEF Crash
<1>3. CASE Middle
  BY <1>3, MiddleKeeps DEF Keeps
<1>4. CASE \E k \in Machines : Reconcile(k)
  BY <1>4, ReconcileBegins
<1>5. CASE UNCHANGED cache
  BY <1>5
<1> QED
  BY <1>1, <1>2, <1>3, <1>4, <1>5
  DEF Next, Controller, Middle, Environment, PatchObject, PatchObjectFails,
      PatchStatus, PatchStatusFails, AdoptMachine, UserDelete, DataReady,
      OwnerLost, LateCreate, KubeletRegisters, NodeStarts, NodeGetsIP, NodeLosesIP, NodeLost,
      ClusterStep, MachinesUnchanged, TogglePause, inputs, vars

\* The three ways in which a reconciliation that did not end and did not begin
\* stands after a step: in its middle, where it was, or past its first patch.
\* Only its first patch changes more of its object than an adoption or a deletion.
LEMMA StillAtWork ==
    ASSUME TypeOK, [Next]_vars, w'.pc # "idle", \A k \in Machines : ~Reconcile(k)
    PROVE  /\ w.pc # "idle" /\ w.m \in Machines
           /\ w'.m = w.m /\ w'.base = w.base
           /\ \/ Middle /\ store' = store /\ cache' = cache
              \/ w' = w /\ Touched(w.m)
              \/ /\ w.pc = "patchObject" /\ w'.pc = "patchStatus" /\ w'.obj = w.obj
                 /\ \/ store' = store
                    \/ store'[w.m] = PatchedObject(w.base, w.obj, store[w.m])
<1>1. CASE Middle
  BY <1>1, MiddleKeeps DEF Keeps, TypeOK, WorkerOK
<1>2. CASE ~Middle /\ w' = w
  <2>1. w.m \in Machines
    BY <1>2 DEF TypeOK, WorkerOK
  <2>2. ~PatchObject /\ ~PatchStatus
    BY <1>2, GotoKeeps DEF PatchObject, PatchStatus, IdleWorker
  <2> QED
    BY <1>2, <2>1, <2>2, StoreSteps DEF StoreChange
<1>3. CASE /\ PatchObject \/ PatchObjectFails
           /\ w.pc = "patchObject" /\ w'.pc = "patchStatus"
           /\ w'.m = w.m /\ w'.base = w.base /\ w'.obj = w.obj
  BY <1>3 DEF PatchObject, PatchObjectFails, Patch, TypeOK, WorkerOK
<1> QED
  BY <1>1, <1>2, <1>3, OtherSteps

LEMMA InitFresh == Init => FreshInv
  BY DEF Init, FreshInv, IdleWorker

LEMMA FreshStep ==
    ASSUME TypeOK, FreshInv, [Next]_vars, "staleCache" \notin Faults
    PROVE  FreshInv'
<1>1. CASE w'.pc = "idle"
  BY <1>1 DEF FreshInv
<1>2. ASSUME NEW m \in Machines, Reconcile(m)
      PROVE  FreshInv'
  BY <1>2, ReconcileBegins DEF FreshInv
<1>3. CASE w'.pc # "idle" /\ \A k \in Machines : ~Reconcile(k)
  <2>0. /\ w.pc # "idle" /\ w.m \in Machines /\ w'.m = w.m /\ w'.base = w.base
        /\ cache'[w.m] = cache[w.m] \/ (cache'[w.m] = store[w.m] /\ store' = store)
    BY <1>3, StillAtWork, CacheSteps
  <2>1. CASE Middle /\ store' = store /\ cache' = cache
    BY <2>0, <2>1, MiddlePc DEF FreshInv
  <2>2. CASE w' = w /\ Touched(w.m)
    BY <2>0, <2>2, StoreStatus DEF FreshInv
  <2>3. CASE /\ w.pc = "patchObject" /\ w'.pc = "patchStatus" /\ w'.obj = w.obj
             /\ store' = store
    BY <2>0, <2>3 DEF FreshInv
  <2>4. CASE /\ w.pc = "patchObject" /\ w'.pc = "patchStatus" /\ w'.obj = w.obj
             /\ store'[w.m] = PatchedObject(w.base, w.obj, store[w.m])
    <3>1. /\ store'[w.m].instanceID = store[w.m].instanceID
          /\ store'[w.m].address = store[w.m].address
          /\ store'[w.m].failed = store[w.m].failed
          /\ store'[w.m].finalizer
               = Merged(w.base.finalizer, w.obj.finalizer, store[w.m].finalizer)
      BY <2>0, <2>4, PatchTypes, PatchFields
    <3>2. store'[w.m].finalizer = w.obj.finalizer
      BY <2>0, <2>4, <3>1 DEF FreshInv, Merged
    <3> QED
      BY <2>0, <2>4, <3>1, <3>2 DEF FreshInv
  <2> QED
    BY <1>3, <2>1, <2>2, <2>3, <2>4, StillAtWork
<1> QED
  BY <1>1, <1>2, <1>3

-----------------------------------------------------------------------------
(***************************************************************************)
(* Failures and releases.                                                  *)
(***************************************************************************)

LEMMA InitFailure == Init => FailureInv
  BY DEF Init, FailureInv, NewObject

LEMMA InitRecord == Init => RecordInv
<1> SUFFICES ASSUME Init, NEW m \in Machines
             PROVE  /\ owner[m].exists
                    /\ ~store[m].finalizer
                    /\ store[m].instanceID = None
  BY DEF RecordInv
<1>1. store[m] = NewObject /\ owner[m].exists
  BY DEF Init
<1> QED
  BY <1>1 DEF NewObject

\* A terminal failure is recorded by the reconciliation that saw the node gone,
\* under the ID that was recorded then and stays so.
LEMMA FailureStep ==
    ASSUME TypeOK, OwnershipInv, PatchInv, FreshInv, FailureInv, [Next]_vars
    PROVE  FailureInv'
<1> SUFFICES ASSUME NEW m \in Machines
             PROVE  store'[m].failed
                       => /\ store'[m].instanceID # None
                          /\ nodes'[store'[m].instanceID].status = "deleted"
  BY DEF FailureInv
<1>0. /\ NodesAge /\ StoreChange(m)
      /\ store[m] \in Object /\ w.base \in Object /\ w.obj \in Object
      /\ store[m].instanceID \in NodeId \cup {None}
  BY NodesOnlyAge, StoreSteps, PatchTypes
<1>1. CASE /\ PatchObject /\ w.m = m /\ store[m].exists
           /\ store'[m] = PatchedObject(w.base, w.obj, store[m])
  <2>1. /\ store'[m].instanceID = store[m].instanceID
        /\ store'[m].failed = store[m].failed
    BY <1>0, <1>1, PatchFields
  <2> QED
    BY <1>0, <2>1 DEF FailureInv, NodesAge
<1>2. CASE /\ PatchStatus /\ w.m = m /\ store[m].exists
           /\ store'[m] = PatchedStatus(w.base, w.obj, store[m])
  <2>1. /\ w.pc = "patchStatus"
        /\ w.base.instanceID = store[m].instanceID
        /\ w.base.failed = store[m].failed
    BY <1>2 DEF PatchStatus, FreshInv
  <2>2. /\ store'[m].instanceID
             = Merged(w.base.instanceID, w.obj.instanceID, store[m].instanceID)
        /\ store'[m].failed = Merged(w.base.failed, w.obj.failed, store[m].failed)
    <3>1. store'[m] = PatchedStatus(w.base, w.obj, store[m])
      BY <1>2
    <3> QED
      BY <1>0, <3>1, PatchFields
  <2>3. store'[m].instanceID = w.obj.instanceID /\ store'[m].failed = w.obj.failed
    BY <2>1, <2>2 DEF Merged
  <2>4. w.obj.failed => w.base.instanceID # None /\ w.obj.instanceID = w.base.instanceID
    BY <2>1 DEF PatchInv, FailureInv
  <2> QED
    BY <1>0, <2>1, <2>3, <2>4 DEF PatchInv, FailureInv, NodesAge
<1>3. CASE Touched(m)
  BY <1>0, <1>3, StoreStatus DEF FailureInv, NodesAge
<1> QED
  BY <1>0, <1>1, <1>2, <1>3 DEF StoreChange

\* The part of RecordInv that is about the object of machine m.
Recorded(m) ==
    /\ store[m].finalizer => store[m].exists
    /\ store[m].instanceID # None /\ ~store[m].finalizer
          => nodes[store[m].instanceID].status = "deleted"

LEMMA RecordedStep ==
    ASSUME TypeOK, PatchInv, FreshInv, RecordInv, NodesAge,
           NEW m \in Machines, StoreChange(m)
    PROVE  Recorded(m)'
<1>0. /\ store[m] \in Object /\ w.base \in Object /\ w.obj \in Object
      /\ Recorded(m) /\ owner[m].exists
      /\ store[m].instanceID \in NodeId \cup {None}
      /\ store[m].finalizer \in BOOLEAN /\ w.base.finalizer \in BOOLEAN
      /\ w.obj.finalizer \in BOOLEAN
  BY PatchTypes DEF RecordInv, Recorded
<1>1. CASE /\ PatchObject /\ w.m = m /\ store[m].exists
           /\ store'[m] = PatchedObject(w.base, w.obj, store[m])
  <2>1. /\ w.pc = "patchObject"
        /\ w.base.instanceID = store[m].instanceID
        /\ w.base.finalizer = store[m].finalizer
    BY <1>1 DEF PatchObject, FreshInv
  <2>2. /\ store'[m].instanceID = store[m].instanceID
        /\ store'[m].finalizer
             = Merged(w.base.finalizer, w.obj.finalizer, store[m].finalizer)
        /\ store'[m].exists
             = (~store[m].deleting
                  \/ Merged(w.base.finalizer, w.obj.finalizer, store[m].finalizer))
    BY <1>0, <1>1, PatchFields
  <2>3. /\ store'[m].finalizer = w.obj.finalizer
        /\ store'[m].finalizer => store'[m].exists
    BY <2>1, <2>2 DEF Merged
  <2>4. ~w.obj.finalizer /\ store[m].instanceID # None
          => nodes[store[m].instanceID].status = "deleted"
    <3>1. CASE w.base.finalizer
      BY <1>0, <1>1, <2>1, <3>1 DEF PatchInv
    <3>2. CASE ~w.base.finalizer
      BY <1>0, <2>1, <3>2 DEF Recorded
    <3> QED
      BY <3>1, <3>2
  <2> QED
    BY <1>0, <2>2, <2>3, <2>4 DEF Recorded, NodesAge
<1>2. CASE /\ PatchStatus /\ w.m = m /\ store[m].exists
           /\ store'[m] = PatchedStatus(w.base, w.obj, store[m])
  <2>1. /\ w.pc = "patchStatus"
        /\ w.base.instanceID = store[m].instanceID
        /\ store[m].finalizer \in {w.base.finalizer, w.obj.finalizer}
    BY <1>2 DEF PatchStatus, FreshInv
  <2>2. /\ store'[m].instanceID
             = Merged(w.base.instanceID, w.obj.instanceID, store[m].instanceID)
        /\ store'[m].finalizer = store[m].finalizer
        /\ store'[m].exists = store[m].exists
    <3>1. store'[m] = PatchedStatus(w.base, w.obj, store[m])
      BY <1>2
    <3> QED
      BY <1>0, <3>1, PatchFields
  <2>3. store'[m].instanceID = w.obj.instanceID
    BY <2>1, <2>2 DEF Merged
  <2>4. CASE w.obj.instanceID = w.base.instanceID
    BY <1>0, <2>1, <2>2, <2>3, <2>4 DEF Recorded, NodesAge
  <2>5. CASE w.obj.instanceID # w.base.instanceID
    BY <1>2, <2>1, <2>2, <2>5 DEF PatchInv, Recorded
  <2> QED
    BY <2>4, <2>5
<1>3. CASE Touched(m)
  <2>1. /\ store'[m].finalizer = store[m].finalizer
        /\ store'[m].instanceID = store[m].instanceID
        /\ store'[m].exists \in {store[m].exists, store[m].finalizer}
    BY <1>3, StoreStatus
  <2> QED
    BY <1>0, <2>1 DEF Recorded, NodesAge
<1> QED
  BY <1>1, <1>2, <1>3 DEF StoreChange

LEMMA RecordStep ==
    ASSUME TypeOK, OwnershipInv, PatchInv, FreshInv, RecordInv, [Next]_vars,
           "ownerGone" \notin Faults
    PROVE  RecordInv'
<1>1. \A m \in Machines : Recorded(m)'
  BY NodesOnlyAge, StoreSteps, RecordedStep
<1>2. \A m \in Machines : owner'[m].exists = owner[m].exists
  BY OwnersOnlyGo, MiddleKeeps, ReconcileBegins DEF Keeps
<1> QED
  BY <1>1, <1>2 DEF RecordInv, Recorded

\* The invariants that need nothing of the faults.
LEMMA PatchInductive == Spec => [](TypeOK /\ OwnershipInv /\ FinalizerInv /\ PatchInv)
<1>1. TypeOK /\ OwnershipInv /\ PatchInv /\ [Next]_vars => PatchInv'
  BY PatchStep
<1> QED
  BY TypeCorrect, NamesAreGivenOnce, FinalizerOutlivesTheCache, InitPatch, <1>1, PTL
  DEF Spec

\* Where the cache does not lag, what a reconciliation read of the status and the
\* finalizer of its object is what the API server holds until it writes.
THEOREM ReadsStayTrue ==
    ASSUME "staleCache" \notin Faults
    PROVE  Spec => []FreshInv
<1>1. TypeOK /\ FreshInv /\ [Next]_vars => FreshInv'
  BY FreshStep
<1> QED
  BY TypeCorrect, InitFresh, <1>1, PTL DEF Spec

\* A terminal failure is recorded only for a node that is gone, whatever crashes,
\* lost replies and refused writes there are, as long as the cache does not lag.
THEOREM FailuresAreReal ==
    ASSUME "staleCache" \notin Faults
    PROVE  Spec => []FailureIsReal
<1>1. TypeOK /\ OwnershipInv /\ PatchInv /\ FreshInv /\ FailureInv /\ [Next]_vars
        => FailureInv'
  BY FailureStep
<1>2. FailureInv => FailureIsReal
  BY DEF FailureInv, FailureIsReal
<1> QED
  BY PatchInductive, ReadsStayTrue, InitFailure, <1>1, <1>2, PTL DEF Spec

LEMMA RecordInductive ==
    ASSUME "staleCache" \notin Faults, "ownerGone" \notin Faults
    PROVE  Spec => []RecordInv
<1>1. TypeOK /\ OwnershipInv /\ PatchInv /\ FreshInv /\ RecordInv /\ [Next]_vars
        => RecordInv'
  BY RecordStep
<1> QED
  BY PatchInductive, ReadsStayTrue, InitRecord, <1>1, PTL DEF Spec

\* An object that recorded its node goes only after that node is deleted, under
\* the same faults but for the loss of its owner.
THEOREM ReleasesItsNode ==
    ASSUME "staleCache" \notin Faults, "ownerGone" \notin Faults
    PROVE  Spec => []RecordedVMDeleted
<1>1. RecordInv => RecordedVMDeleted
  BY DEF RecordInv, RecordedVMDeleted
<1> QED
  BY RecordInductive, <1>1, PTL

-----------------------------------------------------------------------------
(***************************************************************************)
(* Which nodes a machine has.                                              *)
(***************************************************************************)

\* A reconciliation comes by an ID only by finding a live node or by making one.
LEMMA MiddleInstance ==
    ASSUME TypeOK, Middle
    PROVE  \/ w'.obj.instanceID = w.obj.instanceID
           \/ w.pc = "lookup" /\ w'.obj.instanceID \in Live(w.m)
           \/ w.pc = "create" /\ CreateNode
<1>0. w.obj \in Object
  BY DEF TypeOK, Worker
<1>1. CASE LookupFound
  <2>1. PICK n \in Live(w.m) : Return([w.obj EXCEPT !.instanceID = n])
    BY <1>1 DEF LookupFound
  <2>2. /\ [w.obj EXCEPT !.instanceID = n] \in Object
        /\ [w.obj EXCEPT !.instanceID = n].instanceID = n
    BY <1>0 DEF Live, Object
  <2> QED
    BY <1>1, <2>1, <2>2, ReturnKeeps DEF LookupFound
<1>2. CASE LookupMissed
  BY <1>2, GotoKeeps DEF LookupMissed
<1>3. CASE CreateNodeFails
  BY <1>0, <1>3, ReturnKeeps DEF CreateNodeFails
<1>4. CASE CreateNode
  BY <1>4 DEF CreateNode
<1>5. CASE ~LookupFound /\ ~LookupMissed /\ ~CreateNodeFails /\ ~CreateNode
  <2>1. w.pc \notin {"lookup", "create"}
    BY <1>5
    DEF Middle, GetNodeNotFound, GetNodeFails, GetNodeNotRunning,
        GetNodeRunning, AddBackendGet, AddBackendPut, AddBackendFails,
        BootstrapWaits, BootstrapRuns, TagNode, TagNodeFails,
        EnsureControlPlaneNode, EnsureControlPlaneNodeFails,
        RemoveBackendGet, RemoveBackendPut, RemoveBackendFails,
        DeleteNode, DeleteNodeFails
  <2> QED
    BY <2>1, MiddleKeeps DEF Keeps
<1> QED
  BY <1>1, <1>2, <1>3, <1>4, <1>5

\* A create request makes one node, under an ID that nobody recorded.
LEMMA CreatedNode ==
    ASSUME TypeOK, OwnershipInv, CreateNode
    PROVE  \E n \in NodeId :
              /\ w.pc = "create" /\ w.m \in Machines
              /\ w'.pc = "patchObject" /\ w'.m = w.m /\ w'.base = w.base
              /\ nodes[n].name = None
              /\ \A m \in Machines : Live(m)' \subseteq Live(m) \cup {n}
              /\ \A m \in Machines \ {w.m} : Live(m)' \subseteq Live(m)
              /\ \/ w'.obj.instanceID = n
                 \/ "lostReply" \in Faults /\ w'.obj.instanceID = w.obj.instanceID
<1>0. w.pc = "create" /\ w.m \in Machines /\ w.obj \in Object
  BY DEF CreateNode, TypeOK, WorkerOK, Worker
<1>1. PICK n \in NodeId :
         /\ Provision(w.m, n)
         /\ \/ Return([w.obj EXCEPT !.instanceID = n])
            \/ "lostReply" \in Faults /\ Return(w.obj)
  BY DEF CreateNode
<1>2. /\ nodes[n].name = None /\ nodes'[n].name = w.m
      /\ \A k \in NodeId : k # n => nodes'[k] = nodes[k]
  BY <1>0, <1>1, ProvisionNames DEF Provision, TypeOK, OwnershipInv, NamesOK
<1>3. /\ \A m \in Machines : Live(m)' \subseteq Live(m) \cup {n}
      /\ \A m \in Machines \ {w.m} : Live(m)' \subseteq Live(m)
  BY <1>2 DEF Live
<1>4. /\ [w.obj EXCEPT !.instanceID = n] \in Object
      /\ [w.obj EXCEPT !.instanceID = n].instanceID = n
  BY <1>0 DEF Object
<1> QED
  BY <1>0, <1>1, <1>2, <1>3, <1>4, ReturnKeeps

LEMMA InitOrphan == Init => OrphanInv
  BY DEF Init, OrphanInv, Live

\* As long as a machine has a node, its object is there: the finalizer goes only
\* after the recorded node, and an ID is added only under the finalizer.
LEMMA LiveIsKept ==
    ASSUME TypeOK, PatchInv, FreshInv, RecordInv, OrphanInv,
           NEW m \in Machines, Live(m) # {}
    PROVE  store[m].exists
<1>1. PICK n \in Live(m) : TRUE
  OBVIOUS
<1>2. n # None /\ nodes[n].status # "deleted"
  BY ConstantAssumption DEF Live
<1>3. CASE n = store[m].instanceID
  BY <1>2, <1>3 DEF RecordInv
<1>4. CASE n # store[m].instanceID
  <2>1. w.pc # "idle" /\ w.m = m /\ n = w.obj.instanceID
    BY <1>4 DEF OrphanInv
  <2>2. w.base.finalizer /\ w.obj.finalizer
    BY <1>4, <2>1 DEF PatchInv, FreshInv
  <2> QED
    BY <2>1, <2>2 DEF FreshInv, RecordInv
<1> QED
  BY <1>3, <1>4

\* Where a node that was made is always recorded: the lookup and the create
\* request hand the ID to the worker, which writes it to the object.
LEMMA OrphanStep ==
    ASSUME TypeOK, OwnershipInv, PatchInv, FreshInv, RecordInv, OrphanInv, [Next]_vars,
           "crash" \notin Faults, "patchError" \notin Faults,
           "lostReply" \notin Faults, "lateCreate" \notin Faults
    PROVE  OrphanInv'
<1>0. late' = {}
  BY NoneLate DEF OrphanInv
<1> SUFFICES ASSUME NEW m \in Machines, NEW n \in Live(m)'
             PROVE  \/ n = store'[m].instanceID
                    \/ w'.pc # "idle" /\ w'.m = m /\ n = w'.obj.instanceID
  BY <1>0 DEF OrphanInv
<1>1. CASE CreateNode
  <2>1. PICK k \in NodeId :
           /\ w.pc = "create" /\ w'.pc = "patchObject" /\ w'.m = w.m
           /\ Live(m)' \subseteq Live(m) \cup {k}
           /\ m # w.m => Live(m)' \subseteq Live(m)
           /\ w'.obj.instanceID = k
    BY <1>1, CreatedNode
  <2>2. w.obj.instanceID = None /\ store' = store
    BY <1>1, <2>1 DEF PatchInv, CreateNode
  <2>3. n # None
    BY ConstantAssumption DEF Live
  <2> QED
    BY <2>1, <2>2, <2>3 DEF OrphanInv
<1>2. CASE ~CreateNode
  <2>0. /\ n \in Live(m) /\ n # None
        /\ \/ n = store[m].instanceID
           \/ w.pc # "idle" /\ w.m = m /\ n = w.obj.instanceID
    <3>1. n \in Live(m)
      BY <1>2, LiveShrinks DEF OrphanInv
    <3> QED
      BY <3>1, ConstantAssumption DEF OrphanInv, Live
  <2>1. CASE w'.pc # "idle" /\ \A k \in Machines : ~Reconcile(k)
    <3>1. /\ w.pc # "idle" /\ w.m \in Machines /\ w'.m = w.m
          /\ store[m] \in Object /\ w.base \in Object /\ w.obj \in Object
      BY <2>1, StillAtWork, PatchTypes
    <3>2. store'[m].instanceID = store[m].instanceID
      <4>1. CASE Touched(m)
        BY <4>1, StoreStatus
      <4>2. CASE /\ PatchObject /\ w.m = m
                 /\ store'[m] = PatchedObject(w.base, w.obj, store[m])
        BY <3>1, <4>2, PatchFields
      <4>3. ~PatchStatus
        BY <2>1 DEF PatchStatus, IdleWorker
      <4> QED
        BY <4>1, <4>2, <4>3, StoreSteps DEF StoreChange
    <3>3. CASE w'.obj.instanceID = w.obj.instanceID
      BY <2>0, <2>1, <3>1, <3>2, <3>3
    <3>4. CASE Middle /\ w'.obj.instanceID # w.obj.instanceID
      <4>1. w.pc = "lookup"
        BY <1>2, <3>4, MiddleInstance
      <4>2. w.obj.instanceID = None
        BY <4>1 DEF PatchInv
      <4> QED
        BY <2>0, <3>2, <4>2
    <3> QED
      BY <2>1, <3>3, <3>4, StillAtWork
  <2>2. ASSUME NEW k \in Machines, Reconcile(k)
        PROVE  n = store'[m].instanceID
    BY <2>0, <2>2, ReconcileBegins
  <2>3. CASE PatchStatus
    <3>1. w.pc = "patchStatus" /\ w.m \in Machines /\ store[w.m] \in Object
      BY <2>3 DEF PatchStatus, TypeOK, WorkerOK
    <3>2. CASE w.m = m
      <4>1. store[m].exists
        BY <2>0, LiveIsKept
      <4>2. store'[m] = PatchedStatus(w.base, w.obj, store[m])
        BY <2>3, <3>1, <3>2, <4>1 DEF PatchStatus, Patch, TypeOK
      <4>3. store'[m].instanceID
              = Merged(w.base.instanceID, w.obj.instanceID, store[m].instanceID)
        BY <4>2, PatchTypes, PatchFields
      <4>4. store'[m].instanceID = w.obj.instanceID
        BY <3>1, <3>2, <4>3 DEF FreshInv, Merged
      <4> QED
        BY <2>0, <3>1, <3>2, <4>4 DEF FreshInv, PatchInv
    <3>3. CASE w.m # m
      BY <2>0, <2>3, <3>1, <3>3 DEF PatchStatus, Patch, TypeOK
    <3> QED
      BY <3>2, <3>3
  <2>4. CASE w'.pc = "idle" /\ ~PatchStatus
    <3>1. w.pc = "idle"
      <4>1. ~Middle /\ \A k \in Machines : ~Reconcile(k)
        BY <2>4, MiddleKeeps, ReconcileBegins DEF Keeps
      <4>2. ~PatchObject /\ ~PatchObjectFails
        BY <2>4, GotoKeeps DEF PatchObject, PatchObjectFails
      <4>3. w' = w
        BY <2>4, <4>1, <4>2
        DEF Next, Controller, Middle, Environment, PatchStatusFails, CacheSync, Crash,
            AdoptMachine, UserDelete, DataReady, OwnerLost, LateCreate,
            KubeletRegisters, NodeStarts, NodeGetsIP, NodeLosesIP, NodeLost, ClusterStep,
            MachinesUnchanged, TogglePause, vars
      <4> QED
        BY <2>4, <4>3
    <3>2. Touched(m)
      BY <2>4, <3>1, StoreSteps DEF StoreChange, PatchObject
    <3> QED
      BY <2>0, <3>1, <3>2, StoreStatus
  <2> QED
    BY <2>1, <2>2, <2>3, <2>4
<1> QED
  BY <1>1, <1>2

\* When an object goes, no compute node made for it is left, recorded or not, if
\* no node is lost sight of between its creation and the write of its ID.  Each of
\* the six faults leaves a node behind, as TLC finds out on one machine.
THEOREM LeavesNoNode ==
    ASSUME "staleCache" \notin Faults, "crash" \notin Faults,
           "patchError" \notin Faults, "lostReply" \notin Faults,
           "lateCreate" \notin Faults, "ownerGone" \notin Faults
    PROVE  Spec => []NoOrphanVM
<1>1. TypeOK /\ OwnershipInv /\ PatchInv /\ FreshInv /\ RecordInv /\ OrphanInv
        /\ [Next]_vars => OrphanInv'
  BY OrphanStep
<1>2. TypeOK /\ PatchInv /\ FreshInv /\ RecordInv /\ OrphanInv => NoOrphanVM
  BY LiveIsKept DEF NoOrphanVM
<1> QED
  BY PatchInductive, ReadsStayTrue, RecordInductive, InitOrphan, <1>1, <1>2, PTL
  DEF Spec

-----------------------------------------------------------------------------
(***************************************************************************)
(* The ID that a reconciliation works with.                                *)
(***************************************************************************)

LEMMA InitCurrent == Init => CurrentInv
  BY DEF Init, CurrentInv, LiveIsCurrent, Live, IdleWorker

\* Where the cache does not lag, every ID that was read is the recorded one.
LEMMA FreshIsCurrent == FreshInv => LiveIsCurrent
  BY DEF FreshInv, LiveIsCurrent

\* A status patch changes the recorded ID only by adding one that was not there
\* when the reconciliation began.
LEMMA PatchedInstance ==
    ASSUME TypeOK, PatchInv, NEW m \in Machines, PatchStatus, w.m = m,
           store'[m] = PatchedStatus(w.base, w.obj, store[m])
    PROVE  \/ store'[m].instanceID = store[m].instanceID
           \/ /\ w.base.instanceID = None
              /\ w.obj.instanceID # None
              /\ store'[m].instanceID = w.obj.instanceID
<1>1. store'[m].instanceID
        = Merged(w.base.instanceID, w.obj.instanceID, store[m].instanceID)
  BY PatchTypes, PatchFields
<1>2. w.base.instanceID # None => w.obj.instanceID = w.base.instanceID
  BY DEF PatchInv, PatchStatus
<1> QED
  BY <1>1, <1>2 DEF Merged

\* Where the cache lags, but a machine has one node at a time.
LEMMA CurrentStep ==
    ASSUME TypeOK, OwnershipInv, OneNodeInv, PatchInv, CurrentInv, [Next]_vars
    PROVE  CurrentInv'
<1>1. CASE CreateNode
  <2>1. PICK n \in NodeId :
           /\ w.pc = "create" /\ w.m \in Machines
           /\ w'.m = w.m /\ w'.base = w.base
           /\ nodes[n].name = None
           /\ \A m \in Machines : Live(m)' \subseteq Live(m) \cup {n}
           /\ \A m \in Machines \ {w.m} : Live(m)' \subseteq Live(m)
           /\ w'.obj.instanceID \in {n, w.obj.instanceID}
    BY <1>1, CreatedNode
  <2>2. /\ store' = store /\ cache' = cache
        /\ w.base.instanceID = None /\ w.obj.instanceID = None
        /\ Live(w.m) = {}
    BY <1>1, <2>1 DEF CreateNode, inputs, PatchInv, OneNodeInv
  <2>3. LiveIsCurrent'
    BY <2>1, <2>2, ConstantAssumption DEF LiveIsCurrent, Live
  <2>4. ASSUME NEW m \in Machines, cache[m].instanceID \in Live(m)'
        PROVE  store[m].instanceID = cache[m].instanceID
    <3>1. cache[m].instanceID # None /\ m # None
      BY <2>4, ConstantAssumption DEF Live
    <3>2. nodes[cache[m].instanceID].name = m
      BY <3>1 DEF OwnershipInv, InstanceIsOwn
    <3>3. cache[m].instanceID \in Live(m)
      BY <2>1, <2>4, <3>1, <3>2
    <3> QED
      BY <3>3 DEF CurrentInv
  <2> QED
    BY <2>1, <2>2, <2>3, <2>4 DEF CurrentInv
<1>2. CASE ~CreateNode
  <2>0. \A m \in Machines : Live(m)' \subseteq Live(m)
    BY <1>2, LiveShrinks DEF OneNodeInv
  <2>1. ASSUME NEW m \in Machines, cache'[m].instanceID \in Live(m)'
        PROVE  store'[m].instanceID = cache'[m].instanceID
    <3>1. CASE cache'[m] = store[m] /\ store' = store
      BY <3>1
    <3>2. CASE cache'[m] = cache[m]
      <4>1. cache[m].instanceID \in Live(m) /\ store[m].instanceID = cache[m].instanceID
        BY <2>0, <2>1, <3>2 DEF CurrentInv
      <4>2. store'[m].instanceID = store[m].instanceID
        <5>1. CASE Touched(m)
          BY <5>1, StoreStatus
        <5>2. CASE /\ PatchObject /\ w.m = m
                   /\ store'[m] = PatchedObject(w.base, w.obj, store[m])
          BY <5>2, PatchTypes, PatchFields
        <5>3. CASE /\ PatchStatus /\ w.m = m
                   /\ store'[m] = PatchedStatus(w.base, w.obj, store[m])
          <6>1. w.base.instanceID = None /\ w.obj.instanceID # None
                  => w.obj.instanceID = store[m].instanceID
            BY <4>1, <5>3 DEF CurrentInv, PatchStatus
          <6> QED
            BY <5>3, <6>1, PatchedInstance
        <5> QED
          BY <5>1, <5>2, <5>3, StoreSteps DEF StoreChange
      <4> QED
        BY <3>2, <4>1, <4>2
    <3> QED
      BY <3>1, <3>2, CacheSteps
  <2>2. ASSUME NEW m \in Machines, w'.pc # "idle", w'.m = m
        PROVE  /\ w'.base.instanceID \in Live(m)'
                    => /\ store'[m].instanceID = w'.base.instanceID
                       /\ cache'[m].instanceID = w'.base.instanceID
               /\ w'.base.instanceID = None /\ w'.obj.instanceID # None
                    => Live(m)' \subseteq {w'.obj.instanceID}
    <3>1. CASE Reconcile(m)
      <4>1. /\ w'.base = cache[m] /\ store' = store /\ cache' = cache
            /\ w'.obj.instanceID = cache[m].instanceID
        BY <3>1, ReconcileBegins
      <4> QED
        BY <2>0, <4>1 DEF CurrentInv
    <3>2. CASE \E k \in Machines : Reconcile(k) /\ k # m
      BY <2>2, <3>2, ReconcileBegins
    <3>3. CASE \A k \in Machines : ~Reconcile(k)
      <4>1. /\ w.pc # "idle" /\ w.m = m /\ w'.base = w.base
            /\ Live(m)' \subseteq Live(m)
            /\ \/ cache'[m] = cache[m]
               \/ cache'[m] = store[m] /\ store' = store
        BY <2>0, <2>2, <3>3, StillAtWork, CacheSteps
      <4>2. store'[m].instanceID = store[m].instanceID
        BY <2>2, <3>3, <4>1, StillAtWork, StoreStatus, PatchTypes, PatchFields
      <4>3. w.base.instanceID \in Live(m)'
              => /\ store'[m].instanceID = w.base.instanceID
                 /\ cache'[m].instanceID = w.base.instanceID
        BY <4>1, <4>2 DEF CurrentInv, LiveIsCurrent
      <4>4. \/ w'.obj.instanceID = w.obj.instanceID
            \/ w'.obj.instanceID \in Live(m)
        BY <1>2, <2>2, <3>3, <4>1, StillAtWork, MiddleInstance
      <4>5. w.base.instanceID = None /\ w'.obj.instanceID # None
              => Live(m)' \subseteq {w'.obj.instanceID}
        <5>1. CASE w'.obj.instanceID = w.obj.instanceID
          BY <4>1, <5>1 DEF CurrentInv
        <5>2. CASE w'.obj.instanceID \in Live(m)
          BY <4>1, <5>2 DEF OneNodeInv, NoDuplicateVM
        <5> QED
          BY <4>4, <5>1, <5>2
      <4> QED
        BY <4>1, <4>3, <4>5
    <3> QED
      BY <3>1, <3>2, <3>3
  <2>3. w'.pc # "idle" => w'.m \in Machines
    BY ReconcileBegins, StillAtWork
  <2>4. LiveIsCurrent'
    BY <2>2, <2>3 DEF LiveIsCurrent, Live
  <2>5. (w.pc # "idle" /\ w.base.instanceID = None /\ w.obj.instanceID # None
           => Live(w.m) \subseteq {w.obj.instanceID})'
    BY <2>2, <2>3 DEF Live
  <2> QED
    BY <2>1, <2>4, <2>5 DEF CurrentInv
<1> QED
  BY <1>1, <1>2

\* The ID of a live node that a reconciliation works with is the recorded one:
\* because the cache does not lag, or because a machine has one node at a time.
THEOREM WorksOnTheRecordedNode ==
    ASSUME \/ "staleCache" \notin Faults
           \/ "listError" \notin Faults /\ "lateCreate" \notin Faults
    PROVE  Spec => []LiveIsCurrent
<1>1. CASE "staleCache" \notin Faults
  BY <1>1, ReadsStayTrue, FreshIsCurrent, PTL
<1>2. CASE "listError" \notin Faults /\ "lateCreate" \notin Faults
  <2>1. TypeOK /\ OwnershipInv /\ OneNodeInv /\ PatchInv /\ CurrentInv /\ [Next]_vars
          => CurrentInv'
    BY CurrentStep
  <2>2. Spec => []OneNodeInv
    BY <1>2, CreatesOnlyTheFirst
  <2>3. CurrentInv => LiveIsCurrent
    BY DEF CurrentInv
  <2> QED
    BY PatchInductive, InitCurrent, <2>1, <2>2, <2>3, PTL DEF Spec
<1> QED
  BY <1>1, <1>2

-----------------------------------------------------------------------------
(***************************************************************************)
(* Readiness.                                                              *)
(***************************************************************************)

LEMMA InitSettled == Init => SettledInv
<1> SUFFICES ASSUME Init PROVE SettledInv
  OBVIOUS
<1>1. /\ w.pc = "idle"
      /\ \A m \in Machines : store[m] = NewObject /\ cache[m] = NewObject
  BY DEF Init, IdleWorker
<1> QED
  BY <1>1 DEF SettledInv, Settled, NewObject

LEMMA InitReady == Init => ReadyInv
<1> SUFFICES ASSUME Init PROVE ReadyInv
  OBVIOUS
<1>1. /\ w.pc = "idle"
      /\ \A m \in Machines : store[m] = NewObject /\ cache[m] = NewObject
  BY DEF Init, IdleWorker
<1> QED
  BY <1>1, InitSettled DEF ReadyInv, NewObject

\* A step in the middle leaves alone what settles a machine, finds the object
\* bootstrapped already, or is part of the bootstrap.
LEMMA MiddleStatus ==
    ASSUME TypeOK, Middle
    PROVE  \/ /\ w'.obj.bootstrapped = w.obj.bootstrapped
              /\ w'.obj.providerID = w.obj.providerID
              /\ w'.pc # "tagNode"
           \/ /\ w.pc \in {"getNode", "addGet", "addPut"}
              /\ w.obj.bootstrapped
           \/ BootstrapRuns
           \/ w.pc = "tagNode"
<1>0. w \in Worker /\ w.obj \in Object
  BY DEF TypeOK, Worker
<1>1. ASSUME NEW o \in Object, Return(o),
             o.bootstrapped = w.obj.bootstrapped, o.providerID = w.obj.providerID
      PROVE  /\ w'.obj.bootstrapped = w.obj.bootstrapped
             /\ w'.obj.providerID = w.obj.providerID
             /\ w'.pc # "tagNode"
  BY <1>1, ReturnKeeps
<1>2. ASSUME NEW o \in Object, ToBootstrap(o), ~o.bootstrapped,
             o.bootstrapped = w.obj.bootstrapped, o.providerID = w.obj.providerID
      PROVE  /\ w'.obj.bootstrapped = w.obj.bootstrapped
             /\ w'.obj.providerID = w.obj.providerID
             /\ w'.pc # "tagNode"
  BY <1>0, <1>2 DEF ToBootstrap, Worker
<1>3. CASE GetNodeNotRunning \/ GetNodeRunning
  <2> DEFINE o == WithAddress(w.obj)
  <2>0. w.pc = "getNode" /\ w.obj.instanceID # None
    BY <1>3 DEF GetNodeNotRunning, GetNodeRunning, TypeOK, WorkerOK
  <2>1. o \in Object
    BY <1>0, <2>0, WithAddressType
  <2>2. o.bootstrapped = w.obj.bootstrapped /\ o.providerID = w.obj.providerID
    BY <1>0 DEF WithAddress, Object
  <2>3. \/ Return(o)
        \/ ToBootstrap(o)
        \/ w' = [w EXCEPT !.pc = "addGet", !.obj = o]
    BY <1>3 DEF GetNodeNotRunning, GetNodeRunning
  <2> HIDE DEF o
  <2>4. CASE w' = [w EXCEPT !.pc = "addGet", !.obj = o]
    BY <1>0, <2>2, <2>4 DEF Worker
  <2> QED
    BY <1>1, <1>2, <2>0, <2>1, <2>2, <2>3, <2>4
<1>4. CASE AddBackendGet \/ AddBackendPut \/ RemoveBackendGet
  <2>1. \/ Return(w.obj)
        \/ ToBootstrap(w.obj) /\ w.pc \in {"addGet", "addPut"}
        \/ w' = [w EXCEPT !.pc = "addPut", !.snap = servers[w.lb]]
        \/ w' = [w EXCEPT !.pc = "removePut", !.snap = servers[w.lb]]
    BY <1>4 DEF AddBackendGet, AddBackendPut, RemoveBackendGet
  <2> QED
    BY <1>0, <1>1, <1>2, <2>1 DEF Worker
<1>5. CASE LookupFound \/ CreateNode
  <2>1. PICK n \in NodeId :
           Return([w.obj EXCEPT !.instanceID = n]) \/ Return(w.obj)
    BY <1>5 DEF LookupFound, CreateNode, Live
  <2>2. LET o == [w.obj EXCEPT !.instanceID = n]
        IN  /\ o \in Object
            /\ o.bootstrapped = w.obj.bootstrapped /\ o.providerID = w.obj.providerID
    BY <1>0 DEF Object
  <2> QED
    BY <1>0, <1>1, <2>1, <2>2
<1>6. CASE GetNodeNotFound \/ DeleteNode
  <2>1. \/ Return([w.obj EXCEPT !.failed = TRUE])
        \/ Return([w.obj EXCEPT !.finalizer = FALSE])
        \/ Return(w.obj)
    BY <1>6 DEF GetNodeNotFound, DeleteNode
  <2>2. \A o \in {[w.obj EXCEPT !.failed = TRUE], [w.obj EXCEPT !.finalizer = FALSE]} :
           /\ o \in Object
           /\ o.bootstrapped = w.obj.bootstrapped /\ o.providerID = w.obj.providerID
    BY <1>0 DEF Object
  <2> QED
    BY <1>0, <1>1, <2>1, <2>2
<1>7. CASE \/ CreateNodeFails \/ GetNodeFails \/ AddBackendFails
           \/ BootstrapWaits \/ EnsureControlPlaneNode
           \/ EnsureControlPlaneNodeFails \/ DeleteNodeFails
  <2>1. Return(w.obj)
    BY <1>7
    DEF CreateNodeFails, GetNodeFails, AddBackendFails, BootstrapWaits,
        EnsureControlPlaneNode, EnsureControlPlaneNodeFails, DeleteNodeFails
  <2> QED
    BY <1>0, <1>1, <2>1
<1>8. CASE LookupMissed \/ RemoveBackendPut \/ RemoveBackendFails
  BY <1>8, GotoKeeps DEF LookupMissed, RemoveBackendPut, RemoveBackendFails
<1>9. CASE TagNode \/ TagNodeFails
  BY <1>9 DEF TagNode, TagNodeFails
<1> QED
  BY <1>3, <1>4, <1>5, <1>6, <1>7, <1>8, <1>9 DEF Middle

\* What settles the machine of a reconciliation is written with the ID that was
\* read: a bootstrap runs on a live node, so that this ID is the recorded one.
LEMMA MiddleSettles ==
    ASSUME TypeOK, OwnershipInv, PatchInv, LiveIsCurrent, SettledInv, Middle
    PROVE  Settled(w.m) \/ Settling'
             => /\ store[w.m].instanceID = w.base.instanceID
                /\ cache[w.m].instanceID = w.base.instanceID
<1>0. w.pc # "idle" /\ w'.base = w.base /\ w.m \in Machines
  BY MiddleKeeps DEF Keeps, TypeOK, WorkerOK
<1>1. CASE Settled(w.m) \/ Settling
  BY <1>0, <1>1 DEF SettledInv
<1>2. CASE BootstrapRuns
  <2>1. /\ w.base.instanceID # None /\ w.obj.instanceID = w.base.instanceID
        /\ nodes[w.obj.instanceID].status = "Running" /\ w.pc = "bootstrap"
    BY <1>2 DEF BootstrapRuns, PatchInv
  <2>2. w.base.instanceID \in Live(w.m)
    BY <2>1, OwnedNode DEF Live
  <2> QED
    BY <1>0, <2>2 DEF LiveIsCurrent
<1>3. CASE ~Settled(w.m) /\ ~Settling /\ ~BootstrapRuns
  <2>1. /\ w.pc # "tagNode"
        /\ w.obj.bootstrapped = w.base.bootstrapped
        /\ w.obj.providerID = w.base.providerID
    BY <1>3 DEF Settling
  <2>2. ~w.obj.bootstrapped
    BY <1>0, <1>3, <2>1, PatchTypes DEF SettledInv, Settled
  <2>3. ~Settling'
    BY <1>0, <1>3, <2>1, <2>2, MiddleStatus DEF Settling
  <2> QED
    BY <1>3, <2>3
<1> QED
  BY <1>1, <1>2, <1>3

\* What the two patches do to the object of a machine, in terms of SettledInv.
LEMMA PatchSettles ==
    ASSUME TypeOK, PatchInv, SettledInv, NEW m \in Machines, StoreChange(m)
    PROVE  /\ store[m].bootstrapped => store'[m].bootstrapped
           /\ Settled(m) => store'[m].instanceID = store[m].instanceID
           /\ Settled(m)' =>
                 \/ Settled(m)
                 \/ /\ PatchObject \/ PatchStatus
                    /\ w.m = m /\ Settling /\ w.base.instanceID # None
                    /\ store'[m].instanceID = store[m].instanceID
           /\ store'[m].providerID # store[m].providerID
                 => /\ PatchObject /\ w.m = m
                    /\ store'[m].providerID = store[m].instanceID
           /\ store'[m].bootstrapped /\ ~store[m].bootstrapped
                 => /\ PatchStatus /\ w.m = m
                    /\ w.obj.bootstrapped /\ ~w.base.bootstrapped
                    /\ store[m].instanceID = w.base.instanceID
                    /\ w.base.instanceID # None
<1>0. /\ store[m] \in Object /\ w.base \in Object /\ w.obj \in Object
      /\ \A o \in {store[m], w.base, w.obj} :
            /\ o.bootstrapped \in BOOLEAN
            /\ o.instanceID \in NodeId \cup {None}
            /\ o.providerID \in NodeId \cup {None}
  BY PatchTypes
<1>1. CASE /\ PatchObject /\ w.m = m /\ store[m].exists
           /\ store'[m] = PatchedObject(w.base, w.obj, store[m])
  <2>1. w.pc = "patchObject" /\ store'[m] = PatchedObject(w.base, w.obj, store[m])
    BY <1>1 DEF PatchObject
  <2>2. /\ store'[m].instanceID = store[m].instanceID
        /\ store'[m].bootstrapped = store[m].bootstrapped
        /\ store'[m].providerID
             = Merged(w.base.providerID, w.obj.providerID, store[m].providerID)
    BY <1>0, <2>1, PatchFields
  <2>3. CASE w.obj.providerID = w.base.providerID
    BY <2>2, <2>3 DEF Merged, Settled
  <2>4. CASE w.obj.providerID # w.base.providerID
    <3>1. /\ Settling /\ w.base.instanceID # None
          /\ w.obj.providerID = w.base.instanceID
          /\ store[m].instanceID = w.base.instanceID
      BY <1>1, <2>1, <2>4 DEF Settling, PatchInv, SettledInv
    <3>2. store'[m].providerID = store[m].instanceID
      BY <2>2, <2>4, <3>1 DEF Merged
    <3> QED
      BY <1>1, <2>2, <3>1, <3>2 DEF Settled
  <2> QED
    BY <2>3, <2>4
<1>2. CASE /\ PatchStatus /\ w.m = m /\ store[m].exists
           /\ store'[m] = PatchedStatus(w.base, w.obj, store[m])
  <2>1. store'[m] = PatchedStatus(w.base, w.obj, store[m]) /\ w.pc = "patchStatus"
    BY <1>2 DEF PatchStatus
  <2>2. /\ store'[m].providerID = store[m].providerID
        /\ store'[m].bootstrapped
             = Merged(w.base.bootstrapped, w.obj.bootstrapped, store[m].bootstrapped)
    BY <1>0, <2>1, PatchFields
  <2>3. /\ w.base.bootstrapped => w.obj.bootstrapped /\ store[m].bootstrapped
        /\ w.obj.bootstrapped /\ ~w.base.bootstrapped => w.base.instanceID # None
    BY <1>2, <2>1 DEF PatchInv, SettledInv
  <2>4. store'[m].bootstrapped = (store[m].bootstrapped \/ w.obj.bootstrapped)
    BY <1>0, <2>2, <2>3 DEF Merged
  <2>5. Settled(m) \/ Settling => w.base.instanceID # None
                                  /\ store[m].instanceID = w.base.instanceID
    <3>1. Settled(m) \/ Settling => store[m].instanceID = w.base.instanceID
      BY <1>2, <2>1 DEF SettledInv
    <3>2. Settled(m) => store[m].instanceID # None
      BY DEF SettledInv
    <3>3. Settling => w.base.instanceID # None
      BY <1>0, <2>1, <2>3 DEF Settling, PatchInv
    <3> QED
      BY <3>1, <3>2, <3>3
  <2>6. w.base.instanceID # None => store'[m].instanceID = store[m].instanceID
    BY <1>2, PatchedInstance
  <2>7. store'[m].bootstrapped /\ ~store[m].bootstrapped
          => w.obj.bootstrapped /\ ~w.base.bootstrapped /\ Settling
    BY <2>3, <2>4 DEF Settling
  <2> QED
    BY <1>0, <1>2, <2>2, <2>4, <2>5, <2>6, <2>7 DEF Settled
<1>3. CASE Touched(m)
  BY <1>3, StoreStatus DEF Settled
<1> QED
  BY <1>1, <1>2, <1>3 DEF StoreChange

LEMMA SettledStep ==
    ASSUME TypeOK, OwnershipInv, PatchInv, LiveIsCurrent, SettledInv, [Next]_vars
    PROVE  SettledInv'
<1>0. \A m \in Machines :
         /\ StoreChange(m)
         /\ cache'[m] = cache[m] \/ (cache'[m] = store[m] /\ store' = store)
  BY StoreSteps, CacheSteps
<1>1. ASSUME NEW m \in Machines
      PROVE  /\ cache'[m].bootstrapped => store'[m].bootstrapped
             /\ Settled(m)' => /\ store'[m].instanceID # None
                               /\ cache'[m].instanceID = store'[m].instanceID
  <2>1. cache'[m].bootstrapped => store'[m].bootstrapped
    BY <1>0, PatchSettles DEF SettledInv
  <2>2. CASE Settled(m)
    BY <1>0, <2>2, PatchSettles DEF SettledInv
  <2>3. CASE ~Settled(m) /\ Settled(m)'
    <3>1. /\ PatchObject \/ PatchStatus
          /\ w.m = m /\ Settling /\ w.base.instanceID # None
          /\ store'[m].instanceID = store[m].instanceID
      BY <1>0, <2>3, PatchSettles
    <3>2. cache' = cache /\ w.pc # "idle"
      BY <3>1 DEF PatchObject, PatchStatus, inputs
    <3>3. /\ store[m].instanceID = w.base.instanceID
          /\ cache[m].instanceID = w.base.instanceID
      BY <3>1, <3>2 DEF SettledInv
    <3>4. /\ store'[m].instanceID # None
          /\ cache'[m].instanceID = store'[m].instanceID
      BY <3>1, <3>2, <3>3
    <3> QED
      BY <2>1, <3>4
  <2> QED
    BY <2>1, <2>2, <2>3
<1>2. ASSUME NEW m \in Machines, w'.pc # "idle", w'.m = m
      PROVE  /\ w'.base.bootstrapped => store'[m].bootstrapped
             /\ Settled(m)' \/ Settling'
                   => /\ store'[m].instanceID = w'.base.instanceID
                      /\ cache'[m].instanceID = w'.base.instanceID
  <2>1. CASE Reconcile(m)
    <3>1. /\ w'.base = cache[m] /\ store' = store /\ cache' = cache /\ ~Settling'
      BY <2>1, ReconcileBegins DEF Settling
    <3>2. Settled(m)' = Settled(m)
      BY <3>1 DEF Settled
    <3> QED
      BY <3>1, <3>2 DEF SettledInv
  <2>2. CASE \E k \in Machines : Reconcile(k) /\ k # m
    BY <1>2, <2>2, ReconcileBegins
  <2>3. CASE Middle
    <3>1. /\ w.m = m /\ w'.base = w.base /\ store' = store /\ cache' = cache
          /\ w.pc # "idle"
      BY <1>2, <2>3, MiddleKeeps, MiddlePc DEF Keeps
    <3>2. Settled(m)' = Settled(m)
      BY <3>1 DEF Settled
    <3>3. w.base.bootstrapped => store[m].bootstrapped
      BY <3>1 DEF SettledInv
    <3>4. CASE Settled(m) \/ Settling
      BY <3>1, <3>2, <3>3, <3>4 DEF SettledInv
    <3>5. CASE ~Settled(m) /\ ~Settling
      BY <1>2, <2>3, <3>1, <3>2, <3>3, <3>5, MiddleSettles
    <3> QED
      BY <3>4, <3>5
  <2>4. CASE ~Middle /\ \A k \in Machines : ~Reconcile(k)
    <3>1. /\ w.pc # "idle" /\ w.m = m
          /\ w'.base = w.base /\ w'.obj = w.obj
          /\ w.pc = "tagNode" \/ w'.pc # "tagNode"
      BY <1>2, <2>4, StillAtWork
    <3>2. Settling' => Settling
      BY <3>1 DEF Settling
    <3>3. Settled(m)' => Settled(m) \/ Settling
      BY <1>0, <3>1, PatchSettles
    <3>4. store'[m].instanceID = store[m].instanceID
      BY <1>2, <2>4, <3>1, StillAtWork, StoreStatus, PatchTypes, PatchFields
    <3>5. w.base.bootstrapped => store'[m].bootstrapped
      BY <1>0, <3>1, PatchSettles DEF SettledInv
    <3>6. Settled(m) \/ Settling
             => /\ store[m].instanceID = w.base.instanceID
                /\ cache[m].instanceID = w.base.instanceID
      BY <3>1 DEF SettledInv
    <3> QED
      BY <1>0, <3>1, <3>2, <3>3, <3>4, <3>5, <3>6
  <2> QED
    BY <2>1, <2>2, <2>3, <2>4
<1>3. w'.pc # "idle" => w'.m \in Machines
  BY ReconcileBegins, StillAtWork
<1>4. (\A m \in Machines :
          /\ cache[m].bootstrapped => store[m].bootstrapped
          /\ Settled(m) => /\ store[m].instanceID # None
                           /\ cache[m].instanceID = store[m].instanceID)'
  BY <1>1 DEF Settled
<1>5. (w.pc # "idle"
          => /\ w.base.bootstrapped => store[w.m].bootstrapped
             /\ Settled(w.m) \/ Settling
                   => /\ store[w.m].instanceID = w.base.instanceID
                      /\ cache[w.m].instanceID = w.base.instanceID)'
  BY <1>2, <1>3 DEF Settled
<1> QED
  BY <1>4, <1>5 DEF SettledInv

\* The part of ReadyInv that is about the object of machine m.
Earned(m) ==
    /\ store[m].providerID \in {None, store[m].instanceID}
    /\ store[m].ready => store[m].bootstrapped
    /\ store[m].bootstrapped => nodes[store[m].instanceID].booted

LEMMA EarnedStep ==
    ASSUME TypeOK, PatchInv, ReadyInv, NodesAge, NEW m \in Machines, StoreChange(m)
    PROVE  Earned(m)' /\ (store[m].ready => store'[m].ready)
<1>0. /\ store[m] \in Object /\ w.base \in Object /\ w.obj \in Object
      /\ Earned(m) /\ SettledInv
      /\ \A o \in {store[m], w.base, w.obj} :
            /\ o.instanceID \in NodeId \cup {None}
            /\ o.bootstrapped \in BOOLEAN /\ o.ready \in BOOLEAN
  BY PatchTypes DEF ReadyInv, Earned
<1>1. /\ store[m].bootstrapped => store'[m].bootstrapped
      /\ Settled(m) => /\ store'[m].instanceID = store[m].instanceID
                       /\ store[m].instanceID # None
  BY <1>0, PatchSettles DEF SettledInv
<1>2. store'[m].providerID \in {None, store'[m].instanceID}
  <2>1. CASE store'[m].providerID = store[m].providerID
    BY <1>0, <1>1, <2>1 DEF Earned, Settled
  <2>2. CASE store'[m].providerID # store[m].providerID
    <3>1. /\ PatchObject /\ w.m = m /\ store'[m].providerID = store[m].instanceID
      BY <1>0, <2>2, PatchSettles
    <3>2. store'[m].instanceID = store[m].instanceID
      <4>1. ~PatchStatus
        BY <3>1 DEF PatchObject, PatchStatus
      <4> QED
        BY <1>0, <4>1, PatchFields, StoreStatus DEF StoreChange
    <3> QED
      BY <3>1, <3>2
  <2> QED
    BY <2>1, <2>2
<1>3. store'[m].bootstrapped => nodes'[store'[m].instanceID].booted
  <2>1. CASE store[m].bootstrapped
    BY <1>0, <1>1, <2>1 DEF Earned, Settled, NodesAge
  <2>2. CASE ~store[m].bootstrapped /\ store'[m].bootstrapped
    <3>1. /\ PatchStatus /\ w.m = m
          /\ w.obj.bootstrapped /\ ~w.base.bootstrapped
          /\ store[m].instanceID = w.base.instanceID
          /\ w.base.instanceID # None
      BY <1>0, <2>2, PatchSettles
    <3>2. Settling /\ w.pc = "patchStatus"
      BY <3>1 DEF Settling, PatchStatus
    <3>3. nodes[w.base.instanceID].booted
      BY <3>1, <3>2 DEF PatchInv
    <3>4. store'[m].instanceID = store[m].instanceID
      BY <1>0, <2>2, PatchSettles DEF Settled
    <3> QED
      BY <1>0, <3>1, <3>3, <3>4 DEF NodesAge
  <2> QED
    BY <2>1, <2>2
<1>4. /\ store[m].ready => store'[m].ready
      /\ store'[m].ready => store'[m].bootstrapped
  <2>1. CASE ~(PatchStatus /\ w.m = m /\ store[m].exists)
    <3>1. store'[m].ready = store[m].ready
      BY <1>0, <2>1, PatchFields, StoreStatus DEF StoreChange
    <3> QED
      BY <1>0, <1>1, <3>1 DEF Earned
  <2>2. CASE PatchStatus /\ w.m = m /\ store[m].exists
    <3>1. store'[m] = PatchedStatus(w.base, w.obj, store[m]) /\ w.pc = "patchStatus"
      BY <2>2 DEF PatchStatus, Patch, TypeOK
    <3>2. /\ store'[m].ready = Merged(w.base.ready, w.obj.ready, store[m].ready)
          /\ store'[m].bootstrapped
               = Merged(w.base.bootstrapped, w.obj.bootstrapped, store[m].bootstrapped)
      BY <1>0, <3>1, PatchFields
    <3>3. /\ w.base.ready => w.obj.ready /\ store[m].ready
          /\ w.obj.ready /\ ~w.base.ready => w.obj.bootstrapped
          /\ w.base.bootstrapped => store[m].bootstrapped
      BY <2>2, <3>1 DEF PatchInv, ReadyInv, SettledInv
    <3>4. store'[m].ready => store[m].ready \/ w.obj.bootstrapped
      BY <1>0, <3>2, <3>3 DEF Merged
    <3>5. w.obj.bootstrapped => store'[m].bootstrapped
      BY <1>0, <3>2, <3>3 DEF Merged
    <3>6. store[m].ready => store'[m].ready
      BY <1>0, <3>2, <3>3 DEF Merged
    <3> QED
      BY <1>0, <1>1, <3>4, <3>5, <3>6 DEF Earned
  <2> QED
    BY <2>1, <2>2
<1> QED
  BY <1>2, <1>3, <1>4 DEF Earned

LEMMA ReadyStep ==
    ASSUME TypeOK, OwnershipInv, PatchInv, LiveIsCurrent, ReadyInv, [Next]_vars
    PROVE  ReadyInv'
<1>0. \A m \in Machines :
         /\ Earned(m)' /\ (store[m].ready => store'[m].ready)
         /\ cache'[m] = cache[m] \/ (cache'[m] = store[m] /\ store' = store)
  BY NodesOnlyAge, StoreSteps, CacheSteps, EarnedStep
<1>1. SettledInv'
  BY SettledStep DEF ReadyInv
<1>2. \A m \in Machines : cache'[m].ready => store'[m].ready
  BY <1>0 DEF ReadyInv
<1>3. w'.pc # "idle" /\ w'.base.ready => store'[w'.m].ready
  <2>1. ASSUME NEW m \in Machines, Reconcile(m)
        PROVE  w'.m = m /\ w'.base = cache[m] /\ store' = store
    BY <2>1, ReconcileBegins
  <2>2. CASE w'.pc # "idle" /\ \A m \in Machines : ~Reconcile(m)
    BY <1>0, <2>2, StillAtWork DEF ReadyInv
  <2> QED
    BY <2>1, <2>2 DEF ReadyInv
<1> QED
  BY <1>0, <1>1, <1>2, <1>3 DEF ReadyInv, Earned

LEMMA ReadyInductive ==
    ASSUME \/ "staleCache" \notin Faults
           \/ "listError" \notin Faults /\ "lateCreate" \notin Faults
    PROVE  Spec => []ReadyInv
<1>1. TypeOK /\ OwnershipInv /\ PatchInv /\ LiveIsCurrent /\ ReadyInv /\ [Next]_vars
        => ReadyInv'
  BY ReadyStep
<1>2. Spec => []LiveIsCurrent
  BY WorksOnTheRecordedNode
<1> QED
  BY PatchInductive, InitReady, <1>1, <1>2, PTL DEF Spec

\* A machine is ready only when its script ran to the end on the node recorded
\* for it, wherever the manager crashes, whichever writes and replies are lost and
\* whoever deletes nodes behind its back, as long as the cache does not lag or a
\* machine has one node (OneNode).
THEOREM ReadinessIsEarned ==
    ASSUME \/ "staleCache" \notin Faults
           \/ "listError" \notin Faults /\ "lateCreate" \notin Faults
    PROVE  Spec => []ReadyIsEarned
<1>1. ReadyInv => ReadyIsEarned
  BY DEF ReadyInv, SettledInv, Settled, ReadyIsEarned
<1> QED
  BY ReadyInductive, <1>1, PTL

-----------------------------------------------------------------------------
(***************************************************************************)
(* Registration before bootstrap.                                          *)
(***************************************************************************)

LEMMA InitRegister == Init => RegisterInv
<1> SUFFICES ASSUME Init PROVE RegisterInv
  OBVIOUS
<1>1. w.pc = "idle" /\ cluster.exists /\ ~cluster.ready /\ cluster.lb = None
  BY DEF Init, IdleWorker
<1>2. /\ \A l \in LbId : lbs[l] = "absent"
      /\ \A n \in NodeId : nodes[n].status = "absent"
  BY DEF Init
<1> QED
  BY <1>1, <1>2 DEF RegisterInv

\* Besides the E2ECluster controller, only the two PUT requests of a reconciliation
\* touch a load balancer.
LEMMA ClusterSteps ==
    ASSUME [Next]_vars
    PROVE  \/ ClusterStep
           \/ /\ UNCHANGED <<cluster, lbs>>
              /\ servers' = servers \/ AddBackendPut \/ RemoveBackendPut
<1>1. CASE ~ClusterStep /\ ~AddBackendPut /\ ~RemoveBackendPut
  BY <1>1
  DEF Next, Controller, Environment, Reconcile, OwnerNotFound, DeleteInstance,
      DeleteWithoutInstance, AddFinalizer, StartCreate, StartStatus, Begin,
      LookupFound, LookupMissed, CreateNode, CreateNodeFails, GetNodeNotFound,
      GetNodeFails, GetNodeNotRunning, GetNodeRunning, AddBackendGet,
      AddBackendFails, BootstrapWaits, BootstrapRuns, TagNode,
      TagNodeFails, EnsureControlPlaneNode, EnsureControlPlaneNodeFails,
      RemoveBackendGet, RemoveBackendFails, DeleteNode,
      DeleteNodeFails, PatchObject, PatchObjectFails, PatchStatus,
      PatchStatusFails, CacheSync, Crash, AdoptMachine, UserDelete, DataReady,
      OwnerLost, LateCreate, KubeletRegisters, NodeStarts, NodeGetsIP, NodeLosesIP, NodeLost,
      TogglePause, cloud, inputs, vars
<1>2. CASE AddBackendPut \/ RemoveBackendPut
  BY <1>2 DEF AddBackendPut, RemoveBackendPut, inputs
<1> QED
  BY <1>1, <1>2

\* While nothing takes the cluster or its load balancer away, a load balancer
\* that is up stays so, and a recorded one is up.
ClusterStands ==
    /\ cluster'.exists
    /\ cluster'.ready => cluster'.lb # None
    /\ cluster'.lb # None => lbs'[cluster'.lb] = "up"
    /\ \A l \in LbId : lbs'[l] # "gone"
    /\ \A l \in LbId : lbs[l] = "up" => lbs'[l] = "up"

LEMMA ClusterStandsStep ==
    ASSUME TypeOK, RegisterInv, [Next]_vars,
           "lbReset" \notin Faults, "clusterGone" \notin Faults
    PROVE  ClusterStands /\ (servers' = servers \/ AddBackendPut \/ RemoveBackendPut)
<1>0. cluster \in [exists : BOOLEAN, ready : BOOLEAN, lb : LbId \cup {None}]
  BY DEF TypeOK
<1>1. ASSUME UNCHANGED <<cluster, lbs>>
      PROVE  ClusterStands
  BY <1>1 DEF ClusterStands, RegisterInv
<1>2. ASSUME NEW l \in LbId, Contract!LBCreated(l)
      PROVE  ClusterStands /\ servers' = servers
  <2>1. /\ lbs[l] = "absent" /\ lbs' = [lbs EXCEPT ![l] = "up"]
        /\ UNCHANGED <<cluster, servers>>
    BY <1>2 DEF Contract!LBCreated
  <2>2. \A k \in LbId : lbs'[k] = IF k = l THEN "up" ELSE lbs[k]
    BY <2>1 DEF TypeOK
  <2> QED
    BY <1>0, <2>1, <2>2, ConstantAssumption DEF ClusterStands, RegisterInv
<1>3. ASSUME NEW l \in LbId, Contract!LBRecorded(l)
      PROVE  ClusterStands /\ servers' = servers
  <2>1. lbs[l] = "up" /\ l # None
    BY <1>3, ConstantAssumption DEF Contract!LBRecorded, RegisterInv, TypeOK
  <2>2. PICK r \in {cluster.ready, TRUE} :
           cluster' = [cluster EXCEPT !.lb = l, !.ready = r]
    BY <1>3 DEF Contract!LBRecorded
  <2>3. cluster'.lb = l /\ cluster'.exists = cluster.exists
    BY <1>0, <2>2
  <2>4. UNCHANGED <<lbs, servers>>
    BY <1>3 DEF Contract!LBRecorded
  <2> QED
    BY <2>1, <2>3, <2>4 DEF ClusterStands, RegisterInv
<1>4. CASE Contract!LBForgotten
  BY <1>4 DEF Contract!LBForgotten, RegisterInv
<1>5. CASE Contract!ClusterReady
  <2>1. /\ cluster.lb # None /\ cluster' = [cluster EXCEPT !.ready = TRUE]
        /\ UNCHANGED <<lbs, servers>>
    BY <1>5 DEF Contract!ClusterReady
  <2>2. cluster'.lb = cluster.lb /\ cluster'.exists = cluster.exists
    BY <1>0, <2>1
  <2> QED
    BY <2>1, <2>2 DEF ClusterStands, RegisterInv
<1>6. CASE ClusterStep
  BY <1>2, <1>3, <1>4, <1>5, <1>6 DEF ClusterStep
<1> QED
  BY <1>1, <1>6, ClusterSteps

LEMMA RunningHasIP ==
    ASSUME TypeOK, OwnershipInv, RegisterInv, [Next]_vars,
           "noPrivateIP" \notin Faults
    PROVE  \A n \in NodeId : nodes'[n].status = "Running" => nodes'[n].ip
<1>1. ASSUME NEW k \in Machines, NEW n \in NodeId, Provision(k, n)
      PROVE  \A j \in NodeId : nodes'[j].status = "Running" => nodes'[j].ip
  <2>1. /\ nodes'[n].status = "Creating"
        /\ \A j \in NodeId : j # n => nodes'[j] = nodes[j]
    BY <1>1 DEF Provision, TypeOK, Node
  <2> QED
    BY <2>1 DEF RegisterInv
<1>2. ASSUME NEW n \in NodeId, NEW x \in Node, Wears(n, x)
      PROVE  \A j \in NodeId : nodes'[j].status = "Running" => nodes'[j].ip
  <2>1. nodes'[n] = x /\ \A k \in NodeId : k # n => nodes'[k] = nodes[k]
    BY <1>2 DEF Wears, TypeOK
  <2> QED
    BY <1>2, <2>1 DEF Wears, RegisterInv
<1>3. CASE UNCHANGED nodes
  BY <1>3 DEF RegisterInv
<1> QED
  BY <1>1, <1>2, <1>3, NodeChanges DEF CreateNode, LateCreate, TypeOK, WorkerOK

\* The load balancer that a reconciliation uses is the one it read.
LEMMA SameLB ==
    ASSUME TypeOK, NEW o \in Object, NEW p \in WorkerPc,
           Return(o) \/ Goto(p) \/ MarkReady(o) \/ ToBootstrap(o)
    PROVE  w'.lb = w.lb
<1>1. w \in Worker
  BY DEF TypeOK
<1>2. ASSUME MarkReady(o) PROVE w'.lb = w.lb
  BY <1>1, <1>2 DEF MarkReady, Worker
<1> QED
  BY <1>1, <1>2 DEF Return, Goto, ToBootstrap, Worker

LEMMA MiddleLB ==
    ASSUME TypeOK, Middle
    PROVE  w'.lb = w.lb
<1>0. w \in Worker /\ w.obj \in Object /\ {"create", "tagNode", "deleteNode"} \subseteq WorkerPc
  BY DEF TypeOK, Worker
<1>1. \A n \in NodeId : [w.obj EXCEPT !.instanceID = n] \in Object
  BY <1>0 DEF Object
<1>9. /\ [w.obj EXCEPT !.bootstrapped = TRUE] \in Object
      /\ [w.obj EXCEPT !.failed = TRUE] \in Object
      /\ [w.obj EXCEPT !.finalizer = FALSE] \in Object
  BY <1>0 DEF Object
<1>2. CASE LookupFound \/ CreateNode
  BY <1>1, <1>2, <1>0, SameLB DEF LookupFound, CreateNode, Live
<1>3. CASE GetNodeNotRunning \/ GetNodeRunning
  <2>1. WithAddress(w.obj) \in Object
    BY <1>0, <1>3, WithAddressType
    DEF GetNodeNotRunning, GetNodeRunning, TypeOK, WorkerOK
  <2>2. \/ Return(WithAddress(w.obj))
        \/ ToBootstrap(WithAddress(w.obj))
        \/ w' = [w EXCEPT !.pc = "addGet", !.obj = WithAddress(w.obj)]
    BY <1>3 DEF GetNodeNotRunning, GetNodeRunning
  <2> QED
    BY <1>0, <2>1, <2>2, SameLB DEF Worker
<1>4. CASE AddBackendGet \/ AddBackendPut \/ RemoveBackendGet
  <2>1. \/ Return(w.obj)
        \/ ToBootstrap(w.obj)
        \/ w' = [w EXCEPT !.pc = "addPut", !.snap = servers[w.lb]]
        \/ w' = [w EXCEPT !.pc = "removePut", !.snap = servers[w.lb]]
    BY <1>4 DEF AddBackendGet, AddBackendPut, RemoveBackendGet
  <2> QED
    BY <1>0, <2>1, SameLB DEF Worker
<1>5. CASE \/ LookupMissed \/ TagNode \/ TagNodeFails \/ RemoveBackendPut
           \/ RemoveBackendFails
  <2>1. \/ MarkReady([w.obj EXCEPT !.bootstrapped = TRUE])
        \/ Goto("create")
        \/ Goto("deleteNode")
    BY <1>5 DEF LookupMissed, TagNode, TagNodeFails, RemoveBackendPut,
                RemoveBackendFails
  <2> QED
    BY <1>0, <1>9, <2>1, SameLB
<1>6. CASE BootstrapRuns
  <2>1. \/ MarkReady([w.obj EXCEPT !.bootstrapped = TRUE])
        \/ Goto("tagNode")
        \/ Return(w.obj)
    BY <1>6 DEF BootstrapRuns
  <2> QED
    BY <1>0, <1>9, <2>1, SameLB
<1>7. CASE GetNodeNotFound \/ DeleteNode
  <2>1. \/ Return([w.obj EXCEPT !.failed = TRUE])
        \/ Return([w.obj EXCEPT !.finalizer = FALSE])
        \/ Return(w.obj)
    BY <1>7 DEF GetNodeNotFound, DeleteNode
  <2> QED
    BY <1>0, <1>9, <2>1, SameLB
<1>8. CASE \/ CreateNodeFails \/ GetNodeFails \/ AddBackendFails \/ BootstrapWaits
           \/ EnsureControlPlaneNode \/ EnsureControlPlaneNodeFails
           \/ DeleteNodeFails
  <2>1. Return(w.obj)
    BY <1>8 DEF CreateNodeFails, GetNodeFails, AddBackendFails, BootstrapWaits,
                EnsureControlPlaneNode, EnsureControlPlaneNodeFails, DeleteNodeFails
  <2> QED
    BY <1>0, <2>1, SameLB
<1> QED
  BY <1>2, <1>3, <1>4, <1>5, <1>6, <1>7, <1>8 DEF Middle

\* The part of RegisterInv that is about the worker.
WorkerRegisters ==
    /\ w.pc # "idle" /\ w.lb # None => lbs[w.lb] = "up"
    /\ w.pc \in {"getNode", "addGet", "addPut", "bootstrap"} => w.lb # None
    /\ w.pc \in {"addGet", "addPut"} => w.obj.address = w.obj.instanceID
    /\ w.pc = "bootstrap" /\ w.m \in ControlPlane
          => w.obj.instanceID \in servers[w.lb]

LEMMA GetNodeRegisters ==
    ASSUME TypeOK, RegisterInv, GetNodeRunning
    PROVE  WorkerRegisters'
<1> DEFINE o == WithAddress(w.obj)
<1>1. /\ w.pc = "getNode" /\ w.lb # None /\ w.m \in Machines
      /\ w.obj.instanceID \in NodeId /\ w.obj \in Object
      /\ nodes[w.obj.instanceID].status = "Running"
      /\ UNCHANGED <<lbs, servers>>
  BY DEF GetNodeRunning, RegisterInv, TypeOK, WorkerOK, Worker, Object, cloud
<1>2. o.instanceID = w.obj.instanceID /\ o.address = w.obj.instanceID
  BY <1>1 DEF WithAddress, RegisterInv, Object
<1>3. o \in Object
  BY <1>1, WithAddressType DEF TypeOK, WorkerOK
<1>4. w'.lb = w.lb /\ lbs[w.lb] = "up"
  BY <1>1, MiddleLB DEF Middle, RegisterInv
<1>5. CASE NeedsBackend(o)
  <2>1. w' = [w EXCEPT !.pc = "addGet", !.obj = o]
    BY <1>5 DEF GetNodeRunning
  <2>2. w'.pc = "addGet" /\ w'.obj = o
    BY <2>1 DEF TypeOK, Worker
  <2> QED
    BY <1>1, <1>2, <1>4, <2>2 DEF WorkerRegisters
<1>6. CASE ~NeedsBackend(o)
  <2>1. ToBootstrap(o)
    BY <1>6 DEF GetNodeRunning
  <2>2. w'.m = w.m /\ w'.pc \in {"bootstrap", "cpNode", "patchObject"}
    BY <1>3, <2>1, ToBootstrapObject DEF Onward
  <2>3. w.m \notin ControlPlane
    BY <1>1, <1>2, <1>6, ConstantAssumption DEF NeedsBackend
  <2> QED
    BY <1>1, <1>4, <2>2, <2>3 DEF WorkerRegisters
<1> QED
  BY <1>5, <1>6

LEMMA AddBackendRegisters ==
    ASSUME TypeOK, RegisterInv, AddBackendGet \/ AddBackendPut
    PROVE  WorkerRegisters'
<1>1. /\ w.pc \in {"addGet", "addPut"} /\ w.lb \in LbId /\ w.lb # None
      /\ w \in Worker /\ w.obj \in Object /\ w.obj.address = w.obj.instanceID
      /\ lbs' = lbs /\ lbs[w.lb] = "up"
  BY DEF AddBackendGet, AddBackendPut, RegisterInv, TypeOK, WorkerOK, Worker, cloud
<1>2. w'.lb = w.lb
  BY MiddleLB DEF Middle
<1>3. ASSUME ToBootstrap(w.obj)
      PROVE  /\ w'.pc \in {"bootstrap", "cpNode", "patchObject"}
             /\ w'.obj.instanceID = w.obj.instanceID
  BY <1>1, <1>3, ToBootstrapObject DEF Onward
<1>4. ASSUME Return(w.obj) PROVE w'.pc = "patchObject"
  BY <1>1, <1>4 DEF Return, Worker
<1>5. CASE AddBackendGet /\ w.obj.address \in servers[w.lb]
  <2>1. ToBootstrap(w.obj) /\ servers' = servers
    BY <1>5 DEF AddBackendGet, cloud
  <2> QED
    BY <1>1, <1>2, <1>3, <1>5, <2>1 DEF WorkerRegisters
<1>6. CASE AddBackendGet /\ w.obj.address \notin servers[w.lb]
  <2>1. w' = [w EXCEPT !.pc = "addPut", !.snap = servers[w.lb]]
    BY <1>6 DEF AddBackendGet
  <2>2. w'.pc = "addPut" /\ w'.obj = w.obj
    BY <1>1, <2>1 DEF Worker
  <2> QED
    BY <1>1, <1>2, <2>2 DEF WorkerRegisters
<1>7. CASE AddBackendPut
  <2>1. /\ servers' = [servers EXCEPT ![w.lb] = w.snap \cup {w.obj.address}]
        /\ ToBootstrap(w.obj) \/ Return(w.obj)
    BY <1>7 DEF AddBackendPut
  <2>2. w.obj.address \in servers'[w.lb]
    BY <1>1, <2>1 DEF TypeOK
  <2> QED
    BY <1>1, <1>2, <1>3, <1>4, <2>1, <2>2 DEF WorkerRegisters
<1> QED
  BY <1>5, <1>6, <1>7

\* The other steps in the middle lead to where nothing is asked of the worker
\* but that its load balancer is up.
LEMMA MiddleLeaves ==
    ASSUME TypeOK, Middle, ~GetNodeRunning, ~AddBackendGet, ~AddBackendPut
    PROVE  /\ w'.pc \notin {"getNode", "addGet", "addPut", "bootstrap"}
           /\ lbs' = lbs
<1>0. w \in Worker
  BY DEF TypeOK
<1>1. ASSUME NEW o, Return(o) \/ MarkReady(o)
      PROVE  w'.pc \in {"patchObject", "cpNode"}
  BY <1>0, <1>1 DEF Return, MarkReady, Worker
<1>2. ASSUME NEW p, Goto(p) PROVE w'.pc = p
  BY <1>0, <1>2 DEF Goto, Worker
<1>3. CASE RemoveBackendGet
  BY <1>0, <1>3 DEF RemoveBackendGet, Worker, cloud
<1>4. CASE LookupMissed \/ RemoveBackendPut \/ RemoveBackendFails
  BY <1>2, <1>4 DEF LookupMissed, RemoveBackendPut, RemoveBackendFails, cloud
<1>5. CASE BootstrapRuns
  BY <1>1, <1>2, <1>5 DEF BootstrapRuns
<1>6. CASE LookupFound \/ CreateNode \/ CreateNodeFails \/ GetNodeNotFound
  BY <1>1, <1>6 DEF LookupFound, CreateNode, CreateNodeFails, GetNodeNotFound, cloud
<1>7. CASE \/ GetNodeFails \/ GetNodeNotRunning \/ AddBackendFails
           \/ BootstrapWaits \/ TagNode \/ TagNodeFails
  BY <1>1, <1>7 DEF GetNodeFails, GetNodeNotRunning, AddBackendFails,
                    BootstrapWaits, TagNode, TagNodeFails, cloud
<1>8. CASE \/ EnsureControlPlaneNode \/ EnsureControlPlaneNodeFails
           \/ DeleteNode \/ DeleteNodeFails
  BY <1>1, <1>8 DEF EnsureControlPlaneNode, EnsureControlPlaneNodeFails,
                    DeleteNode, DeleteNodeFails, cloud
<1> QED
  BY <1>3, <1>4, <1>5, <1>6, <1>7, <1>8 DEF Middle

LEMMA WorkerRegistersStep ==
    ASSUME TypeOK, RegisterInv, [Next]_vars, ClusterStands,
           servers' = servers \/ AddBackendPut \/ RemoveBackendPut
    PROVE  WorkerRegisters'
<1>0. /\ w.lb \in LbId \cup {None} /\ cluster.lb \in LbId \cup {None}
      /\ \A l \in LbId : lbs[l] = "up" => lbs'[l] = "up"
  BY DEF TypeOK, Worker, ClusterStands
<1>1. CASE \E m \in Machines : Reconcile(m)
  <2>1. /\ w'.pc \in {"lookup", "patchObject", "getNode", "deleteNode", "removeGet"}
        /\ w'.lb \in {cluster.lb, None} /\ lbs' = lbs
        /\ w'.pc = "getNode" => cluster.ready /\ w'.lb = cluster.lb
    BY <1>1, ReconcileBegins
  <2> QED
    BY <2>1 DEF WorkerRegisters, RegisterInv
<1>2. CASE GetNodeRunning \/ AddBackendGet \/ AddBackendPut
  BY <1>2, GetNodeRegisters, AddBackendRegisters
<1>3. CASE Middle /\ ~(GetNodeRunning \/ AddBackendGet \/ AddBackendPut)
  <2>1. w'.lb = w.lb /\ w.pc # "idle"
    BY <1>3, MiddleLB, MiddlePc
  <2> QED
    BY <1>3, <2>1, MiddleLeaves DEF WorkerRegisters, RegisterInv
<1>4. CASE ~Middle /\ \A m \in Machines : ~Reconcile(m)
  <2>1. servers' = servers
    BY <1>4 DEF Middle
  <2>2. CASE w' = w
    BY <1>0, <2>1, <2>2 DEF WorkerRegisters, RegisterInv
  <2>3. CASE w'.pc = "idle"
    BY <2>3 DEF WorkerRegisters
  <2>4. CASE PatchObject \/ PatchObjectFails
    <3>1. w.pc = "patchObject" /\ Goto("patchStatus")
      BY <2>4 DEF PatchObject, PatchObjectFails
    <3>2. w'.pc = "patchStatus" /\ w'.lb = w.lb
      BY <3>1 DEF Goto, TypeOK, Worker
    <3> QED
      BY <1>0, <3>1, <3>2 DEF WorkerRegisters, RegisterInv
  <2> QED
    BY <1>4, <2>2, <2>3, <2>4, OtherSteps
<1> QED
  BY <1>1, <1>2, <1>3, <1>4

LEMMA RegisterStep ==
    ASSUME TypeOK, OwnershipInv, RegisterInv, [Next]_vars,
           "noPrivateIP" \notin Faults, "lbReset" \notin Faults,
           "clusterGone" \notin Faults
    PROVE  RegisterInv'
  BY ClusterStandsStep, RunningHasIP, WorkerRegistersStep
  DEF RegisterInv, ClusterStands, WorkerRegisters

LEMMA RegisterInductive ==
    ASSUME "noPrivateIP" \notin Faults, "lbReset" \notin Faults,
           "clusterGone" \notin Faults
    PROVE  Spec => []RegisterInv
<1>1. TypeOK /\ OwnershipInv /\ RegisterInv /\ [Next]_vars => RegisterInv'
  BY RegisterStep
<1> QED
  BY PatchInductive, InitRegister, <1>1, PTL DEF Spec

\* A control plane node is bootstrapped only when its load balancer already
\* sends traffic to it ("must happen first", reconcileInstanceStatus), whatever
\* else fails, if a running node has its private IP and the cluster keeps its
\* load balancer.  Both are needed: without an address step 1 is skipped.
THEOREM RegistersFirst ==
    ASSUME "noPrivateIP" \notin Faults, "lbReset" \notin Faults,
           "clusterGone" \notin Faults
    PROVE  Spec => RegisteredBeforeBootstrap
<1>1. TypeOK /\ OwnershipInv /\ RegisterInv /\ [Next]_vars
        => [\A n \in NodeId :
              /\ ~nodes[n].booted
              /\ nodes'[n].booted
              /\ nodes[n].name \in ControlPlane
              => \E l \in LbId : lbs[l] = "up" /\ n \in servers[l]]_vars
  <2> SUFFICES ASSUME TypeOK, OwnershipInv, RegisterInv, [Next]_vars,
                      NEW n \in NodeId, ~nodes[n].booted, nodes'[n].booted,
                      nodes[n].name \in ControlPlane
               PROVE  \E l \in LbId : lbs[l] = "up" /\ n \in servers[l]
    OBVIOUS
  <2>1. BootstrapRuns /\ n = w.obj.instanceID
    <3>1. ASSUME NEW m \in Machines, NEW k \in NodeId, Provision(m, k)
          PROVE  nodes'[n].booted = nodes[n].booted
      BY <3>1 DEF Provision, TypeOK, Node
    <3>2. ASSUME NEW k \in NodeId, NEW x \in Node, Wears(k, x)
          PROVE  BootstrapRuns /\ n = w.obj.instanceID
      <4>1. nodes'[k] = x /\ \A j \in NodeId : j # k => nodes'[j] = nodes[j]
        BY <3>2 DEF Wears, TypeOK
      <4> QED
        BY <3>2, <4>1 DEF Wears
    <3> QED
      BY <3>1, <3>2, NodeChanges DEF CreateNode, LateCreate, TypeOK, WorkerOK
  <2>2. w.pc = "bootstrap" /\ nodes[n].name = w.m
    BY <2>1, ConstantAssumption DEF BootstrapRuns, OwnershipInv, InstanceIsOwn
  <2>3. w.lb \in LbId /\ lbs[w.lb] = "up" /\ n \in servers[w.lb]
    BY <2>1, <2>2 DEF RegisterInv, TypeOK, Worker
  <2> QED
    BY <2>3
<1> QED
  BY PatchInductive, RegisterInductive, <1>1, PTL
  DEF Spec, RegisteredBeforeBootstrap

=============================================================================
