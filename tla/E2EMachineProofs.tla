-------------------------- MODULE E2EMachineProofs --------------------------
(***************************************************************************)
(* Proofs about the E2EMachine controller, for any sets of machines, nodes *)
(* and load balancers and any choice of faults.                            *)
(***************************************************************************)
EXTENDS E2EMachine, TLAPS

\* Where every type is looked into.
USE DEF WorkerPc

\* An object stays an object whatever a reconciliation sets in it.
LEMMA ObjectUpdate ==
    ASSUME NEW o \in Object, NEW b \in BOOLEAN, NEW id \in NodeId \cup {None}
    PROVE  /\ [o EXCEPT !.finalizer = b] \in Object
           /\ [o EXCEPT !.instanceID = id] \in Object
           /\ [o EXCEPT !.address = id] \in Object
           /\ [o EXCEPT !.failed = b] \in Object
           /\ [o EXCEPT !.bootstrapped = b] \in Object
           /\ [o EXCEPT !.providerID = o.instanceID, !.ready = TRUE] \in Object
  BY DEF Object

\* Every change of a compute node leaves a compute node.
LEMMA NodeUpdate ==
    ASSUME TypeOK, NEW n \in NodeId,
           NEW s \in {"Creating", "Running", "Stopped", "deleted"}
    PROVE  /\ \A m \in Machines :
                 [nodes EXCEPT ![n] = [@ EXCEPT !.name = m, !.status = s]]
                    \in [NodeId -> Node]
           /\ [nodes EXCEPT ![n] = [@ EXCEPT !.status = s, !.ip = TRUE]]
                 \in [NodeId -> Node]
           /\ [nodes EXCEPT ![n].status = s] \in [NodeId -> Node]
           /\ [nodes EXCEPT ![n].ip = TRUE] \in [NodeId -> Node]
           /\ [nodes EXCEPT ![n].ip = FALSE] \in [NodeId -> Node]
           /\ [nodes EXCEPT ![n].booted = TRUE] \in [NodeId -> Node]
<1>1. /\ nodes \in [NodeId -> Node]
      /\ nodes[n] \in Node
  BY DEF TypeOK
<1>2. /\ \A m \in Machines : [nodes[n] EXCEPT !.name = m, !.status = s] \in Node
      /\ [nodes[n] EXCEPT !.status = s, !.ip = TRUE] \in Node
      /\ [nodes[n] EXCEPT !.status = s] \in Node
      /\ [nodes[n] EXCEPT !.ip = TRUE] \in Node
      /\ [nodes[n] EXCEPT !.ip = FALSE] \in Node
      /\ [nodes[n] EXCEPT !.booted = TRUE] \in Node
  BY <1>1 DEF Node
<1>3. \A x \in Node : [nodes EXCEPT ![n] = x] \in [NodeId -> Node]
  BY <1>1
<1> QED
  BY <1>2, <1>3

LEMMA WithAddressType ==
    ASSUME TypeOK, NEW o \in Object, o.instanceID # None
    PROVE  /\ WithAddress(o) \in Object
           /\ WithAddress(o).instanceID = o.instanceID
<1> DEFINE id == IF nodes[o.instanceID].ip THEN o.instanceID ELSE None
<1>1. id \in NodeId \cup {None}
  BY DEF Object
<1>2. WithAddress(o) = [o EXCEPT !.address = id]
  BY DEF WithAddress
<1> HIDE DEF id
<1> QED
  BY <1>1, <1>2 DEF Object

LEMMA PatchedType ==
    ASSUME NEW b \in Object, NEW o \in Object, NEW old \in Object
    PROVE  /\ PatchedObject(b, o, old) \in Object
           /\ PatchedStatus(b, o, old) \in Object
<1>1. ASSUME NEW x \in BOOLEAN, NEW y \in BOOLEAN, NEW z \in BOOLEAN
      PROVE  Merged(x, y, z) \in BOOLEAN
  BY DEF Merged
<1>2. ASSUME NEW x \in NodeId \cup {None}, NEW y \in NodeId \cup {None},
             NEW z \in NodeId \cup {None}
      PROVE  Merged(x, y, z) \in NodeId \cup {None}
  BY DEF Merged
<1>3. PatchedStatus(b, o, old) \in Object
  <2> DEFINE i == Merged(b.instanceID, o.instanceID, old.instanceID)
             a == Merged(b.address, o.address, old.address)
             t == Merged(b.bootstrapped, o.bootstrapped, old.bootstrapped)
             r == Merged(b.ready, o.ready, old.ready)
             f == Merged(b.failed, o.failed, old.failed)
  <2>1. /\ i \in NodeId \cup {None} /\ a \in NodeId \cup {None}
        /\ t \in BOOLEAN /\ r \in BOOLEAN /\ f \in BOOLEAN
    BY <1>1, <1>2 DEF Object
  <2>2. PatchedStatus(b, o, old)
          = [old EXCEPT !.instanceID = i, !.address = a, !.bootstrapped = t,
                        !.ready = r, !.failed = f]
    BY DEF PatchedStatus
  <2> HIDE DEF i, a, t, r, f
  <2> QED
    BY <2>1, <2>2 DEF Object
<1>4. PatchedObject(b, o, old) \in Object
  <2> DEFINE f == Merged(b.finalizer, o.finalizer, old.finalizer)
             p == Merged(b.providerID, o.providerID, old.providerID)
             new == [old EXCEPT !.finalizer = f, !.providerID = p]
  <2>1. f \in BOOLEAN /\ p \in NodeId \cup {None}
    BY <1>1, <1>2 DEF Object
  <2>2. PatchedObject(b, o, old)
          = [new EXCEPT !.exists = ~new.deleting \/ new.finalizer]
    BY DEF PatchedObject
  <2> HIDE DEF f, p
  <2>3. new \in Object
    BY <2>1 DEF Object
  <2> HIDE DEF new
  <2> QED
    BY <2>2, <2>3 DEF Object
<1> QED
  BY <1>3, <1>4

LEMMA InitType == Init => TypeOK
<1> SUFFICES ASSUME Init PROVE TypeOK
  OBVIOUS
<1>1. NewObject \in Object
  BY DEF NewObject, Object
<1>2. w \in Worker
  BY <1>1 DEF Init, IdleWorker, Worker
<1> QED
  BY <1>1, <1>2 DEF Init, TypeOK, WorkerOK, IdleWorker, Node, WorkloadNode

-----------------------------------------------------------------------------
(***************************************************************************)
(* How the worker moves.                                                   *)
(***************************************************************************)

LEMMA MoveType ==
    ASSUME TypeOK, NEW p \in WorkerPc
    PROVE  /\ [w EXCEPT !.pc = p] \in Worker
           /\ \A o \in Object : [w EXCEPT !.pc = p, !.obj = o] \in Worker
           /\ \A s \in SUBSET NodeId : [w EXCEPT !.pc = p, !.snap = s] \in Worker
  BY DEF TypeOK, Worker

LEMMA ReturnType ==
    ASSUME TypeOK, w.pc # "idle", NEW o \in Object, Return(o)
    PROVE  w' \in Worker /\ WorkerOK'
<1>1. w' = [w EXCEPT !.pc = "patchObject", !.obj = o]
  BY DEF Return
<1>2. w' \in Worker
  BY <1>1, MoveType
<1>3. w'.pc = "patchObject" /\ w'.m = w.m
  BY <1>1 DEF TypeOK, Worker
<1> QED
  BY <1>2, <1>3 DEF WorkerOK, TypeOK

LEMMA GotoType ==
    ASSUME TypeOK, w.pc # "idle",
           NEW p \in {"create", "patchStatus", "tagNode", "deleteNode"}, Goto(p),
           p \in {"tagNode", "deleteNode"} => w.obj.instanceID # None
    PROVE  w' \in Worker /\ WorkerOK'
<1>1. w' = [w EXCEPT !.pc = p]
  BY DEF Goto
<1>2. w' \in Worker
  BY <1>1, MoveType
<1>3. w \in Worker /\ w.m \in Machines
  BY DEF TypeOK, WorkerOK
<1>4. w'.pc = p /\ w'.m = w.m /\ w'.obj = w.obj
  BY <1>1, <1>3 DEF Worker
<1> QED
  BY <1>2, <1>3, <1>4 DEF WorkerOK

LEMMA MarkReadyType ==
    ASSUME TypeOK, w.pc # "idle", NEW o \in Object, o.instanceID # None,
           MarkReady(o)
    PROVE  w' \in Worker /\ WorkerOK'
<1> DEFINE p == IF w.m \in ControlPlane THEN "cpNode" ELSE "patchObject"
           q == [o EXCEPT !.providerID = o.instanceID, !.ready = TRUE]
<1>1. /\ p \in {"cpNode", "patchObject"}
      /\ w' = [w EXCEPT !.pc = p, !.obj = q]
  BY DEF MarkReady
<1>2. q \in Object
  BY ObjectUpdate
<1>3. q.instanceID = o.instanceID
  BY DEF Object
<1> HIDE DEF p, q
<1>4. w' \in Worker
  BY <1>1, <1>2, MoveType
<1>5. w'.pc = p /\ w'.obj = q /\ w'.m = w.m
  BY <1>1, <1>2 DEF TypeOK, Worker
<1> QED
  BY <1>1, <1>4, <1>5, <1>2, <1>3 DEF WorkerOK, TypeOK

LEMMA ToBootstrapType ==
    ASSUME TypeOK, w.pc # "idle", NEW o \in Object, o.instanceID # None,
           ToBootstrap(o)
    PROVE  w' \in Worker /\ WorkerOK'
<1>1. CASE o.bootstrapped
  BY <1>1, MarkReadyType DEF ToBootstrap
<1>2. CASE ~o.bootstrapped
  <2>1. w' = [w EXCEPT !.pc = "bootstrap", !.obj = o]
    BY <1>2 DEF ToBootstrap
  <2>2. w' \in Worker
    BY <2>1, MoveType
  <2>3. w'.pc = "bootstrap" /\ w'.obj = o /\ w'.m = w.m
    BY <2>1 DEF TypeOK, Worker
  <2> QED
    BY <2>2, <2>3 DEF WorkerOK, TypeOK
<1> QED
  BY <1>1, <1>2

LEMMA BeginType ==
    ASSUME TypeOK, NEW m \in Machines, NEW o \in Object,
           NEW p \in {"lookup", "patchObject", "getNode", "deleteNode", "removeGet"},
           Begin(m, p, o),
           p \in {"getNode", "deleteNode", "removeGet"} => o.instanceID # None,
           p = "removeGet"
             => cluster.exists /\ cluster.lb # None /\ o.address # None
    PROVE  TypeOK'
<1>1. w' \in Worker
  BY DEF TypeOK, Begin, Worker
<1>2. /\ w'.pc = p /\ w'.m = m /\ w'.obj = o
      /\ w'.lb = IF cluster.exists THEN cluster.lb ELSE None
  BY DEF Begin
<1>3. WorkerOK'
  BY <1>2 DEF WorkerOK
<1> QED
  BY <1>1, <1>3 DEF TypeOK, Begin, inputs, cloud

LEMMA IdleType == IdleWorker \in Worker /\ (w' = IdleWorker => WorkerOK')
<1>1. NewObject \in Object
  BY DEF NewObject, Object
<1> QED
  BY <1>1 DEF IdleWorker, Worker, WorkerOK

\* Most steps of a reconciliation change the worker and the cloud only.
LEMMA WorkerFrame ==
    ASSUME TypeOK, w' \in Worker /\ WorkerOK', UNCHANGED <<store, inputs, cloud, workload>>
    PROVE  TypeOK'
  BY DEF TypeOK, inputs, cloud

-----------------------------------------------------------------------------
(***************************************************************************)
(* Type correctness.                                                       *)
(***************************************************************************)

LEMMA ReconcileType ==
    ASSUME TypeOK, NEW m \in Machines, Reconcile(m)
    PROVE  TypeOK'
<1> cache[m] \in Object
  BY DEF TypeOK
<1>1. CASE OwnerNotFound(m)
  BY <1>1, BeginType, ObjectUpdate DEF OwnerNotFound
<1>2. CASE DeleteInstance(m)
  BY <1>2, BeginType DEF DeleteInstance
<1>3. CASE DeleteWithoutInstance(m)
  BY <1>3, BeginType, ObjectUpdate DEF DeleteWithoutInstance
<1>4. CASE AddFinalizer(m)
  BY <1>4, BeginType, ObjectUpdate DEF AddFinalizer
<1>5. CASE StartCreate(m)
  BY <1>5, BeginType DEF StartCreate
<1>6. CASE StartStatus(m)
  BY <1>6, BeginType DEF StartStatus
<1> QED
  BY <1>1, <1>2, <1>3, <1>4, <1>5, <1>6 DEF Reconcile

LEMMA ControllerType ==
    ASSUME TypeOK, Controller
    PROVE  TypeOK'
<1>0. /\ w \in Worker
      /\ w.obj \in Object /\ w.base \in Object
      /\ w.snap \in SUBSET NodeId
      /\ w.pc # "idle" => w.m \in Machines
  BY DEF TypeOK, Worker, WorkerOK
<1>1. CASE \E m \in Machines : Reconcile(m)
  BY <1>1, ReconcileType
<1>2. CASE LookupFound
  <2>1. PICK n \in Live(w.m) : Return([w.obj EXCEPT !.instanceID = n])
    BY <1>2 DEF LookupFound
  <2>2. [w.obj EXCEPT !.instanceID = n] \in Object
    BY <1>0, ObjectUpdate DEF Live
  <2> QED
    BY <1>2, <2>1, <2>2, ReturnType, WorkerFrame DEF LookupFound
<1>3. CASE LookupMissed
  BY <1>3, GotoType, WorkerFrame DEF LookupMissed
<1>4. CASE CreateNode
  <2>1. PICK n \in NodeId :
           /\ Provision(w.m, n)
           /\ Return([w.obj EXCEPT !.instanceID = n]) \/ Return(w.obj)
    BY <1>4 DEF CreateNode
  <2>2. [w.obj EXCEPT !.instanceID = n] \in Object
    BY <1>0, ObjectUpdate
  <2>3. w' \in Worker /\ WorkerOK'
    BY <1>0, <1>4, <2>1, <2>2, ReturnType DEF CreateNode
  <2>4. nodes' \in [NodeId -> Node]
    BY <1>0, <1>4, <2>1, NodeUpdate DEF Provision, CreateNode
  <2> QED
    BY <1>4, <2>3, <2>4 DEF CreateNode, TypeOK, inputs
<1>5. CASE CreateNodeFails
  <2>1. w' \in Worker /\ WorkerOK'
    BY <1>0, <1>5, ReturnType DEF CreateNodeFails
  <2>2. late' \in SUBSET Machines
    BY <1>0, <1>5 DEF CreateNodeFails, TypeOK
  <2> QED
    BY <1>5, <2>1, <2>2 DEF CreateNodeFails, TypeOK, inputs
<1>6. CASE GetNodeNotFound
  <2>1. [w.obj EXCEPT !.failed = TRUE] \in Object
    BY <1>0, ObjectUpdate
  <2> QED
    BY <1>6, <2>1, ReturnType, WorkerFrame DEF GetNodeNotFound
<1>7. CASE GetNodeFails
  BY <1>0, <1>7, ReturnType, WorkerFrame DEF GetNodeFails
<1>8. CASE GetNodeNotRunning
  <2>1. WithAddress(w.obj) \in Object
    BY <1>0, <1>8, WithAddressType DEF TypeOK, WorkerOK, GetNodeNotRunning
  <2> QED
    BY <1>8, <2>1, ReturnType, WorkerFrame DEF GetNodeNotRunning
<1>9. CASE GetNodeRunning
  <2> DEFINE o == WithAddress(w.obj)
  <2>1. o \in Object /\ o.instanceID # None
    BY <1>0, <1>9, WithAddressType DEF TypeOK, WorkerOK, GetNodeRunning
  <2> HIDE DEF o
  <2>2. CASE NeedsBackend(o)
    <3>1. w' = [w EXCEPT !.pc = "addGet", !.obj = o]
      BY <1>9, <2>2 DEF GetNodeRunning, o
    <3>2. w' \in Worker
      BY <2>1, <3>1, MoveType
    <3>3. w'.pc = "addGet" /\ w'.obj = o /\ w'.m = w.m /\ w'.lb = w.lb
      BY <1>0, <3>1 DEF Worker
    <3>4. WorkerOK'
      BY <1>0, <1>9, <2>1, <2>2, <3>3 DEF WorkerOK, GetNodeRunning, NeedsBackend
    <3> QED
      BY <1>9, <3>2, <3>4, WorkerFrame DEF GetNodeRunning
  <2>3. CASE ~NeedsBackend(o)
    BY <1>9, <2>1, <2>3, ToBootstrapType, WorkerFrame DEF GetNodeRunning, o
  <2> QED
    BY <2>2, <2>3
<1>10. CASE AddBackendGet
  <2>1. CASE w.obj.address \in servers[w.lb]
    BY <1>0, <1>10, <2>1, ToBootstrapType, WorkerFrame
    DEF AddBackendGet, TypeOK, WorkerOK
  <2>2. CASE w.obj.address \notin servers[w.lb]
    <3>1. w' = [w EXCEPT !.pc = "addPut", !.snap = servers[w.lb]]
      BY <1>10, <2>2 DEF AddBackendGet
    <3>2. w.lb \in LbId /\ servers[w.lb] \in SUBSET NodeId
      BY <1>0, <1>10 DEF AddBackendGet, TypeOK, WorkerOK, Worker
    <3>3. w' \in Worker
      BY <3>1, <3>2, MoveType
    <3>4. w'.pc = "addPut" /\ w'.obj = w.obj /\ w'.m = w.m /\ w'.lb = w.lb
      BY <1>0, <3>1 DEF Worker
    <3>5. WorkerOK'
      BY <1>10, <3>4 DEF AddBackendGet, WorkerOK, TypeOK
    <3> QED
      BY <1>10, <3>3, <3>5, WorkerFrame DEF AddBackendGet
  <2> QED
    BY <2>1, <2>2
<1>11. CASE AddBackendPut
  <2>1. w' \in Worker /\ WorkerOK'
    BY <1>0, <1>11, ReturnType, ToBootstrapType DEF AddBackendPut, TypeOK, WorkerOK
  <2>2. w.obj.address \in NodeId
    BY <1>0, <1>11 DEF AddBackendPut, TypeOK, WorkerOK, Object
  <2>3. servers' \in [LbId -> SUBSET NodeId]
    BY <1>0, <1>11, <2>2 DEF AddBackendPut, TypeOK
  <2> QED
    BY <1>11, <2>1, <2>3 DEF AddBackendPut, TypeOK, inputs
<1>12. CASE AddBackendFails
  BY <1>0, <1>12, ReturnType, WorkerFrame DEF AddBackendFails
<1>13. CASE BootstrapWaits
  BY <1>0, <1>13, ReturnType, WorkerFrame DEF BootstrapWaits
<1>14. CASE BootstrapRuns
  <2>0. w.obj.instanceID \in NodeId
    BY <1>0, <1>14 DEF BootstrapRuns, TypeOK, WorkerOK, Object
  <2>1. nodes' \in [NodeId -> Node]
    BY <1>14, <2>0, NodeUpdate DEF BootstrapRuns
  <2> DEFINE o == [w.obj EXCEPT !.bootstrapped = TRUE]
  <2>2. o \in Object /\ o.instanceID = w.obj.instanceID
    BY <1>0, ObjectUpdate DEF Object
  <2>3. w.obj.instanceID # None /\ w.pc # "idle"
    BY <1>14 DEF BootstrapRuns, TypeOK, WorkerOK
  <2>4. MarkReady(o) \/ Goto("tagNode") \/ Return(w.obj)
    BY <1>14 DEF BootstrapRuns
  <2> HIDE DEF o
  <2>5. w' \in Worker /\ WorkerOK'
    BY <1>0, <2>2, <2>3, <2>4, MarkReadyType, GotoType, ReturnType
  <2> QED
    BY <1>14, <2>1, <2>5 DEF BootstrapRuns, TypeOK, inputs
<1>15. CASE TagNode \/ TagNodeFails
  <2> DEFINE o == [w.obj EXCEPT !.bootstrapped = TRUE]
  <2>1. o \in Object /\ o.instanceID = w.obj.instanceID
    BY <1>0, ObjectUpdate DEF Object
  <2>2. w.obj.instanceID # None /\ w.pc # "idle" /\ MarkReady(o)
    BY <1>15 DEF TagNode, TagNodeFails, TypeOK, WorkerOK
  <2> HIDE DEF o
  <2>3. w' \in Worker /\ WorkerOK'
    BY <2>1, <2>2, MarkReadyType
  <2>4. workload' \in [Machines -> WorkloadNode]
    BY <1>0, <1>15, <2>2 DEF TagNode, TagNodeFails, Tag, TypeOK, WorkloadNode, Object
  <2> QED
    BY <1>15, <2>3, <2>4 DEF TagNode, TagNodeFails, TypeOK, inputs, cloud
<1>16. CASE EnsureControlPlaneNode
  <2>1. w' \in Worker /\ WorkerOK'
    BY <1>0, <1>16, ReturnType DEF EnsureControlPlaneNode
  <2>2. w.obj.instanceID \in NodeId
    BY <1>0, <1>16 DEF EnsureControlPlaneNode, TypeOK, WorkerOK, Object
  <2>3. workload' \in [Machines -> WorkloadNode]
    BY <1>16, <2>2 DEF EnsureControlPlaneNode, Tag, TypeOK, WorkloadNode
  <2> QED
    BY <1>16, <2>1, <2>3 DEF EnsureControlPlaneNode, TypeOK, inputs, cloud
<1>17. CASE EnsureControlPlaneNodeFails
  BY <1>0, <1>17, ReturnType, WorkerFrame DEF EnsureControlPlaneNodeFails
<1>18. CASE RemoveBackendGet
  <2>1. w' = [w EXCEPT !.pc = "removePut", !.snap = servers[w.lb]]
    BY <1>18 DEF RemoveBackendGet
  <2>2. w.lb \in LbId /\ servers[w.lb] \in SUBSET NodeId
    BY <1>0, <1>18 DEF RemoveBackendGet, TypeOK, WorkerOK, Worker
  <2>3. w' \in Worker
    BY <2>1, <2>2, MoveType
  <2>4. w'.pc = "removePut" /\ w'.obj = w.obj /\ w'.m = w.m /\ w'.lb = w.lb
    BY <1>0, <2>1 DEF Worker
  <2>5. WorkerOK'
    BY <1>18, <2>4 DEF RemoveBackendGet, WorkerOK, TypeOK
  <2> QED
    BY <1>18, <2>3, <2>5, WorkerFrame DEF RemoveBackendGet
<1>19. CASE RemoveBackendPut
  <2>1. w' \in Worker /\ WorkerOK'
    BY <1>19, GotoType DEF RemoveBackendPut, TypeOK, WorkerOK
  <2>2. servers' \in [LbId -> SUBSET NodeId]
    BY <1>0, <1>19 DEF RemoveBackendPut, TypeOK
  <2> QED
    BY <1>19, <2>1, <2>2 DEF RemoveBackendPut, TypeOK, inputs
<1>20. CASE RemoveBackendFails
  BY <1>20, GotoType, WorkerFrame DEF RemoveBackendFails, TypeOK, WorkerOK
<1>21. CASE DeleteNode
  <2>1. [w.obj EXCEPT !.finalizer = FALSE] \in Object
    BY <1>0, ObjectUpdate
  <2>2. w' \in Worker /\ WorkerOK'
    BY <1>0, <1>21, <2>1, ReturnType DEF DeleteNode
  <2>3. w.obj.instanceID \in NodeId
    BY <1>0, <1>21 DEF DeleteNode, TypeOK, WorkerOK, Object
  <2>4. nodes' \in [NodeId -> Node]
    BY <1>21, <2>3, NodeUpdate DEF DeleteNode
  <2> QED
    BY <1>21, <2>2, <2>4 DEF DeleteNode, TypeOK, inputs
<1>22. CASE DeleteNodeFails
  BY <1>0, <1>22, ReturnType, WorkerFrame DEF DeleteNodeFails
<1>23. CASE PatchObject
  <2>1. w' \in Worker /\ WorkerOK'
    BY <1>23, GotoType DEF PatchObject
  <2>2. PatchedObject(w.base, w.obj, store[w.m]) \in Object
    BY <1>0, <1>23, PatchedType DEF PatchObject, TypeOK
  <2>3. store' \in [Machines -> Object]
    BY <2>2, <1>23 DEF PatchObject, Patch, TypeOK
  <2> QED
    BY <1>23, <2>1, <2>3 DEF PatchObject, TypeOK, inputs, cloud
<1>24. CASE PatchObjectFails
  BY <1>24, GotoType, WorkerFrame DEF PatchObjectFails
<1>25. CASE PatchStatus
  <2>1. w' \in Worker /\ WorkerOK'
    BY <1>25, IdleType DEF PatchStatus
  <2>2. PatchedStatus(w.base, w.obj, store[w.m]) \in Object
    BY <1>0, <1>25, PatchedType DEF PatchStatus, TypeOK
  <2>3. store' \in [Machines -> Object]
    BY <2>2, <1>25 DEF PatchStatus, Patch, TypeOK
  <2> QED
    BY <1>25, <2>1, <2>3 DEF PatchStatus, TypeOK, inputs, cloud
<1>26. CASE PatchStatusFails
  BY <1>26, IdleType, WorkerFrame DEF PatchStatusFails
<1> QED
  BY <1>1, <1>2, <1>3, <1>4, <1>5, <1>6, <1>7, <1>8, <1>9, <1>10, <1>11,
     <1>12, <1>13, <1>14, <1>15, <1>16, <1>17, <1>18, <1>19, <1>20, <1>21,
     <1>22, <1>23, <1>24, <1>25, <1>26 DEF Controller

LEMMA EnvironmentType ==
    ASSUME TypeOK, Environment
    PROVE  TypeOK'
<1>1. ASSUME NEW m \in Machines, CacheSync(m) PROVE TypeOK'
  <2>1. cache' \in [Machines -> Object]
    BY <1>1 DEF CacheSync, TypeOK
  <2> QED
    BY <1>1, <2>1 DEF CacheSync, TypeOK, WorkerOK, cloud
<1>2. ASSUME NEW m \in Machines, AdoptMachine(m) \/ UserDelete(m) PROVE TypeOK'
  <2>1. /\ [store[m] EXCEPT !.owned = TRUE] \in Object
        /\ [store[m] EXCEPT !.deleting = store[m].finalizer,
                            !.exists = store[m].finalizer] \in Object
    <3>1. store[m] \in Object
      BY DEF TypeOK
    <3> QED
      BY <3>1 DEF Object
  <2>2. store' \in [Machines -> Object]
    BY <1>2, <2>1 DEF AdoptMachine, UserDelete, TypeOK
  <2> QED
    BY <1>2, <2>2 DEF AdoptMachine, UserDelete, TypeOK, WorkerOK, inputs, cloud
<1>3. ASSUME NEW m \in Machines, DataReady(m) \/ OwnerLost(m) PROVE TypeOK'
  <2>1. [owner[m] EXCEPT !.data = TRUE] \in [exists : BOOLEAN, data : BOOLEAN]
    BY DEF TypeOK
  <2>2. owner' \in [Machines -> [exists : BOOLEAN, data : BOOLEAN]]
    <3>1. CASE DataReady(m)
      BY <3>1, <2>1 DEF DataReady, TypeOK
    <3>2. CASE OwnerLost(m)
      BY <3>2 DEF OwnerLost, TypeOK
    <3> QED
      BY <1>3, <3>1, <3>2
  <2> QED
    BY <1>3, <2>2 DEF DataReady, OwnerLost, TypeOK, WorkerOK, cloud
<1>4. ASSUME NEW m \in Machines, LateCreate(m) PROVE TypeOK'
  <2>1. nodes' \in [NodeId -> Node]
    <3>1. CASE UNCHANGED nodes
      BY <3>1 DEF TypeOK
    <3>2. ASSUME NEW n \in NodeId, Provision(m, n)
          PROVE  nodes' \in [NodeId -> Node]
      BY <3>2, NodeUpdate DEF Provision
    <3> QED
      BY <1>4, <3>1, <3>2 DEF LateCreate
  <2>2. late' \in SUBSET Machines
    BY <1>4 DEF LateCreate, TypeOK
  <2> QED
    BY <1>4, <2>1, <2>2 DEF LateCreate, TypeOK, WorkerOK, inputs
<1>5. ASSUME NEW m \in Machines, KubeletRegisters(m) PROVE TypeOK'
  BY <1>5 DEF KubeletRegisters, TypeOK, WorkerOK, WorkloadNode, inputs, cloud
<1>6. ASSUME NEW n \in NodeId,
             NodeStarts(n) \/ NodeGetsIP(n) \/ NodeLosesIP(n) \/ NodeLost(n)
      PROVE  TypeOK'
  <2>1. nodes' \in [NodeId -> Node]
    <3>1. CASE NodeStarts(n)
      <4>1. /\ [nodes EXCEPT ![n] = [@ EXCEPT !.status = "Running", !.ip = TRUE]]
                  \in [NodeId -> Node]
            /\ [nodes EXCEPT ![n].status = "Running"] \in [NodeId -> Node]
        BY NodeUpdate
      <4> QED
        BY <3>1, <4>1 DEF NodeStarts
    <3>2. CASE NodeGetsIP(n) \/ NodeLosesIP(n)
      <4>1. /\ [nodes EXCEPT ![n].ip = TRUE] \in [NodeId -> Node]
            /\ [nodes EXCEPT ![n].ip = FALSE] \in [NodeId -> Node]
        BY NodeUpdate
      <4> QED
        BY <3>2, <4>1 DEF NodeGetsIP, NodeLosesIP
    <3>3. CASE NodeLost(n)
      <4>1. PICK s \in {"Stopped", "deleted"} :
               nodes' = [nodes EXCEPT ![n].status = s]
        BY <3>3 DEF NodeLost
      <4>2. [nodes EXCEPT ![n].status = s] \in [NodeId -> Node]
        BY NodeUpdate
      <4> QED
        BY <4>1, <4>2
    <3> QED
      BY <1>6, <3>1, <3>2, <3>3
  <2> QED
    BY <1>6, <2>1 DEF NodeStarts, NodeGetsIP, NodeLosesIP, NodeLost, TypeOK, WorkerOK, inputs
<1>7. CASE Crash
  BY <1>7, IdleType DEF Crash, TypeOK, WorkerOK
<1>8. CASE ClusterStep
  BY <1>8 DEF ClusterStep, MachinesUnchanged, Contract!LBCreated,
              Contract!LBRecorded, Contract!LBVanishes, Contract!BackendsCleared,
              Contract!LBForgotten, Contract!ClusterReady, Contract!ClusterRemoved,
              TypeOK, WorkerOK
<1>9. CASE TogglePause
  BY <1>9 DEF TogglePause, TypeOK, WorkerOK, cloud
<1> QED
  BY <1>1, <1>2, <1>3, <1>4, <1>5, <1>6, <1>7, <1>8, <1>9
  DEF Environment

\* Every variable keeps its type and no step uses an ID that is not set.
THEOREM TypeCorrect == Spec => []TypeOK
<1>1. TypeOK /\ [Next]_vars => TypeOK'
  <2> SUFFICES ASSUME TypeOK, [Next]_vars PROVE TypeOK'
    OBVIOUS
  <2>1. CASE UNCHANGED vars
    BY <2>1 DEF vars, TypeOK, WorkerOK
  <2> QED
    BY <2>1, ControllerType, EnvironmentType DEF Next
<1> QED
  BY InitType, <1>1, PTL DEF Spec

-----------------------------------------------------------------------------
(***************************************************************************)
(* What a reconciliation keeps between its first read and its patch.       *)
(***************************************************************************)

\* The steps between the two.
Middle ==
    \/ LookupFound
    \/ LookupMissed
    \/ CreateNode
    \/ CreateNodeFails
    \/ GetNodeNotFound
    \/ GetNodeFails
    \/ GetNodeNotRunning
    \/ GetNodeRunning
    \/ AddBackendGet
    \/ AddBackendPut
    \/ AddBackendFails
    \/ BootstrapWaits
    \/ BootstrapRuns
    \/ TagNode
    \/ TagNodeFails
    \/ EnsureControlPlaneNode
    \/ EnsureControlPlaneNodeFails
    \/ RemoveBackendGet
    \/ RemoveBackendPut
    \/ RemoveBackendFails
    \/ DeleteNode
    \/ DeleteNodeFails

\* Such a step keeps the object read, and changes its copy in memory in the
\* finalizer or in the instance ID only where it says so.
Keeps ==
    /\ UNCHANGED <<store, cache, owner>>
    /\ w'.m = w.m
    /\ w'.base = w.base
    /\ w.pc # "idle"
    /\ w'.pc # "idle"
    /\ w'.pc \in {"lookup", "create"} => w.pc = "lookup"
    /\ w'.pc \in {"removeGet", "removePut", "deleteNode"}
         => w.pc \in {"removeGet", "removePut"}
    /\ w'.obj.finalizer = w.obj.finalizer \/ w.pc = "deleteNode"
    /\ w'.obj.instanceID = w.obj.instanceID \/ w.pc \in {"lookup", "create"}

LEMMA ReturnKeeps ==
    ASSUME TypeOK, NEW o \in Object, Return(o)
    PROVE  w'.pc = "patchObject" /\ w'.obj = o /\ w'.m = w.m /\ w'.base = w.base
  BY DEF Return, TypeOK, Worker

LEMMA MarkReadyKeeps ==
    ASSUME TypeOK, NEW o \in Object, MarkReady(o)
    PROVE  /\ w'.pc \in {"cpNode", "patchObject"}
           /\ w'.obj.finalizer = o.finalizer /\ w'.obj.instanceID = o.instanceID
           /\ w'.m = w.m /\ w'.base = w.base
  BY DEF MarkReady, TypeOK, Worker, Object

LEMMA ToBootstrapKeeps ==
    ASSUME TypeOK, NEW o \in Object, ToBootstrap(o)
    PROVE  /\ w'.pc \in {"bootstrap", "cpNode", "patchObject"}
           /\ w'.obj.finalizer = o.finalizer /\ w'.obj.instanceID = o.instanceID
           /\ w'.m = w.m /\ w'.base = w.base
<1>1. CASE o.bootstrapped
  BY <1>1, MarkReadyKeeps DEF ToBootstrap
<1>2. CASE ~o.bootstrapped
  BY <1>2 DEF ToBootstrap, TypeOK, Worker
<1> QED
  BY <1>1, <1>2

LEMMA GotoKeeps ==
    ASSUME TypeOK, NEW p, Goto(p)
    PROVE  w'.pc = p /\ w'.obj = w.obj /\ w'.m = w.m /\ w'.base = w.base
  BY DEF Goto, TypeOK, Worker

LEMMA MiddleKeeps ==
    ASSUME TypeOK, Middle
    PROVE  Keeps
<1>0. w \in Worker /\ w.obj \in Object
  BY DEF TypeOK, Worker
<1>1. CASE LookupFound
  <2>1. PICK n \in Live(w.m) : Return([w.obj EXCEPT !.instanceID = n])
    BY <1>1 DEF LookupFound
  <2>2. /\ [w.obj EXCEPT !.instanceID = n] \in Object
        /\ [w.obj EXCEPT !.instanceID = n].finalizer = w.obj.finalizer
    BY <1>0 DEF Live, Object
  <2> QED
    BY <1>1, <2>1, <2>2, ReturnKeeps DEF LookupFound, Keeps, inputs
<1>2. CASE LookupMissed
  BY <1>2, GotoKeeps DEF LookupMissed, Keeps, inputs
<1>3. CASE CreateNode
  <2>1. PICK n \in NodeId :
           Return([w.obj EXCEPT !.instanceID = n]) \/ Return(w.obj)
    BY <1>3 DEF CreateNode
  <2>2. /\ [w.obj EXCEPT !.instanceID = n] \in Object
        /\ [w.obj EXCEPT !.instanceID = n].finalizer = w.obj.finalizer
    BY <1>0 DEF Object
  <2> QED
    BY <1>0, <1>3, <2>1, <2>2, ReturnKeeps DEF CreateNode, Keeps, inputs
<1>4. CASE GetNodeNotFound
  <2>1. /\ [w.obj EXCEPT !.failed = TRUE] \in Object
        /\ [w.obj EXCEPT !.failed = TRUE].finalizer = w.obj.finalizer
        /\ [w.obj EXCEPT !.failed = TRUE].instanceID = w.obj.instanceID
    BY <1>0 DEF Object
  <2> QED
    BY <1>4, <2>1, ReturnKeeps DEF GetNodeNotFound, Keeps, inputs
<1>5. CASE GetNodeNotRunning \/ GetNodeRunning
  <2> DEFINE o == WithAddress(w.obj)
  <2>1. o \in Object
    BY <1>0, <1>5, WithAddressType
    DEF GetNodeNotRunning, GetNodeRunning, TypeOK, WorkerOK
  <2>2. o.finalizer = w.obj.finalizer /\ o.instanceID = w.obj.instanceID
    BY <1>0 DEF WithAddress, Object
  <2>3. \/ Return(o)
        \/ ToBootstrap(o)
        \/ w' = [w EXCEPT !.pc = "addGet", !.obj = o]
    BY <1>5 DEF GetNodeNotRunning, GetNodeRunning
  <2> HIDE DEF o
  <2>4. /\ w'.pc \in {"addGet", "bootstrap", "cpNode", "patchObject"}
        /\ w'.obj.finalizer = o.finalizer /\ w'.obj.instanceID = o.instanceID
        /\ w'.m = w.m /\ w'.base = w.base
    BY <1>0, <2>1, <2>3, ReturnKeeps, ToBootstrapKeeps DEF Worker
  <2> QED
    BY <1>5, <2>2, <2>4 DEF GetNodeNotRunning, GetNodeRunning, Keeps, inputs
<1>6. CASE AddBackendGet \/ AddBackendPut
  <2>1. \/ Return(w.obj)
        \/ ToBootstrap(w.obj)
        \/ w' = [w EXCEPT !.pc = "addPut", !.snap = servers[w.lb]]
    BY <1>6 DEF AddBackendGet, AddBackendPut
  <2>2. /\ w'.pc \in {"addPut", "bootstrap", "cpNode", "patchObject"}
        /\ w'.obj.finalizer = w.obj.finalizer
        /\ w'.obj.instanceID = w.obj.instanceID
        /\ w'.m = w.m /\ w'.base = w.base
    BY <1>0, <2>1, ReturnKeeps, ToBootstrapKeeps DEF Worker
  <2> QED
    BY <1>6, <2>2 DEF AddBackendGet, AddBackendPut, Keeps, inputs
<1>7. CASE BootstrapRuns \/ TagNode \/ TagNodeFails
  <2> DEFINE o == [w.obj EXCEPT !.bootstrapped = TRUE]
  <2>1. /\ o \in Object
        /\ o.finalizer = w.obj.finalizer /\ o.instanceID = w.obj.instanceID
    BY <1>0 DEF Object
  <2>2. MarkReady(o) \/ Goto("tagNode") \/ Return(w.obj)
    BY <1>7 DEF BootstrapRuns, TagNode, TagNodeFails
  <2> HIDE DEF o
  <2>3. /\ w'.pc \in {"tagNode", "cpNode", "patchObject"}
        /\ w'.obj.finalizer = w.obj.finalizer
        /\ w'.obj.instanceID = w.obj.instanceID
        /\ w'.m = w.m /\ w'.base = w.base
    BY <1>0, <2>1, <2>2, ReturnKeeps, MarkReadyKeeps, GotoKeeps
  <2> QED
    BY <1>7, <2>3 DEF BootstrapRuns, TagNode, TagNodeFails, Keeps, inputs
<1>8. CASE RemoveBackendGet
  <2>1. w' = [w EXCEPT !.pc = "removePut", !.snap = servers[w.lb]]
    BY <1>8 DEF RemoveBackendGet
  <2>2. w'.pc = "removePut" /\ w'.obj = w.obj /\ w'.m = w.m /\ w'.base = w.base
    BY <1>0, <2>1 DEF Worker
  <2> QED
    BY <1>8, <2>2 DEF RemoveBackendGet, Keeps, inputs
<1>9. CASE RemoveBackendPut \/ RemoveBackendFails
  BY <1>9, GotoKeeps DEF RemoveBackendPut, RemoveBackendFails, Keeps, inputs
<1>10. CASE DeleteNode
  <2>1. /\ [w.obj EXCEPT !.finalizer = FALSE] \in Object
        /\ [w.obj EXCEPT !.finalizer = FALSE].instanceID = w.obj.instanceID
    BY <1>0 DEF Object
  <2> QED
    BY <1>0, <1>10, <2>1, ReturnKeeps DEF DeleteNode, Keeps, inputs
<1>11. CASE \/ CreateNodeFails \/ GetNodeFails \/ AddBackendFails
            \/ BootstrapWaits \/ EnsureControlPlaneNode
            \/ EnsureControlPlaneNodeFails \/ DeleteNodeFails
  BY <1>0, <1>11, ReturnKeeps
  DEF CreateNodeFails, GetNodeFails, AddBackendFails, BootstrapWaits,
      EnsureControlPlaneNode, EnsureControlPlaneNodeFails, DeleteNodeFails,
      Keeps, inputs
<1> QED
  BY <1>1, <1>2, <1>3, <1>4, <1>5, <1>6, <1>7, <1>8, <1>9, <1>10, <1>11
  DEF Middle

-----------------------------------------------------------------------------
(***************************************************************************)
(* The finalizer.                                                          *)
(***************************************************************************)

LEMMA InitFinalizer == Init => FinalizerInv
  BY DEF Init, FinalizerInv, CreateUnderFinalizer, NewObject, IdleWorker

LEMMA ReconcileFinalizer ==
    ASSUME TypeOK, FinalizerInv, NEW m \in Machines, Reconcile(m)
    PROVE  FinalizerInv'
<1>0. cache[m] \in Object /\ w.pc = "idle"
  BY DEF TypeOK, Reconcile, OwnerNotFound, DeleteInstance, DeleteWithoutInstance,
         AddFinalizer, StartCreate, StartStatus, Deleting, Active, Reading
<1> SUFFICES ASSUME NEW p \in {"lookup", "patchObject", "getNode", "deleteNode",
                               "removeGet"},
                    NEW o \in Object, Begin(m, p, o),
                    cache[m].finalizer /\ ~o.finalizer
                      => cache[m].deleting \/ ~owner[m].exists,
                    p \in {"removeGet", "deleteNode"} => cache[m].deleting,
                    p = "lookup" => /\ owner[m].exists /\ cache[m].exists
                                    /\ cache[m].finalizer /\ ~cache[m].deleting
             PROVE  FinalizerInv'
  <2>1. CASE OwnerNotFound(m)
    BY <1>0, <2>1, ObjectUpdate DEF OwnerNotFound
  <2>2. CASE DeleteInstance(m)
    BY <1>0, <2>2 DEF DeleteInstance, Deleting
  <2>3. CASE DeleteWithoutInstance(m)
    BY <1>0, <2>3, ObjectUpdate DEF DeleteWithoutInstance, Deleting
  <2>4. CASE AddFinalizer(m)
    <3>1. [cache[m] EXCEPT !.finalizer = TRUE].finalizer
      BY <1>0 DEF Object
    <3> QED
      BY <1>0, <2>4, <3>1, ObjectUpdate DEF AddFinalizer
  <2>5. CASE StartCreate(m)
    BY <1>0, <2>5 DEF StartCreate, Active, Reading
  <2>6. CASE StartStatus(m)
    BY <1>0, <2>6 DEF StartStatus
  <2> QED
    BY <2>1, <2>2, <2>3, <2>4, <2>5, <2>6 DEF Reconcile
<1>1. w'.pc = p /\ w'.m = m /\ w'.base = cache[m] /\ w'.obj = o
  BY DEF Begin
<1>2. UNCHANGED <<store, cache, owner>>
  BY DEF Begin, inputs
<1> QED
  BY <1>1, <1>2 DEF FinalizerInv, CreateUnderFinalizer

\* The patch takes a finalizer off only for a deletion or a lost owner.
LEMMA PatchFinalizer ==
    ASSUME TypeOK, FinalizerInv, PatchObject \/ PatchStatus
    PROVE  FinalizerInv'
<1> DEFINE x == IF PatchObject THEN PatchedObject(w.base, w.obj, store[w.m])
                               ELSE PatchedStatus(w.base, w.obj, store[w.m])
<1>0. /\ w \in Worker /\ w.m \in Machines /\ store[w.m] \in Object
      /\ w.base \in Object /\ w.obj \in Object /\ w.pc # "idle"
  BY DEF TypeOK, WorkerOK, Worker, PatchObject, PatchStatus
<1>1. /\ x.deleting = store[w.m].deleting
      /\ ~(w.base.finalizer /\ ~w.obj.finalizer)
           => (store[w.m].exists /\ store[w.m].finalizer => x.exists /\ x.finalizer)
  <2>1. CASE PatchObject
    BY <1>0, <2>1 DEF PatchedObject, Merged, Object
  <2>2. CASE ~PatchObject
    BY <1>0, <2>2 DEF PatchedStatus, Merged, Object
  <2> QED
    BY <2>1, <2>2
<1>2. store' = store \/ store' = [store EXCEPT ![w.m] = x]
  BY DEF PatchObject, PatchStatus, Patch
<1>3. UNCHANGED <<cache, owner>>
  BY DEF PatchObject, PatchStatus, inputs
<1>4. /\ w'.pc \in {"idle", "patchStatus"}
      /\ w'.pc # "idle" => w'.m = w.m /\ w'.base = w.base /\ w'.obj = w.obj
  BY GotoKeeps DEF PatchObject, PatchStatus, IdleWorker
<1> HIDE DEF x
<1>5. ASSUME NEW m \in Machines
      PROVE  /\ cache'[m].deleting => store'[m].deleting
             /\ owner'[m].exists /\ cache'[m].exists /\ cache'[m].finalizer
                   /\ ~cache'[m].deleting
                => store'[m].exists /\ store'[m].finalizer
  BY <1>0, <1>1, <1>2, <1>3 DEF FinalizerInv, TypeOK
<1> QED
  BY <1>0, <1>3, <1>4, <1>5 DEF FinalizerInv, CreateUnderFinalizer

LEMMA ControllerFinalizer ==
    ASSUME TypeOK, FinalizerInv, Controller
    PROVE  FinalizerInv'
<1>1. CASE \E m \in Machines : Reconcile(m)
  BY <1>1, ReconcileFinalizer
<1>2. CASE Middle
  <2>1. Keeps
    BY <1>2, MiddleKeeps
  <2>2. w.m \in Machines
    BY <2>1 DEF Keeps, TypeOK, WorkerOK
  <2>3. UNCHANGED <<store, cache, owner>>
    BY <2>1 DEF Keeps
  <2> QED
    BY <2>1, <2>2, <2>3 DEF Keeps, FinalizerInv, CreateUnderFinalizer
<1>3. CASE PatchObject \/ PatchStatus
  BY <1>3, PatchFinalizer
<1>4. CASE PatchObjectFails
  BY <1>4, GotoKeeps
  DEF PatchObjectFails, FinalizerInv, CreateUnderFinalizer, inputs
<1>5. CASE PatchStatusFails
  BY <1>5 DEF PatchStatusFails, FinalizerInv, CreateUnderFinalizer, IdleWorker, inputs
<1> QED
  BY <1>1, <1>2, <1>3, <1>4, <1>5 DEF Controller, Middle

LEMMA EnvironmentFinalizer ==
    ASSUME TypeOK, FinalizerInv, Environment
    PROVE  FinalizerInv'
<1>1. ASSUME NEW m \in Machines, CacheSync(m) PROVE FinalizerInv'
  BY <1>1 DEF CacheSync, FinalizerInv, CreateUnderFinalizer, TypeOK
<1>2. ASSUME NEW m \in Machines, AdoptMachine(m) PROVE FinalizerInv'
  <2>1. /\ store'[m].exists = store[m].exists
        /\ store'[m].deleting = store[m].deleting
        /\ store'[m].finalizer = store[m].finalizer
        /\ \A k \in Machines : k # m => store'[k] = store[k]
    BY <1>2 DEF AdoptMachine, TypeOK, Object
  <2>2. UNCHANGED <<cache, owner, w>>
    BY <1>2 DEF AdoptMachine, inputs
  <2> QED
    BY <2>1, <2>2 DEF FinalizerInv, CreateUnderFinalizer, TypeOK, WorkerOK
<1>3. ASSUME NEW m \in Machines, UserDelete(m) PROVE FinalizerInv'
  <2>1. /\ store'[m].exists = store[m].finalizer
        /\ store'[m].deleting = store[m].finalizer
        /\ store'[m].finalizer = store[m].finalizer
        /\ store[m].exists /\ ~store[m].deleting
        /\ \A k \in Machines : k # m => store'[k] = store[k]
    BY <1>3 DEF UserDelete, TypeOK, Object
  <2>2. UNCHANGED <<cache, owner, w>>
    BY <1>3 DEF UserDelete, inputs
  <2> QED
    BY <2>1, <2>2 DEF FinalizerInv, CreateUnderFinalizer, TypeOK, WorkerOK
<1>4. ASSUME NEW m \in Machines, DataReady(m) \/ OwnerLost(m)
      PROVE  FinalizerInv'
  <2>1. \A k \in Machines : owner'[k].exists => owner[k].exists
    BY <1>4 DEF DataReady, OwnerLost, TypeOK
  <2>2. UNCHANGED <<store, cache, w>>
    BY <1>4 DEF DataReady, OwnerLost
  <2> QED
    BY <2>1, <2>2 DEF FinalizerInv, CreateUnderFinalizer, TypeOK, WorkerOK
<1>5. CASE Crash
  BY <1>5 DEF Crash, IdleWorker, FinalizerInv, CreateUnderFinalizer
<1>6. CASE UNCHANGED <<store, cache, owner, w>>
  BY <1>6 DEF FinalizerInv, CreateUnderFinalizer
<1>7. \/ \E m \in Machines : \/ CacheSync(m) \/ AdoptMachine(m) \/ UserDelete(m)
                             \/ DataReady(m) \/ OwnerLost(m)
      \/ Crash
      \/ UNCHANGED <<store, cache, owner, w>>
  BY DEF Environment, LateCreate, KubeletRegisters, NodeStarts, NodeGetsIP, NodeLosesIP, NodeLost,
         ClusterStep, MachinesUnchanged, TogglePause, inputs
<1> QED
  BY <1>1, <1>2, <1>3, <1>4, <1>5, <1>6, <1>7

LEMMA FinalizerStep ==
    ASSUME TypeOK, FinalizerInv, [Next]_vars
    PROVE  FinalizerInv'
<1>1. CASE UNCHANGED vars
  BY <1>1 DEF vars, FinalizerInv, CreateUnderFinalizer
<1> QED
  BY <1>1, ControllerFinalizer, EnvironmentFinalizer DEF Next

\* As long as its owner is there, an object that the cache shows with the
\* finalizer and undeleted has the finalizer in the API server, however far the
\* cache lags, and a reconciliation takes the finalizer off only for a deletion
\* that it read or an owner that is lost (FinalizerInv of the runs).
THEOREM FinalizerOutlivesTheCache == Spec => []FinalizerInv
<1>1. TypeOK /\ FinalizerInv /\ [Next]_vars => FinalizerInv'
  BY FinalizerStep
<1> QED
  BY InitFinalizer, TypeCorrect, <1>1, PTL DEF Spec

\* Whatever fails, is lost or is stale, a create request is sent only for an
\* object that the API server holds with the finalizer on it.
THEOREM FinalizerBeforeCreate == Spec => []CreateUnderFinalizer
<1>1. FinalizerInv => CreateUnderFinalizer
  BY DEF FinalizerInv
<1> QED
  BY FinalizerOutlivesTheCache, <1>1, PTL

-----------------------------------------------------------------------------
(***************************************************************************)
(* Whose node it is.                                                       *)
(***************************************************************************)

LEMMA InitOwnership == Init => OwnershipInv
  BY DEF Init, OwnershipInv, InstanceIsOwn, NewObject, IdleWorker

NamesOK == \A n \in NodeId : nodes[n].status = "absent" <=> nodes[n].name = None

\* A name once given to an ID stays with it.
NamesKept == \A n \in NodeId : nodes[n].name # None => nodes'[n].name = nodes[n].name

LEMMA ProvisionNames ==
    ASSUME TypeOK, NamesOK, NEW m \in Machines, NEW n \in NodeId, Provision(m, n)
    PROVE  NamesKept /\ NamesOK' /\ nodes'[n].name = m
<1>1. /\ nodes'[n].name = m /\ nodes'[n].status = "Creating"
      /\ \A k \in NodeId : k # n => nodes'[k] = nodes[k]
  BY DEF Provision, TypeOK, Node
<1>2. nodes[n].name = None /\ m # None
  BY ConstantAssumption DEF Provision, NamesOK
<1> QED
  BY <1>1, <1>2 DEF NamesKept, NamesOK

\* Any other change of a node leaves its name and never makes it unused.
LEMMA StatusNames ==
    ASSUME TypeOK, NamesOK, NEW n \in NodeId, NEW x \in Node,
           nodes' = [nodes EXCEPT ![n] = x],
           x.name = nodes[n].name,
           x.status = "absent" <=> nodes[n].status = "absent"
    PROVE  NamesKept /\ NamesOK'
<1>1. nodes'[n] = x /\ \A k \in NodeId : k # n => nodes'[k] = nodes[k]
  BY DEF TypeOK
<1> QED
  BY <1>1 DEF NamesKept, NamesOK

LEMMA SameNames ==
    ASSUME NamesOK, UNCHANGED nodes
    PROVE  NamesKept /\ NamesOK'
  BY DEF NamesOK, NamesKept

\* The ID a reconciliation deletes or bootstraps is that of a node in use.
LEMMA OwnedNode ==
    ASSUME TypeOK, OwnershipInv,
           w.pc \in {"bootstrap", "deleteNode"}
    PROVE  /\ w.obj.instanceID \in NodeId
           /\ nodes[w.obj.instanceID].name = w.m
           /\ nodes[w.obj.instanceID].status # "absent"
<1>1. w.obj.instanceID \in NodeId /\ w.m \in Machines
  BY DEF TypeOK, WorkerOK, Worker, Object
<1> QED
  BY <1>1, ConstantAssumption DEF OwnershipInv, InstanceIsOwn

\* A change of a node that neither uses its ID for the first time nor brings
\* the node back to life.  Only a script makes it a booted one, only a request or
\* a loss deletes it, and it starts with its private IP and keeps it unless that
\* is one of the faults.
Wears(n, x) ==
    /\ nodes' = [nodes EXCEPT ![n] = x]
    /\ x.name = nodes[n].name
    /\ nodes[n].status # "absent"
    /\ x.status # "absent"
    /\ x.status # "deleted" => nodes[n].status # "deleted"
    /\ "noPrivateIP" \notin Faults => (nodes[n].ip => x.ip)
    /\ \/ x.booted = nodes[n].booted
       \/ BootstrapRuns /\ n = w.obj.instanceID /\ x.booted
    /\ x.status = "deleted"
         => \/ nodes[n].status = "deleted"
            \/ DeleteNode /\ n = w.obj.instanceID
            \/ "nodeLoss" \in Faults
    /\ x.status = "Running"
         => \/ x.ip
            \/ "noPrivateIP" \in Faults
            \/ nodes[n].status = "Running" /\ ~nodes[n].ip

LEMMA NodeChanges ==
    ASSUME TypeOK, OwnershipInv, [Next]_vars
    PROVE  \/ CreateNode
           \/ \E m \in Machines : LateCreate(m)
           \/ \E n \in NodeId : \E x \in Node : Wears(n, x)
           \/ UNCHANGED nodes
<1>1. CASE BootstrapRuns
  <2> DEFINE n == w.obj.instanceID
             x == [nodes[n] EXCEPT !.booted = TRUE]
  <2>1. /\ n \in NodeId /\ nodes' = [nodes EXCEPT ![n] = x]
        /\ nodes[n].status = "Running" /\ nodes[n] \in Node
    BY <1>1, OwnedNode DEF BootstrapRuns, TypeOK
  <2>2. /\ x \in Node /\ x.name = nodes[n].name /\ x.status = nodes[n].status
        /\ x.booted /\ x.ip = nodes[n].ip
    BY <2>1 DEF Node
  <2>3. nodes[n].ip \in BOOLEAN
    BY <2>1 DEF Node
  <2>4. n = w.obj.instanceID
    OBVIOUS
  <2> HIDE DEF n, x
  <2> QED
    BY <1>1, <2>1, <2>2, <2>3, <2>4 DEF Wears
<1>2. CASE DeleteNode
  <2> DEFINE n == w.obj.instanceID
             x == [nodes[n] EXCEPT !.status = "deleted"]
  <2>1. /\ n \in NodeId /\ nodes' = [nodes EXCEPT ![n] = x]
        /\ nodes[n].status # "absent" /\ nodes[n] \in Node
    BY <1>2, OwnedNode DEF DeleteNode, TypeOK
  <2>2. /\ x \in Node /\ x.name = nodes[n].name /\ x.status = "deleted"
        /\ x.booted = nodes[n].booted /\ x.ip = nodes[n].ip
    BY <2>1 DEF Node
  <2>3. n = w.obj.instanceID
    OBVIOUS
  <2> HIDE DEF n, x
  <2> QED
    BY <1>2, <2>1, <2>2, <2>3 DEF Wears
<1>3. ASSUME NEW n \in NodeId,
             NodeStarts(n) \/ NodeGetsIP(n) \/ NodeLosesIP(n) \/ NodeLost(n)
      PROVE  \E x \in Node : Wears(n, x)
  <2>1. PICK s \in {"Running", "Stopped", "deleted"} :
           /\ s = "deleted" => "nodeLoss" \in Faults
           /\ \/ nodes' = [nodes EXCEPT ![n] = [@ EXCEPT !.status = s, !.ip = TRUE]]
              \/ /\ nodes' = [nodes EXCEPT ![n] = [@ EXCEPT !.status = s]]
                 /\ s = "Running" => "noPrivateIP" \in Faults
              \/ /\ nodes' = [nodes EXCEPT ![n] = [@ EXCEPT !.ip = TRUE]]
                 /\ s = nodes[n].status
              \/ /\ nodes' = [nodes EXCEPT ![n] = [@ EXCEPT !.ip = FALSE]]
                 /\ s = nodes[n].status
                 /\ "noPrivateIP" \in Faults
    BY <1>3 DEF NodeStarts, NodeGetsIP, NodeLosesIP, NodeLost
  <2>2. nodes[n].status \notin {"absent", "deleted"} /\ nodes[n] \in Node
    BY <1>3 DEF NodeStarts, NodeGetsIP, NodeLosesIP, NodeLost, TypeOK
  <2>3. ASSUME NEW x \in {[nodes[n] EXCEPT !.status = s, !.ip = TRUE],
                          [nodes[n] EXCEPT !.status = s],
                          [nodes[n] EXCEPT !.ip = TRUE],
                          [nodes[n] EXCEPT !.ip = FALSE]}
        PROVE  /\ x \in Node /\ x.name = nodes[n].name
               /\ x.status \in {s, nodes[n].status}
               /\ x.booted = nodes[n].booted
               /\ (nodes[n].ip => x.ip) \/ x = [nodes[n] EXCEPT !.ip = FALSE]
    BY <2>2 DEF Node
  <2>4. CASE nodes' = [nodes EXCEPT ![n] = [@ EXCEPT !.status = s, !.ip = TRUE]]
    <3> DEFINE x == [nodes[n] EXCEPT !.status = s, !.ip = TRUE]
    <3>1. x.ip /\ x.status = s
      BY <2>2 DEF Node
    <3> QED
      BY <2>1, <2>2, <2>3, <2>4, <3>1 DEF Wears
  <2>5. CASE /\ nodes' = [nodes EXCEPT ![n] = [@ EXCEPT !.status = s]]
             /\ s = "Running" => "noPrivateIP" \in Faults
    <3> DEFINE x == [nodes[n] EXCEPT !.status = s]
    <3>1. x.status = s /\ s # "absent"
      BY <2>1, <2>2 DEF Node
    <3>2. nodes' = [nodes EXCEPT ![n] = x]
      BY <2>5
    <3>3. /\ x \in Node /\ x.name = nodes[n].name /\ x.booted = nodes[n].booted
          /\ nodes[n].ip => x.ip
      BY <2>2, <2>3 DEF Node
    <3> HIDE DEF x
    <3> QED
      BY <2>1, <2>2, <2>5, <3>1, <3>2, <3>3 DEF Wears
  <2>6. CASE /\ nodes' = [nodes EXCEPT ![n] = [@ EXCEPT !.ip = TRUE]]
             /\ s = nodes[n].status
    <3> DEFINE x == [nodes[n] EXCEPT !.ip = TRUE]
    <3>1. x.ip /\ x.status = s
      BY <2>2, <2>6 DEF Node
    <3> QED
      BY <2>1, <2>2, <2>3, <2>6, <3>1 DEF Wears
  <2>7. CASE /\ nodes' = [nodes EXCEPT ![n] = [@ EXCEPT !.ip = FALSE]]
             /\ s = nodes[n].status
             /\ "noPrivateIP" \in Faults
    <3> DEFINE x == [nodes[n] EXCEPT !.ip = FALSE]
    <3>1. x.status = s /\ s # "absent"
      BY <2>1, <2>2, <2>7 DEF Node
    <3>2. nodes' = [nodes EXCEPT ![n] = x]
      BY <2>7
    <3>3. x \in Node /\ x.name = nodes[n].name /\ x.booted = nodes[n].booted
      BY <2>3
    <3> HIDE DEF x
    <3> QED
      BY <2>2, <2>7, <3>1, <3>2, <3>3 DEF Wears
  <2> QED
    BY <2>1, <2>4, <2>5, <2>6, <2>7
<1>4. \/ CreateNode \/ BootstrapRuns \/ DeleteNode
      \/ \E m \in Machines : LateCreate(m)
      \/ \E n \in NodeId :
            NodeStarts(n) \/ NodeGetsIP(n) \/ NodeLosesIP(n) \/ NodeLost(n)
      \/ UNCHANGED nodes
  BY DEF Next, Controller, Environment, Reconcile, OwnerNotFound, DeleteInstance,
         DeleteWithoutInstance, AddFinalizer, StartCreate, StartStatus, Begin,
         LookupFound, LookupMissed, CreateNodeFails, GetNodeNotFound, GetNodeFails,
         GetNodeNotRunning, GetNodeRunning, AddBackendGet, AddBackendPut,
         AddBackendFails, BootstrapWaits, TagNode, TagNodeFails,
         EnsureControlPlaneNode, EnsureControlPlaneNodeFails, RemoveBackendGet,
         RemoveBackendPut, RemoveBackendFails, DeleteNodeFails, PatchObject,
         PatchObjectFails, PatchStatus, PatchStatusFails, CacheSync, Crash,
         AdoptMachine, UserDelete, DataReady, OwnerLost, KubeletRegisters,
         ClusterStep, MachinesUnchanged, TogglePause,
         cloud, vars
<1> QED
  BY <1>1, <1>2, <1>3, <1>4

LEMMA NamesStep ==
    ASSUME TypeOK, OwnershipInv, [Next]_vars
    PROVE  NamesKept /\ NamesOK'
<1>0. NamesOK
  BY DEF OwnershipInv, NamesOK
<1>1. CASE CreateNode
  BY <1>0, <1>1, ProvisionNames DEF CreateNode, TypeOK, WorkerOK
<1>2. ASSUME NEW m \in Machines, LateCreate(m) PROVE NamesKept /\ NamesOK'
  BY <1>0, <1>2, ProvisionNames, SameNames DEF LateCreate
<1>3. ASSUME NEW n \in NodeId, NEW x \in Node, Wears(n, x)
      PROVE  NamesKept /\ NamesOK'
  BY <1>0, <1>3, StatusNames DEF Wears
<1>4. CASE UNCHANGED nodes
  BY <1>0, <1>4, SameNames
<1> QED
  BY <1>1, <1>2, <1>3, <1>4, NodeChanges

LEMMA PatchInstance ==
    ASSUME TypeOK, PatchObject \/ PatchStatus, NEW m \in Machines
    PROVE  \/ store'[m].instanceID = store[m].instanceID
           \/ m = w.m /\ store'[m].instanceID = w.obj.instanceID
<1>0. w.m \in Machines /\ store[w.m] \in Object
  BY DEF TypeOK, WorkerOK, PatchObject, PatchStatus
<1>1. PatchedObject(w.base, w.obj, store[w.m]).instanceID = store[w.m].instanceID
  BY <1>0 DEF PatchedObject, Object
<1>2. PatchedStatus(w.base, w.obj, store[w.m]).instanceID
         \in {store[w.m].instanceID, w.obj.instanceID}
  BY <1>0 DEF PatchedStatus, Merged, Object
<1> QED
  BY <1>0, <1>1, <1>2 DEF PatchObject, PatchStatus, Patch, TypeOK

\* Where the recorded and the remembered IDs come from.
LEMMA InstanceStep ==
    ASSUME TypeOK, OwnershipInv, [Next]_vars, NamesKept
    PROVE  InstanceIsOwn'
<1>0. \A m \in Machines : m # None
  BY ConstantAssumption
<1>1. ASSUME NEW m \in Machines, NEW id \in NodeId, nodes[id].name = m
      PROVE  nodes'[id].name = m
  BY <1>0, <1>1 DEF NamesKept
<1>2. /\ \A m \in Machines : /\ store[m].instanceID \in NodeId \cup {None}
                             /\ cache[m].instanceID \in NodeId \cup {None}
      /\ w.obj \in Object /\ w.obj.instanceID \in NodeId \cup {None}
      /\ w.pc # "idle" => w.m \in Machines
  BY DEF TypeOK, WorkerOK, Worker, Object
<1>3. \A m \in Machines :
         \/ store'[m].instanceID = store[m].instanceID
         \/ /\ w.pc # "idle" /\ m = w.m
            /\ store'[m].instanceID = w.obj.instanceID
  <2> TAKE m \in Machines
  <2>1. CASE PatchObject \/ PatchStatus
    BY <2>1, PatchInstance DEF PatchObject, PatchStatus
  <2>2. ASSUME NEW k \in Machines, AdoptMachine(k) \/ UserDelete(k)
        PROVE  store'[m].instanceID = store[m].instanceID
    <3>1. store[k] \in Object
      BY DEF TypeOK
    <3>2. store'[k].instanceID = store[k].instanceID
      <4>1. /\ [store[k] EXCEPT !.owned = TRUE].instanceID = store[k].instanceID
            /\ [store[k] EXCEPT !.deleting = store[k].finalizer,
                                !.exists = store[k].finalizer].instanceID
                  = store[k].instanceID
        BY <3>1 DEF Object
      <4> QED
        BY <2>2, <4>1 DEF AdoptMachine, UserDelete, TypeOK
    <3> QED
      BY <2>2, <3>2 DEF AdoptMachine, UserDelete, TypeOK
  <2>3. CASE UNCHANGED store
    BY <2>3
  <2>4. \/ PatchObject \/ PatchStatus
        \/ \E k \in Machines : AdoptMachine(k) \/ UserDelete(k)
        \/ UNCHANGED store
    <3>1. CASE Middle
      BY <3>1, MiddleKeeps DEF Keeps
    <3>2. CASE ~Middle
      BY <3>2 DEF Next, Controller, Middle, Environment, Reconcile, OwnerNotFound,
           DeleteInstance, DeleteWithoutInstance, AddFinalizer, StartCreate,
           StartStatus, Begin, PatchObjectFails, PatchStatusFails, CacheSync,
           Crash, DataReady, OwnerLost, LateCreate, KubeletRegisters, NodeStarts,
           NodeGetsIP, NodeLosesIP, NodeLost, ClusterStep, MachinesUnchanged, TogglePause, vars
    <3> QED
      BY <3>1, <3>2
  <2> QED
    BY <2>1, <2>2, <2>3, <2>4
<1>4. \A m \in Machines : cache'[m] \in {cache[m], store[m]}
  <2>1. \/ \E m \in Machines : CacheSync(m)
        \/ Crash
        \/ UNCHANGED cache
    <3>1. CASE Middle
      BY <3>1, MiddleKeeps DEF Keeps
    <3>2. CASE ~Middle
      BY <3>2 DEF Next, Controller, Middle, Environment, Reconcile, OwnerNotFound,
           DeleteInstance, DeleteWithoutInstance, AddFinalizer, StartCreate,
           StartStatus, Begin, PatchObject, PatchStatus, PatchObjectFails,
           PatchStatusFails, AdoptMachine, UserDelete, DataReady, OwnerLost,
           LateCreate, KubeletRegisters, NodeStarts, NodeGetsIP, NodeLosesIP, NodeLost,
           ClusterStep, MachinesUnchanged, TogglePause,
           inputs, vars
    <3> QED
      BY <3>1, <3>2
  <2> QED
    BY <2>1 DEF CacheSync, Crash, TypeOK
<1>5. w'.pc # "idle" /\ w'.obj.instanceID # None
        => nodes'[w'.obj.instanceID].name = w'.m
  <2>1. CASE LookupFound
    <3>1. PICK n \in Live(w.m) : Return([w.obj EXCEPT !.instanceID = n])
      BY <2>1 DEF LookupFound
    <3>2. /\ n \in NodeId /\ nodes[n].name = w.m
          /\ [w.obj EXCEPT !.instanceID = n] \in Object
          /\ [w.obj EXCEPT !.instanceID = n].instanceID = n
      BY <1>2 DEF Live, Object
    <3>3. w'.m = w.m /\ w'.obj.instanceID = n
      BY <3>1, <3>2, ReturnKeeps
    <3> QED
      BY <1>1, <1>2, <2>1, <3>2, <3>3 DEF LookupFound
  <2>2. CASE CreateNode
    <3>0. w.pc = "create" /\ w.m \in Machines
      BY <1>2, <2>2 DEF CreateNode
    <3>1. PICK n \in NodeId :
             /\ Provision(w.m, n)
             /\ Return([w.obj EXCEPT !.instanceID = n]) \/ Return(w.obj)
      BY <2>2 DEF CreateNode
    <3>2. nodes'[n].name = w.m
      BY <3>0, <3>1, ProvisionNames DEF OwnershipInv, NamesOK
    <3>3. /\ [w.obj EXCEPT !.instanceID = n] \in Object
          /\ [w.obj EXCEPT !.instanceID = n].instanceID = n
      BY <1>2 DEF Object
    <3>4. w'.m = w.m /\ w'.obj.instanceID \in {n, w.obj.instanceID}
      BY <1>2, <3>1, <3>3, ReturnKeeps
    <3> QED
      BY <1>1, <1>2, <3>0, <3>2, <3>4 DEF OwnershipInv, InstanceIsOwn
  <2>3. CASE Middle /\ ~LookupFound /\ ~CreateNode
    <3>1. Keeps
      BY <2>3, MiddleKeeps
    <3>2. w'.obj.instanceID = w.obj.instanceID
      <4>1. CASE LookupMissed
        BY <4>1, GotoKeeps DEF LookupMissed
      <4>2. CASE CreateNodeFails
        BY <1>2, <4>2, ReturnKeeps DEF CreateNodeFails
      <4>3. CASE ~LookupMissed /\ ~CreateNodeFails
        <5>1. w.pc \notin {"lookup", "create"}
          BY <2>3, <4>3
          DEF Middle, GetNodeNotFound, GetNodeFails, GetNodeNotRunning,
              GetNodeRunning, AddBackendGet, AddBackendPut, AddBackendFails,
              BootstrapWaits, BootstrapRuns, TagNode, TagNodeFails,
              EnsureControlPlaneNode, EnsureControlPlaneNodeFails,
              RemoveBackendGet, RemoveBackendPut, RemoveBackendFails,
              DeleteNode, DeleteNodeFails
        <5> QED
          BY <3>1, <5>1 DEF Keeps
      <4> QED
        BY <4>1, <4>2, <4>3
    <3> QED
      BY <1>1, <1>2, <3>1, <3>2 DEF Keeps, OwnershipInv, InstanceIsOwn
  <2>4. ASSUME NEW m \in Machines, Reconcile(m)
        PROVE  /\ w'.m = m /\ w'.obj.instanceID = cache[m].instanceID
               /\ UNCHANGED nodes
    <3>1. cache[m] \in Object
      BY DEF TypeOK
    <3>2. \A b \in BOOLEAN :
             [cache[m] EXCEPT !.finalizer = b].instanceID = cache[m].instanceID
      BY <3>1 DEF Object
    <3>3. PICK p \in WorkerPc, o \in {cache[m], [cache[m] EXCEPT !.finalizer = TRUE],
                                     [cache[m] EXCEPT !.finalizer = FALSE]} :
             Begin(m, p, o)
      BY <2>4
      DEF Reconcile, OwnerNotFound, DeleteInstance, DeleteWithoutInstance,
          AddFinalizer, StartCreate, StartStatus
    <3> QED
      BY <3>2, <3>3 DEF Begin, cloud
  <2>5. CASE \E m \in Machines : Reconcile(m)
    BY <1>2, <2>4, <2>5 DEF OwnershipInv, InstanceIsOwn
  <2>6. CASE /\ w'.pc # "idle" => w.pc # "idle" /\ w'.m = w.m /\ w'.obj = w.obj
    BY <1>1, <1>2, <2>6 DEF OwnershipInv, InstanceIsOwn
  <2>7. \/ Middle
        \/ \E m \in Machines : Reconcile(m)
        \/ w'.pc # "idle" => w.pc # "idle" /\ w'.m = w.m /\ w'.obj = w.obj
    <3>1. CASE PatchObject \/ PatchObjectFails
      BY <3>1, GotoKeeps DEF PatchObject, PatchObjectFails
    <3>2. CASE PatchStatus \/ PatchStatusFails \/ Crash
      BY <3>2 DEF PatchStatus, PatchStatusFails, Crash, IdleWorker
    <3>3. CASE UNCHANGED w
      BY <3>3
    <3> QED
      BY <3>1, <3>2, <3>3
      DEF Next, Controller, Middle, Environment, CacheSync, AdoptMachine,
          UserDelete, DataReady, OwnerLost, LateCreate, KubeletRegisters,
          NodeStarts, NodeGetsIP, NodeLosesIP, NodeLost, ClusterStep, MachinesUnchanged, TogglePause, vars
  <2> QED
    BY <2>1, <2>2, <2>3, <2>5, <2>6, <2>7
<1>6. ASSUME NEW m \in Machines
      PROVE  store'[m].instanceID # None => nodes'[store'[m].instanceID].name = m
  BY <1>1, <1>2, <1>3 DEF OwnershipInv, InstanceIsOwn
<1>7. ASSUME NEW m \in Machines
      PROVE  cache'[m].instanceID # None => nodes'[cache'[m].instanceID].name = m
  BY <1>1, <1>2, <1>4 DEF OwnershipInv, InstanceIsOwn
<1> QED
  BY <1>5, <1>6, <1>7 DEF InstanceIsOwn

\* A node has a name exactly from its creation on, and every ID recorded for a
\* machine is that of a node with its name.
THEOREM NamesAreGivenOnce == Spec => []OwnershipInv
<1>1. TypeOK /\ OwnershipInv /\ [Next]_vars => OwnershipInv'
  BY NamesStep, InstanceStep DEF OwnershipInv, NamesOK
<1> QED
  BY InitOwnership, TypeCorrect, <1>1, PTL DEF Spec

\* Whatever fails, is lost or is stale, the node ID recorded for a machine is
\* that of a node made under its name.
THEOREM InstanceOwnership == Spec => []InstanceIsOwn
<1>1. OwnershipInv => InstanceIsOwn
  BY DEF OwnershipInv
<1> QED
  BY NamesAreGivenOnce, <1>1, PTL

\* The controller deletes a node only for the machine it was made for, and only
\* once the deletion of that machine was asked for.
THEOREM OnlyOwnDeletes == Spec => DeletesOnlyItsOwn
<1> DEFINE Safe == \A n \in NodeId :
                      /\ w.pc = "deleteNode" /\ w' # w
                      /\ nodes[n].status # "deleted"
                      /\ nodes'[n].status = "deleted"
                      => nodes[n].name = w.m /\ store[w.m].deleting
<1>1. TypeOK /\ FinalizerInv /\ OwnershipInv /\ [Next]_vars => Safe
  <2> SUFFICES ASSUME TypeOK, FinalizerInv, OwnershipInv, [Next]_vars,
                      w.pc = "deleteNode", w' # w,
                      NEW n \in NodeId, nodes[n].status # "deleted",
                      nodes'[n].status = "deleted"
               PROVE  nodes[n].name = w.m /\ store[w.m].deleting
    OBVIOUS
  <2>1. w.m \in Machines
    BY DEF TypeOK, WorkerOK
  <2>2. store[w.m].deleting
    BY <2>1 DEF FinalizerInv
  <2>3. DeleteNode \/ UNCHANGED nodes
    BY DEF Next, Controller, Environment, Reconcile, OwnerNotFound, DeleteInstance,
         DeleteWithoutInstance, AddFinalizer, StartCreate, StartStatus, Reading,
         Deleting, Active, LookupFound, LookupMissed, CreateNode, CreateNodeFails,
         GetNodeNotFound, GetNodeFails, GetNodeNotRunning, GetNodeRunning,
         AddBackendGet, AddBackendPut, AddBackendFails, BootstrapWaits,
         BootstrapRuns, TagNode, TagNodeFails, EnsureControlPlaneNode,
         EnsureControlPlaneNodeFails, RemoveBackendGet, RemoveBackendPut,
         RemoveBackendFails, DeleteNodeFails, PatchObject, PatchObjectFails,
         PatchStatus, PatchStatusFails, CacheSync, Crash, AdoptMachine,
         UserDelete, DataReady, OwnerLost, LateCreate, KubeletRegisters,
         NodeStarts, NodeGetsIP, NodeLosesIP, NodeLost, ClusterStep, MachinesUnchanged, TogglePause, cloud, vars
  <2>4. DeleteNode
    BY <2>3
  <2>5. n = w.obj.instanceID
    BY <2>4 DEF DeleteNode, TypeOK
  <2> QED
    BY <2>2, <2>5, OwnedNode
<1>2. TypeOK /\ OwnershipInv /\ [Next]_vars => OwnershipInv'
  BY NamesStep, InstanceStep DEF OwnershipInv, NamesOK
<1>3. TypeOK /\ FinalizerInv /\ [Next]_vars => FinalizerInv'
  BY FinalizerStep
<1> QED
  BY InitOwnership, InitFinalizer, TypeCorrect, <1>1, <1>2, <1>3, PTL
  DEF Spec, DeletesOnlyItsOwn

-----------------------------------------------------------------------------
(***************************************************************************)
(* One compute node for each machine.                                      *)
(***************************************************************************)

LEMMA InitOneNode == Init => OneNodeInv
  BY DEF Init, OneNodeInv, NoDuplicateVM, Live, IdleWorker

\* Only a create request adds a live node.
LEMMA LiveShrinks ==
    ASSUME TypeOK, OwnershipInv, [Next]_vars, ~CreateNode, late = {},
           NEW m \in Machines
    PROVE  Live(m)' \subseteq Live(m)
<1>1. ASSUME NEW n \in NodeId, NEW x \in Node, Wears(n, x)
      PROVE  Live(m)' \subseteq Live(m)
  <2>1. nodes'[n] = x /\ \A k \in NodeId : k # n => nodes'[k] = nodes[k]
    BY <1>1 DEF Wears, TypeOK
  <2> QED
    BY <1>1, <2>1 DEF Wears, Live
<1>2. CASE UNCHANGED nodes
  BY <1>2 DEF Live
<1> QED
  BY <1>1, <1>2, NodeChanges DEF LateCreate

\* A create request is sent only when the lookup saw no node of that name, and
\* none can have appeared since.
LEMMA EmptyBeforeCreate ==
    ASSUME TypeOK, OwnershipInv, OneNodeInv, [Next]_vars, ~CreateNode,
           "listError" \notin Faults, w'.pc = "create"
    PROVE  Live(w.m)' = {}
<1>1. w'.m = w.m /\ w.m \in Machines /\ Live(w.m) = {}
  <2>1. CASE Middle
    <3>1. Keeps /\ w.pc = "lookup"
      BY <2>1, MiddleKeeps DEF Keeps, Middle, LookupFound, LookupMissed, CreateNode,
         CreateNodeFails
    <3>2. CASE LookupFound
      <4>1. PICK n \in Live(w.m) : Return([w.obj EXCEPT !.instanceID = n])
        BY <3>2 DEF LookupFound
      <4>2. [w.obj EXCEPT !.instanceID = n] \in Object
        BY DEF Live, Object, TypeOK, Worker
      <4> QED
        BY <4>1, <4>2, ReturnKeeps
    <3>3. CASE LookupMissed
      BY <3>3, GotoKeeps DEF LookupMissed, TypeOK, WorkerOK
    <3> QED
      BY <2>1, <3>1, <3>2, <3>3
      DEF Middle, CreateNodeFails, GetNodeNotFound, GetNodeFails, GetNodeNotRunning,
          GetNodeRunning, AddBackendGet, AddBackendPut, AddBackendFails,
          BootstrapWaits, BootstrapRuns, TagNode, TagNodeFails,
          EnsureControlPlaneNode, EnsureControlPlaneNodeFails, RemoveBackendGet,
          RemoveBackendPut, RemoveBackendFails, DeleteNode, DeleteNodeFails
  <2>2. CASE UNCHANGED w
    BY <2>2 DEF OneNodeInv, TypeOK, WorkerOK
  <2>3. ASSUME NEW m \in Machines, Reconcile(m) PROVE FALSE
    BY <2>3
    DEF Reconcile, OwnerNotFound, DeleteInstance, DeleteWithoutInstance,
        AddFinalizer, StartCreate, StartStatus, Begin
  <2>4. CASE \/ PatchObject \/ PatchObjectFails \/ PatchStatus
             \/ PatchStatusFails \/ Crash
    BY <2>4, GotoKeeps
    DEF PatchObject, PatchObjectFails, PatchStatus, PatchStatusFails, Crash,
        IdleWorker
  <2> QED
    BY <2>1, <2>2, <2>3, <2>4
    DEF Next, Controller, Middle, Environment, CacheSync, AdoptMachine,
        UserDelete, DataReady, OwnerLost, LateCreate, KubeletRegisters,
        NodeStarts, NodeGetsIP, NodeLosesIP, NodeLost, ClusterStep, MachinesUnchanged, TogglePause, vars
<1>2. \A m \in Machines : Live(m)' \subseteq Live(m)
  BY LiveShrinks DEF OneNodeInv
<1> QED
  BY <1>1, <1>2 DEF Live

\* While no create request outlives its caller, none is under way.
LEMMA NoneLate ==
    ASSUME late = {}, [Next]_vars, "lateCreate" \notin Faults
    PROVE  late' = {}
<1>1. \A m \in Machines : ~LateCreate(m)
  BY DEF LateCreate
<1> QED
  BY <1>1
  DEF Next, Controller, Environment, Reconcile, OwnerNotFound, DeleteInstance,
      DeleteWithoutInstance, AddFinalizer, StartCreate, StartStatus, Begin,
      LookupFound, LookupMissed, CreateNode, CreateNodeFails, GetNodeNotFound,
      GetNodeFails, GetNodeNotRunning, GetNodeRunning, AddBackendGet,
      AddBackendPut, AddBackendFails, BootstrapWaits, BootstrapRuns, TagNode,
      TagNodeFails, EnsureControlPlaneNode, EnsureControlPlaneNodeFails,
      RemoveBackendGet, RemoveBackendPut, RemoveBackendFails, DeleteNode,
      DeleteNodeFails, PatchObject, PatchObjectFails, PatchStatus,
      PatchStatusFails, CacheSync, Crash, AdoptMachine, UserDelete, DataReady,
      OwnerLost, KubeletRegisters, NodeStarts, NodeGetsIP, NodeLosesIP, NodeLost,
      ClusterStep, MachinesUnchanged, TogglePause,
      cloud, vars

\* Nodes are only made by CreateNode while the lookup tells the truth and no
\* create request outlives its caller.
LEMMA OneNodeStep ==
    ASSUME TypeOK, OwnershipInv, OneNodeInv, [Next]_vars,
           "listError" \notin Faults, "lateCreate" \notin Faults
    PROVE  OneNodeInv'
<1>0. NamesKept /\ NamesOK'
  BY NamesStep
<1>1. late' = {}
  BY NoneLate DEF OneNodeInv
<1>2. CASE CreateNode
  <2>1. PICK n \in NodeId : Provision(w.m, n)
    BY <1>2 DEF CreateNode
  <2>2. w.pc = "create" /\ w.m \in Machines /\ Live(w.m) = {}
    BY <1>2 DEF CreateNode, OneNodeInv, TypeOK, WorkerOK
  <2>3. /\ nodes'[n].name = w.m
        /\ \A k \in NodeId : k # n => nodes'[k] = nodes[k]
    BY <2>1, <2>2, ProvisionNames DEF Provision, TypeOK, OwnershipInv, NamesOK
  <2>4. ASSUME NEW m \in Machines, NEW k \in Live(m)'
        PROVE  k = n \/ (m # w.m /\ k \in Live(m))
    <3>1. k \in NodeId /\ (k # n => nodes'[k] = nodes[k])
      BY <2>3 DEF Live
    <3>2. k # n => k \in Live(m)
      BY <3>1 DEF Live
    <3>3. m = w.m => k \notin Live(m)
      BY <2>2 DEF Live
    <3> QED
      BY <3>2, <3>3
  <2>5. w'.pc # "create"
    BY <1>2, MiddleKeeps DEF Middle, Keeps, CreateNode
  <2>6. ASSUME NEW m \in Machines, NEW j \in Live(m)', NEW k \in Live(m)'
        PROVE  j = k
    <3>1. CASE m = w.m
      BY <2>4, <3>1
    <3>2. CASE m # w.m
      <4>1. n \notin Live(m)'
        BY <2>3, <3>2 DEF Live
      <4> QED
        BY <2>4, <3>2, <4>1 DEF OneNodeInv, NoDuplicateVM
    <3> QED
      BY <3>1, <3>2
  <2> QED
    BY <1>1, <2>5, <2>6 DEF OneNodeInv, NoDuplicateVM
<1>3. CASE ~CreateNode
  <2>1. \A m \in Machines : Live(m)' \subseteq Live(m)
    BY <1>3, LiveShrinks DEF OneNodeInv
  <2>2. w'.pc = "create" => Live(w.m)' = {}
    BY <1>3, EmptyBeforeCreate
  <2> QED
    BY <1>1, <2>1, <2>2 DEF OneNodeInv, NoDuplicateVM
<1> QED
  BY <1>2, <1>3

\* A create request is sent only where the machine has no node, and none outlives
\* its caller (OneNodeInv of the runs), if the lookup tells the truth.
THEOREM CreatesOnlyTheFirst ==
    ASSUME "listError" \notin Faults, "lateCreate" \notin Faults
    PROVE  Spec => []OneNodeInv
<1>1. TypeOK /\ OwnershipInv /\ OneNodeInv /\ [Next]_vars => OneNodeInv'
  BY OneNodeStep
<1> QED
  BY InitOneNode, NamesAreGivenOnce, TypeCorrect, <1>1, PTL DEF Spec

\* No machine ever has two compute nodes, whatever crashes, lost replies,
\* refused patches and stale reads there are, as long as the lookup by name
\* tells the truth and no create request is executed after its caller gave up.
THEOREM OneNode ==
    ASSUME "listError" \notin Faults, "lateCreate" \notin Faults
    PROVE  Spec => []NoDuplicateVM
<1>1. OneNodeInv => NoDuplicateVM
  BY DEF OneNodeInv
<1> QED
  BY CreatesOnlyTheFirst, <1>1, PTL

=============================================================================
