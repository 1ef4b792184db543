---------------------- MODULE E2EMachineBackendProofs ----------------------
(***************************************************************************)
(* What the E2EMachine controller does to the backend group of the API     *)
(* server load balancer: its GET and PUT take out nobody else's server,    *)
(* no server outlives its machine, a control plane machine that was        *)
(* bootstrapped stays registered, and nothing else of the cluster is       *)
(* touched, as ClusterContract has it.                                     *)
(***************************************************************************)
EXTENDS E2EMachineOutcomeProofs

-----------------------------------------------------------------------------
(***************************************************************************)
(* The worker on its way to a load balancer.                               *)
(***************************************************************************)

\* By which step the worker gets to each place that a property speaks of.
LEMMA MiddlePath ==
    ASSUME TypeOK, Middle
    PROVE  /\ w'.pc \notin {"getNode", "removeGet"}
           /\ w'.pc = "addGet"
                => /\ GetNodeRunning /\ NeedsBackend(WithAddress(w.obj))
                   /\ w'.obj = WithAddress(w.obj)
           /\ w'.pc = "addPut"
                => AddBackendGet /\ w'.obj = w.obj /\ w'.snap = servers[w.lb]
           /\ w'.pc = "removePut"
                => RemoveBackendGet /\ w'.obj = w.obj /\ w'.snap = servers[w.lb]
           /\ w'.pc = "deleteNode" => RemoveBackendPut \/ RemoveBackendFails
           /\ w'.pc = "tagNode" => BootstrapRuns /\ w.m \notin ControlPlane
<1>0. w \in Worker
  BY DEF TypeOK
<1>1. ASSUME NEW o, Return(o) \/ MarkReady(o) \/ ToBootstrap(o)
      PROVE  w'.pc \in {"patchObject", "cpNode", "bootstrap"}
  BY <1>0, <1>1 DEF Return, MarkReady, ToBootstrap, Worker
<1>2. ASSUME NEW p, Goto(p) PROVE w'.pc = p
  BY <1>0, <1>2 DEF Goto, Worker
<1>3. CASE GetNodeRunning
  <2> DEFINE o == WithAddress(w.obj)
  <2>1. CASE NeedsBackend(o)
    <3>1. w' = [w EXCEPT !.pc = "addGet", !.obj = o]
      BY <1>3, <2>1 DEF GetNodeRunning
    <3>2. w'.pc = "addGet" /\ w'.obj = o
      BY <1>0, <3>1 DEF Worker
    <3> QED
      BY <1>3, <2>1, <3>2
  <2>2. CASE ToBootstrap(o)
    BY <1>1, <2>2
  <2> QED
    BY <1>3, <2>1, <2>2 DEF GetNodeRunning
<1>4. CASE AddBackendGet
  <2>1. CASE w' = [w EXCEPT !.pc = "addPut", !.snap = servers[w.lb]]
    BY <1>0, <1>4, <2>1 DEF Worker
  <2>2. CASE ToBootstrap(w.obj)
    BY <1>1, <2>2
  <2> QED
    BY <1>4, <2>1, <2>2 DEF AddBackendGet
<1>5. CASE RemoveBackendGet
  <2>1. w' = [w EXCEPT !.pc = "removePut", !.snap = servers[w.lb]]
    BY <1>5 DEF RemoveBackendGet
  <2> QED
    BY <1>0, <1>5, <2>1 DEF Worker
<1>6. CASE RemoveBackendPut \/ RemoveBackendFails \/ LookupMissed
  BY <1>2, <1>6 DEF RemoveBackendPut, RemoveBackendFails, LookupMissed
<1>7. CASE BootstrapRuns
  BY <1>1, <1>2, <1>7 DEF BootstrapRuns
<1>8. CASE \/ LookupFound \/ CreateNode \/ CreateNodeFails \/ GetNodeNotFound
           \/ GetNodeFails \/ GetNodeNotRunning \/ AddBackendPut
           \/ AddBackendFails \/ BootstrapWaits
  BY <1>1, <1>8
  DEF LookupFound, CreateNode, CreateNodeFails, GetNodeNotFound, GetNodeFails,
      GetNodeNotRunning, AddBackendPut, AddBackendFails, BootstrapWaits
<1>9. CASE \/ TagNode \/ TagNodeFails \/ EnsureControlPlaneNode
           \/ EnsureControlPlaneNodeFails \/ DeleteNode \/ DeleteNodeFails
  BY <1>1, <1>9
  DEF TagNode, TagNodeFails, EnsureControlPlaneNode, EnsureControlPlaneNodeFails,
      DeleteNode, DeleteNodeFails
<1> QED
  BY <1>3, <1>4, <1>5, <1>6, <1>7, <1>8, <1>9 DEF Middle

\* The address that the cloud reports for a node.
AddressOf(n) == IF nodes[n].ip THEN n ELSE None

\* Only what the cloud reports of the node changes the address in memory.
LEMMA MiddleAddress ==
    ASSUME TypeOK, Middle
    PROVE  \/ w'.obj.address = w.obj.address
           \/ w.pc = "getNode" /\ w'.obj.address = AddressOf(w.obj.instanceID)
<1>0. w \in Worker /\ w.obj \in Object
  BY DEF TypeOK, Worker
<1>1. ASSUME NEW o \in Object, Return(o) \/ MarkReady(o) \/ ToBootstrap(o)
      PROVE  w'.obj.address = o.address
  <2>1. ASSUME MarkReady(o) PROVE w'.obj.address = o.address
    BY <1>0, <2>1 DEF MarkReady, Worker, Object
  <2> QED
    BY <1>0, <1>1, <2>1 DEF Return, ToBootstrap, Worker
<1>2. CASE GetNodeNotRunning \/ GetNodeRunning
  <2> DEFINE o == WithAddress(w.obj)
  <2>1. w.pc = "getNode" /\ w.obj.instanceID # None
    BY <1>2 DEF GetNodeNotRunning, GetNodeRunning, TypeOK, WorkerOK
  <2>2. o \in Object /\ o.address = AddressOf(w.obj.instanceID)
    BY <1>0, <2>1, WithAddressType DEF WithAddress, Object, AddressOf
  <2>3. \/ Return(o)
        \/ ToBootstrap(o)
        \/ w' = [w EXCEPT !.pc = "addGet", !.obj = o]
    BY <1>2 DEF GetNodeNotRunning, GetNodeRunning
  <2> HIDE DEF o
  <2>4. CASE w' = [w EXCEPT !.pc = "addGet", !.obj = o]
    BY <1>0, <2>1, <2>2, <2>4 DEF Worker
  <2> QED
    BY <1>1, <2>1, <2>2, <2>3, <2>4
<1>3. CASE AddBackendGet \/ RemoveBackendGet
  <2>1. \/ ToBootstrap(w.obj)
        \/ w' = [w EXCEPT !.pc = "addPut", !.snap = servers[w.lb]]
        \/ w' = [w EXCEPT !.pc = "removePut", !.snap = servers[w.lb]]
    BY <1>3 DEF AddBackendGet, RemoveBackendGet
  <2> QED
    BY <1>0, <1>1, <2>1 DEF Worker
<1>4. CASE LookupFound \/ CreateNode
  <2>1. PICK n \in NodeId :
           Return([w.obj EXCEPT !.instanceID = n]) \/ Return(w.obj)
    BY <1>4 DEF LookupFound, CreateNode, Live
  <2>2. LET o == [w.obj EXCEPT !.instanceID = n]
        IN  o \in Object /\ o.address = w.obj.address
    BY <1>0 DEF Object
  <2> QED
    BY <1>0, <1>1, <2>1, <2>2
<1>5. CASE GetNodeNotFound \/ DeleteNode
  <2>1. \/ Return([w.obj EXCEPT !.failed = TRUE])
        \/ Return([w.obj EXCEPT !.finalizer = FALSE])
        \/ Return(w.obj)
    BY <1>5 DEF GetNodeNotFound, DeleteNode
  <2>2. \A o \in {[w.obj EXCEPT !.failed = TRUE], [w.obj EXCEPT !.finalizer = FALSE]} :
           o \in Object /\ o.address = w.obj.address
    BY <1>0 DEF Object
  <2> QED
    BY <1>0, <1>1, <2>1, <2>2
<1>6. CASE BootstrapRuns \/ TagNode \/ TagNodeFails
  <2>1. MarkReady([w.obj EXCEPT !.bootstrapped = TRUE]) \/ Goto("tagNode") \/ Return(w.obj)
    BY <1>6 DEF BootstrapRuns, TagNode, TagNodeFails
  <2>2. LET o == [w.obj EXCEPT !.bootstrapped = TRUE]
        IN  o \in Object /\ o.address = w.obj.address
    BY <1>0 DEF Object
  <2> QED
    BY <1>0, <1>1, <2>1, <2>2, GotoKeeps
<1>7. CASE LookupMissed \/ RemoveBackendPut \/ RemoveBackendFails
  BY <1>7, GotoKeeps DEF LookupMissed, RemoveBackendPut, RemoveBackendFails
<1>8. CASE \/ CreateNodeFails \/ GetNodeFails \/ AddBackendPut \/ AddBackendFails
           \/ BootstrapWaits \/ EnsureControlPlaneNode
           \/ EnsureControlPlaneNodeFails \/ DeleteNodeFails
  <2>1. Return(w.obj) \/ ToBootstrap(w.obj)
    BY <1>8
    DEF CreateNodeFails, GetNodeFails, AddBackendPut, AddBackendFails,
        BootstrapWaits, EnsureControlPlaneNode, EnsureControlPlaneNodeFails,
        DeleteNodeFails
  <2> QED
    BY <1>0, <1>1, <2>1
<1> QED
  BY <1>2, <1>3, <1>4, <1>5, <1>6, <1>7, <1>8 DEF Middle

-----------------------------------------------------------------------------
(***************************************************************************)
(* Whose server it is.                                                     *)
(***************************************************************************)

LEMMA InitAddress == Init => AddressInv
<1> SUFFICES ASSUME Init PROVE AddressInv
  OBVIOUS
<1>1. /\ w.pc = "idle"
      /\ \A m \in Machines : store[m].address = None /\ cache[m].address = None
  BY DEF Init, IdleWorker, NewObject
<1> QED
  BY <1>1 DEF AddressInv

\* The load balancer that a reconciliation read about stays the one it uses.
LEMMA WorkKeepsLB ==
    ASSUME TypeOK, [Next]_vars, w'.pc # "idle", \A k \in Machines : ~Reconcile(k)
    PROVE  w'.lb = w.lb
<1>1. CASE PatchObject \/ PatchObjectFails
  <2>1. Goto("patchStatus") /\ w.obj \in Object /\ "patchStatus" \in WorkerPc
    BY <1>1 DEF PatchObject, PatchObjectFails, TypeOK, Worker, WorkerPc
  <2> QED
    BY <2>1, SameLB
<1>2. CASE Middle
  BY <1>2, MiddleLB
<1> QED
  BY <1>1, <1>2, OtherSteps

\* Nobody but a PUT request of a reconciliation adds a server.
LEMMA ServersShrink ==
    ASSUME TypeOK, [Next]_vars, ~AddBackendPut, ~RemoveBackendPut
    PROVE  \A l \in LbId : servers'[l] \subseteq servers[l]
<1>1. CASE servers' = servers
  BY <1>1
<1>2. ASSUME NEW l \in LbId, servers' = [servers EXCEPT ![l] = {}]
      PROVE  \A k \in LbId : servers'[k] \subseteq servers[k]
  BY <1>2 DEF TypeOK
<1> QED
  BY <1>1, <1>2, ClusterSteps
  DEF ClusterStep, Contract!LBCreated, Contract!LBRecorded, Contract!LBVanishes,
      Contract!BackendsCleared, Contract!LBForgotten, Contract!ClusterReady,
      Contract!ClusterRemoved

\* An address is read from the object or is that of the machine's own node.
LEMMA AddressStep ==
    ASSUME TypeOK, OwnershipInv, PatchInv, AddressInv, [Next]_vars
    PROVE  AddressInv'
<1>0. NamesKept
  BY NamesStep
<1>1. ASSUME NEW m \in Machines
      PROVE  /\ store'[m].address # None => nodes'[store'[m].address].name = m
             /\ cache'[m].address # None => nodes'[cache'[m].address].name = m
  <2>0. /\ store[m].address \in NodeId \cup {None}
        /\ cache[m].address \in NodeId \cup {None}
        /\ w.obj.address \in NodeId \cup {None}
        /\ store[m] \in Object /\ w.base \in Object /\ w.obj \in Object
        /\ StoreChange(m)
    BY PatchTypes, StoreSteps
  <2>1. \A n \in NodeId : nodes[n].name = m => nodes'[n].name = m
    BY <1>0, ConstantAssumption DEF NamesKept
  <2>2. store'[m].address # None => nodes'[store'[m].address].name = m
    <3>1. CASE Touched(m)
      BY <2>0, <2>1, <3>1, StoreStatus DEF AddressInv
    <3>2. CASE store'[m] = PatchedObject(w.base, w.obj, store[m])
      BY <2>0, <2>1, <3>2, PatchFields DEF AddressInv
    <3>3. CASE /\ PatchStatus /\ w.m = m
               /\ store'[m] = PatchedStatus(w.base, w.obj, store[m])
      <4>1. store'[m].address
              = Merged(w.base.address, w.obj.address, store[m].address)
        BY <2>0, <3>3, PatchFields
      <4>2. store'[m].address \in {w.obj.address, store[m].address}
        BY <4>1 DEF Merged
      <4>3. w.obj.address # None => nodes[w.obj.address].name = m
        BY <3>3 DEF AddressInv, PatchStatus
      <4> QED
        BY <2>0, <2>1, <4>2, <4>3 DEF AddressInv
    <3> QED
      BY <2>0, <3>1, <3>2, <3>3 DEF StoreChange
  <2> QED
    BY <2>0, <2>1, <2>2, CacheSteps DEF AddressInv
<1>2. ASSUME NEW m \in Machines, w'.pc # "idle", w'.m = m
      PROVE  /\ w'.obj.address # None => nodes'[w'.obj.address].name = m
             /\ w'.pc \in {"addPut", "removePut"}
                  => servers'[w'.lb] \subseteq w'.snap
  <2>1. CASE \E k \in Machines : Reconcile(k)
    <3>1. /\ Reconcile(m) /\ w'.obj.address = cache[m].address
          /\ w'.pc \notin {"addPut", "removePut"} /\ nodes' = nodes
      BY <1>2, <2>1, ReconcileBegins
    <3> QED
      BY <3>1 DEF AddressInv
  <2>2. CASE \A k \in Machines : ~Reconcile(k)
    <3>0. /\ w.pc # "idle" /\ w.m = m /\ w'.lb = w.lb
          /\ w.lb \in LbId \cup {None}
          /\ w.obj.address \in NodeId \cup {None}
          /\ w.obj.instanceID \in NodeId \cup {None}
      BY <1>2, <2>2, StillAtWork, WorkKeepsLB, PatchTypes DEF TypeOK, Worker
    <3>1. \A n \in NodeId : nodes[n].name = m => nodes'[n].name = m
      BY <1>0, ConstantAssumption DEF NamesKept
    <3>2. CASE Middle
      <4>1. w'.obj.address # None => nodes[w'.obj.address].name = m
        BY <3>0, <3>2, MiddleAddress DEF AddressOf, AddressInv, OwnershipInv, InstanceIsOwn
      <4>2. w'.obj.address \in NodeId \cup {None}
        BY <3>0, <3>2, MiddleAddress DEF AddressOf
      <4>3. w'.pc \in {"addPut", "removePut"}
              => w'.snap = servers[w.lb] /\ servers' = servers
        BY <3>2, MiddlePath DEF AddBackendGet, RemoveBackendGet, cloud
      <4> QED
        BY <3>0, <3>1, <4>1, <4>2, <4>3
    <3>3. CASE ~Middle
      <4>1. /\ w'.obj = w.obj
            /\ w'.pc \in {"addPut", "removePut"} => w' = w
        BY <1>2, <2>2, <3>3, OtherSteps
      <4>2. \A l \in LbId : servers'[l] \subseteq servers[l]
        BY <3>3, ServersShrink DEF Middle
      <4>3. w.pc \in {"addPut", "removePut"} => w.lb \in LbId
        BY <3>0 DEF TypeOK, WorkerOK
      <4> QED
        BY <3>0, <3>1, <4>1, <4>2, <4>3 DEF AddressInv
    <3> QED
      BY <3>2, <3>3
  <2> QED
    BY <2>1, <2>2
<1>3. w'.pc # "idle" => w'.m \in Machines
  BY ReconcileBegins, StillAtWork
<1> QED
  BY <1>1, <1>2, <1>3 DEF AddressInv

LEMMA AddressInductive == Spec => []AddressInv
<1>1. TypeOK /\ OwnershipInv /\ PatchInv /\ AddressInv /\ [Next]_vars => AddressInv'
  BY AddressStep
<1> QED
  BY PatchInductive, InitAddress, <1>1, PTL DEF Spec

\* A reconciliation takes out the server of its own machine alone.
LEMMA OwnDeregistration ==
    ASSUME TypeOK, FinalizerInv, AddressInv, [Next]_vars, w' # w,
           NEW l \in LbId, NEW n \in servers[l], n \notin servers'[l]
    PROVE  nodes[n].name = w.m /\ store[w.m].deleting
<1>1. CASE AddBackendPut
  <2>1. /\ w.pc = "addPut" /\ w.lb \in LbId
        /\ servers' = [servers EXCEPT ![w.lb] = w.snap \cup {w.obj.address}]
    BY <1>1 DEF AddBackendPut, TypeOK, WorkerOK, Worker
  <2>2. servers[w.lb] \subseteq w.snap
    BY <2>1 DEF AddressInv
  <2> QED
    BY <2>1, <2>2 DEF TypeOK
<1>2. CASE RemoveBackendPut
  <2>1. /\ w.pc = "removePut" /\ w.lb \in LbId /\ w.m \in Machines
        /\ w.obj.address # None
        /\ servers' = [servers EXCEPT ![w.lb] = w.snap \ {w.obj.address}]
    BY <1>2 DEF RemoveBackendPut, TypeOK, WorkerOK, Worker
  <2>2. servers[w.lb] \subseteq w.snap /\ nodes[w.obj.address].name = w.m
    BY <2>1 DEF AddressInv
  <2>3. n = w.obj.address
    BY <2>1, <2>2 DEF TypeOK
  <2> QED
    BY <2>1, <2>2, <2>3 DEF FinalizerInv
<1>3. CASE ClusterStep
  BY <1>3 DEF ClusterStep, MachinesUnchanged
<1> QED
  BY <1>1, <1>2, <1>3, ClusterSteps

\* A reconciliation takes a server out of a load balancer only if it is the node
\* of its own machine and the deletion of that machine was asked for, whatever
\* fails, is lost or is stale: between its GET and its PUT nobody else adds one.
THEOREM OnlyOwnDeregistrations == Spec => DeregistersOnlyItsOwn
<1>1. TypeOK /\ FinalizerInv /\ AddressInv /\ [Next]_vars
        => [\A l \in LbId : \A n \in servers[l] :
              n \notin servers'[l] /\ w' # w
              => nodes[n].name = w.m /\ store[w.m].deleting]_vars
  BY OwnDeregistration
<1> QED
  BY PatchInductive, AddressInductive, <1>1, PTL DEF Spec, DeregistersOnlyItsOwn

-----------------------------------------------------------------------------
(***************************************************************************)
(* Registered as long as it serves.                                        *)
(***************************************************************************)

LEMMA InitServing == Init => ServingInv
<1> SUFFICES ASSUME Init PROVE ServingInv
  OBVIOUS
<1>1. w.pc = "idle" /\ \A m \in Machines : ~store[m].bootstrapped
  BY DEF Init, IdleWorker, NewObject
<1> QED
  BY <1>1, ConstantAssumption DEF ServingInv

\* A load balancer that is recorded and up is not replaced.
LEMMA RecordedStays ==
    ASSUME TypeOK, [Next]_vars, cluster.lb # None, lbs[cluster.lb] # "gone"
    PROVE  cluster'.lb = cluster.lb
<1>0. cluster \in [exists : BOOLEAN, ready : BOOLEAN, lb : LbId \cup {None}]
  BY DEF TypeOK
<1>1. CASE Contract!ClusterReady \/ Contract!ClusterRemoved
  <2>1. \/ cluster' = [cluster EXCEPT !.ready = TRUE]
        \/ cluster' = [cluster EXCEPT !.exists = FALSE]
    BY <1>1 DEF Contract!ClusterReady, Contract!ClusterRemoved
  <2> QED
    BY <1>0, <2>1
<1>2. \A l \in LbId : ~Contract!LBRecorded(l)
  BY DEF Contract!LBRecorded
<1>3. ~Contract!LBForgotten
  BY DEF Contract!LBForgotten
<1> QED
  BY <1>1, <1>2, <1>3, ClusterSteps
  DEF ClusterStep, Contract!LBCreated, Contract!LBVanishes,
      Contract!BackendsCleared

\* A server stays registered unless the deletion of its own machine takes it out.
LEMMA ServingStays ==
    ASSUME TypeOK, FinalizerInv, AddressInv, RegisterInv, [Next]_vars,
           "lbReset" \notin Faults, "clusterGone" \notin Faults,
           NEW n \in NodeId, Serving(n)
    PROVE  Serving(n)' \/ (nodes[n].name = w.m /\ store[w.m].deleting)
<1>1. /\ cluster.lb \in LbId /\ cluster.lb # None /\ n \in servers[cluster.lb]
      /\ cluster'.lb = cluster.lb
  BY RecordedStays DEF Serving, TypeOK, RegisterInv
<1>2. CASE n \in servers'[cluster.lb]
  BY <1>1, <1>2 DEF Serving
<1>3. CASE n \notin servers'[cluster.lb]
  <2>1. AddBackendPut \/ RemoveBackendPut
    BY <1>1, <1>3, ClusterStandsStep
  <2>2. w' # w
    <3>1. w.pc \in {"addPut", "removePut"} /\ Middle
      BY <2>1 DEF AddBackendPut, RemoveBackendPut, Middle
    <3>2. w'.pc # "removePut" /\ w'.pc # "addPut"
      BY <2>1, <3>1, MiddlePath
      DEF AddBackendPut, RemoveBackendPut, AddBackendGet, RemoveBackendGet
    <3> QED
      BY <3>1, <3>2
  <2> QED
    BY <1>1, <1>3, <2>2, OwnDeregistration
<1> QED
  BY <1>2, <1>3

\* What is recorded as bootstrapped is registered, or to be deleted.
LEMMA RecordedServes ==
    ASSUME TypeOK, OwnershipInv, FinalizerInv, PatchInv, AddressInv, RegisterInv,
           SettledInv, ServingInv, [Next]_vars,
           "lbReset" \notin Faults, "clusterGone" \notin Faults,
           NEW m \in ControlPlane, store'[m].bootstrapped
    PROVE  store'[m].deleting \/ Serving(store[m].instanceID)'
<1>0. /\ m \in Machines /\ StoreChange(m)
      /\ store[m].instanceID \in NodeId \cup {None}
  BY ConstantAssumption, StoreSteps, PatchTypes
<1>1. store[m].deleting => store'[m].deleting
  BY <1>0, StoreStatus, PatchTypes, PatchFields DEF StoreChange
<1>2. /\ store'[m].instanceID = store[m].instanceID
      /\ store[m].instanceID # None
      /\ store[m].deleting \/ Serving(store[m].instanceID)
  <2>1. CASE store[m].bootstrapped
    <3>1. store'[m].instanceID = store[m].instanceID
      BY <1>0, <2>1, PatchSettles DEF Settled
    <3>2. store[m].instanceID # None
      BY <1>0, <2>1 DEF SettledInv, Settled
    <3> QED
      BY <2>1, <3>1, <3>2 DEF ServingInv
  <2>2. CASE ~store[m].bootstrapped
    <3>1. /\ PatchStatus /\ w.m = m
          /\ w.obj.bootstrapped /\ ~w.base.bootstrapped
          /\ store[m].instanceID = w.base.instanceID
          /\ w.base.instanceID # None
      BY <1>0, <2>2, PatchSettles
    <3>2. store'[m].instanceID = store[m].instanceID
      <4>1. store'[m] = PatchedStatus(w.base, w.obj, store[m]) \/ Touched(m)
        BY <1>0, <3>1 DEF StoreChange, PatchObject, PatchStatus
      <4> QED
        BY <1>0, <3>1, <4>1, PatchedInstance, StoreStatus
    <3>3. store[m].deleting \/ Serving(w.base.instanceID)
      BY <3>1 DEF ServingInv, PatchStatus
    <3> QED
      BY <3>1, <3>2, <3>3
  <2> QED
    BY <2>1, <2>2
<1>3. nodes[store[m].instanceID].name = m
  BY <1>0, <1>2 DEF OwnershipInv, InstanceIsOwn
<1>4. CASE store[m].deleting
  BY <1>1, <1>4
<1>5. ASSUME NEW n \in NodeId, n = store[m].instanceID, Serving(n),
             ~store[m].deleting
      PROVE  Serving(store[m].instanceID)'
  <2>1. Serving(n)'
    BY <1>3, <1>5, ServingStays
  <2> QED
    BY <1>2, <1>5, <2>1 DEF Serving
<1>6. Serving(store[m].instanceID) /\ ~store[m].deleting
        => Serving(store[m].instanceID)'
  BY <1>0, <1>2, <1>5
<1> QED
  BY <1>2, <1>4, <1>6

\* Who is about to report a bootstrap is registered, or to be deleted.
LEMMA WorkerServes ==
    ASSUME TypeOK, OwnershipInv, FinalizerInv, PatchInv, AddressInv, RegisterInv,
           ServingInv, [Next]_vars,
           "lbReset" \notin Faults, "clusterGone" \notin Faults,
           NEW m \in ControlPlane, w'.pc # "idle", w'.m = m,
           w'.obj.bootstrapped, ~w'.base.bootstrapped
    PROVE  store'[m].deleting \/ Serving(w.base.instanceID)'
<1>0. m \in Machines /\ StoreChange(m) /\ \A k \in Machines : ~Reconcile(k)
  BY ConstantAssumption, StoreSteps, ReconcileBegins
<1>1. store[m].deleting => store'[m].deleting
  BY <1>0, StoreStatus, PatchTypes, PatchFields DEF StoreChange
<1>2. w.pc # "idle" /\ w.m = m /\ w'.base = w.base
  BY <1>0, StillAtWork
<1>3. CASE w.obj.bootstrapped
  <2>1. store[m].deleting \/ Serving(w.base.instanceID)
    BY <1>2, <1>3 DEF ServingInv
  <2>2. /\ w.base.instanceID # None /\ w.obj.instanceID = w.base.instanceID
        /\ nodes[w.base.instanceID].name = m
    BY <1>2, <1>3 DEF PatchInv, OwnershipInv, InstanceIsOwn
  <2>3. w.base.instanceID \in NodeId
    BY <1>0, <2>2, PatchTypes
  <2>4. ASSUME NEW n \in NodeId, n = w.base.instanceID, Serving(n), ~store[m].deleting
        PROVE  Serving(w.base.instanceID)'
    <3>1. Serving(n)'
      BY <1>2, <2>2, <2>4, ServingStays
    <3> QED
      BY <1>2, <2>4, <3>1 DEF Serving
  <2> QED
    BY <1>1, <2>1, <2>3, <2>4
<1>4. CASE ~w.obj.bootstrapped
  <2>1. Middle
    BY <1>0, <1>2, <1>4, StillAtWork
  <2>2. BootstrapRuns
    <3>1. w.obj.bootstrapped \in BOOLEAN /\ w'.obj.bootstrapped # w.obj.bootstrapped
      BY <1>0, <1>4, PatchTypes
    <3>2. w.pc # "tagNode"
      BY <1>2 DEF ServingInv
    <3> QED
      BY <1>4, <2>1, <3>1, <3>2, MiddleStatus
  <2>3. /\ w.pc = "bootstrap" /\ w.lb # None /\ w.lb = cluster.lb
        /\ w.obj.instanceID = w.base.instanceID
        /\ w.base.instanceID \in servers[cluster.lb]
    BY <1>2, <2>2 DEF BootstrapRuns, RegisterInv, ServingInv, PatchInv
  <2>4. servers' = servers /\ cluster' = cluster
    BY <2>2 DEF BootstrapRuns, inputs
  <2> QED
    BY <1>2, <2>3, <2>4 DEF Serving
<1> QED
  BY <1>3, <1>4

LEMMA ServingStep ==
    ASSUME TypeOK, OwnershipInv, FinalizerInv, PatchInv, AddressInv, RegisterInv,
           SettledInv, ServingInv, [Next]_vars,
           "lbReset" \notin Faults, "clusterGone" \notin Faults
    PROVE  ServingInv'
<1>1. ASSUME NEW m \in ControlPlane
      PROVE  store'[m].bootstrapped
                => store'[m].deleting \/ Serving(store[m].instanceID)'
  BY <1>1, RecordedServes
<1>2. ASSUME w'.pc # "idle", w'.lb # None
      PROVE  w'.lb = cluster'.lb
  <2>1. CASE \E k \in Machines : Reconcile(k)
    BY <1>2, <2>1, ReconcileBegins
  <2>2. CASE \A k \in Machines : ~Reconcile(k)
    <3>1. w.pc # "idle" /\ w.lb # None /\ w'.lb = w.lb
      BY <1>2, <2>2, StillAtWork, WorkKeepsLB
    <3>2. w.lb = cluster.lb /\ lbs[cluster.lb] # "gone"
      BY <3>1 DEF ServingInv, RegisterInv
    <3> QED
      BY <3>1, <3>2, RecordedStays
  <2> QED
    BY <2>1, <2>2
<1>3. ASSUME w'.pc = "tagNode" PROVE w'.m \notin ControlPlane
  <2>1. \A k \in Machines : ~Reconcile(k)
    BY <1>3, ReconcileBegins
  <2>2. CASE Middle
    BY <1>3, <2>2, MiddlePath, MiddleKeeps DEF Keeps
  <2>3. CASE ~Middle
    BY <1>3, <2>1, <2>3, OtherSteps DEF ServingInv
  <2> QED
    BY <2>2, <2>3
<1>4. ASSUME w'.pc # "idle", w'.m \in ControlPlane,
             w'.obj.bootstrapped, ~w'.base.bootstrapped
      PROVE  (store[w.m].deleting \/ Serving(w.base.instanceID))'
  <2>1. PICK m \in ControlPlane : w'.m = m
    BY <1>4
  <2>2. store'[m].deleting \/ Serving(w.base.instanceID)'
    BY <1>4, <2>1, WorkerServes
  <2> QED
    BY <2>1, <2>2
<1> QED
  BY <1>1, <1>2, <1>3, <1>4 DEF ServingInv, Serving

\* A control plane machine that was bootstrapped stays registered with the load
\* balancer that the cluster records, while other machines come and go, until its
\* own deletion is asked for.  A running node must have its private IP and the
\* cluster must keep its load balancer; and where the cache lags, a machine must
\* have one node, else the ID recorded may not be that of the registered one.
THEOREM ServesUntilDeleted ==
    ASSUME "noPrivateIP" \notin Faults, "lbReset" \notin Faults,
           "clusterGone" \notin Faults,
           \/ "staleCache" \notin Faults
           \/ "listError" \notin Faults /\ "lateCreate" \notin Faults
    PROVE  Spec => []BootstrappedIsRegistered
<1>1. /\ TypeOK /\ OwnershipInv /\ FinalizerInv /\ PatchInv /\ AddressInv
      /\ RegisterInv /\ ReadyInv /\ ServingInv /\ [Next]_vars
      => ServingInv'
  BY ServingStep DEF ReadyInv
<1>2. ServingInv => BootstrappedIsRegistered
  BY DEF ServingInv, Serving, BootstrappedIsRegistered
<1> QED
  BY PatchInductive, AddressInductive, RegisterInductive, ReadyInductive,
     InitServing, <1>1, <1>2, PTL DEF Spec

-----------------------------------------------------------------------------
(***************************************************************************)
(* No server outlives its machine.                                         *)
(***************************************************************************)

LEMMA InitBackend == Init => BackendInv
<1> SUFFICES ASSUME Init PROVE BackendInv
  OBVIOUS
<1>1. w.pc = "idle" /\ cluster.exists /\ cluster.lb = None
  BY DEF Init, IdleWorker
<1>2. \A l \in LbId : servers[l] = {}
  BY DEF Init
<1> QED
  BY <1>1, <1>2 DEF BackendInv

\* What the E2ECluster controller does to the load balancers while its cluster
\* stays: a server that is left is where it was, in the recorded load balancer.
ClusterKeeps ==
    /\ cluster'.exists
    /\ cluster'.lb # None => lbs'[cluster'.lb] # "absent"
    /\ \A l \in LbId :
          /\ lbs[l] = "gone" => lbs'[l] = "gone"
          /\ lbs'[l] = "up" => servers'[l] = servers[l]
          /\ servers'[l] \subseteq servers[l]
          /\ l = cluster.lb /\ lbs[l] # "gone" => l = cluster'.lb
          /\ servers'[l] # {} => lbs'[l] = lbs[l]

LEMMA ClusterKeepsStep ==
    ASSUME TypeOK, BackendInv, [Next]_vars, "clusterGone" \notin Faults
    PROVE  ClusterKeeps \/ AddBackendPut \/ RemoveBackendPut
<1>0. cluster \in [exists : BOOLEAN, ready : BOOLEAN, lb : LbId \cup {None}]
  BY DEF TypeOK
<1>1. CASE UNCHANGED <<cluster, lbs, servers>>
  BY <1>1 DEF ClusterKeeps, BackendInv
<1>2. ASSUME NEW l \in LbId, Contract!LBCreated(l)
      PROVE  ClusterKeeps
  <2>1. /\ lbs[l] = "absent" /\ UNCHANGED <<cluster, servers>>
        /\ \A k \in LbId : lbs'[k] = IF k = l THEN "up" ELSE lbs[k]
    BY <1>2 DEF Contract!LBCreated, TypeOK
  <2>2. servers[l] = {}
    BY <2>1 DEF BackendInv
  <2> QED
    BY <1>0, <2>1, <2>2 DEF ClusterKeeps, BackendInv
<1>3. ASSUME NEW l \in LbId, Contract!LBVanishes(l)
      PROVE  ClusterKeeps
  <2>1. /\ lbs[l] = "up" /\ cluster' = cluster
        /\ \A k \in LbId : /\ lbs'[k] = IF k = l THEN "gone" ELSE lbs[k]
                           /\ servers'[k] = IF k = l THEN {} ELSE servers[k]
    BY <1>3 DEF Contract!LBVanishes, TypeOK
  <2> QED
    BY <1>0, <2>1 DEF ClusterKeeps, BackendInv
<1>4. ASSUME NEW l \in LbId, Contract!LBRecorded(l)
      PROVE  ClusterKeeps
  <2>1. PICK r \in {cluster.ready, TRUE} :
           cluster' = [cluster EXCEPT !.lb = l, !.ready = r]
    BY <1>4 DEF Contract!LBRecorded
  <2>2. cluster'.lb = l /\ cluster'.exists = cluster.exists
    BY <1>0, <2>1
  <2>3. /\ lbs[l] # "absent"
        /\ cluster.lb # None => lbs[cluster.lb] = "gone"
        /\ UNCHANGED <<lbs, servers>>
    BY <1>4 DEF Contract!LBRecorded
  <2> QED
    BY <1>0, <2>2, <2>3, ConstantAssumption DEF ClusterKeeps, BackendInv
<1>5. CASE Contract!LBForgotten
  <2>1. /\ cluster'.lb = None /\ cluster'.exists = cluster.exists
        /\ lbs[cluster.lb] = "gone" /\ UNCHANGED <<lbs, servers>>
    BY <1>0, <1>5 DEF Contract!LBForgotten
  <2> QED
    BY <2>1 DEF ClusterKeeps, BackendInv
<1>6. CASE Contract!ClusterReady
  <2>1. cluster' = [cluster EXCEPT !.ready = TRUE] /\ UNCHANGED <<lbs, servers>>
    BY <1>6 DEF Contract!ClusterReady
  <2>2. cluster'.lb = cluster.lb /\ cluster'.exists = cluster.exists
    BY <1>0, <2>1
  <2> QED
    BY <2>1, <2>2 DEF ClusterKeeps, BackendInv
<1> QED
  BY <1>1, <1>2, <1>3, <1>4, <1>5, <1>6, ClusterSteps DEF ClusterStep

\* A reconciliation reads the cluster and leaves it alone.
LEMMA MiddleCloud ==
    ASSUME Middle
    PROVE  UNCHANGED <<cluster, lbs>>
  BY DEF Middle, LookupFound, LookupMissed, CreateNode, CreateNodeFails,
         GetNodeNotFound, GetNodeFails, GetNodeNotRunning, GetNodeRunning,
         AddBackendGet, AddBackendPut, AddBackendFails, BootstrapWaits,
         BootstrapRuns, TagNode, TagNodeFails, EnsureControlPlaneNode,
         EnsureControlPlaneNodeFails, RemoveBackendGet, RemoveBackendPut,
         RemoveBackendFails, DeleteNode, DeleteNodeFails, inputs, cloud

\* The part of BackendInv that is about the worker and its load balancer.
WorkerBackend ==
    /\ w.pc # "idle" /\ w.lb # None
          => w.lb = cluster.lb \/ lbs[w.lb] = "gone"
    /\ w.pc \in {"getNode", "addGet", "addPut"} => w.base.finalizer
    /\ w.pc \in {"addGet", "addPut"}
          => /\ w.obj.address = w.obj.instanceID
             /\ nodes[w.obj.instanceID].ip
    /\ w.pc \in {"addPut", "removePut"} /\ lbs[w.lb] = "up"
          => w.snap \subseteq servers[w.lb]

\* In the middle of its work the worker gets there only by having looked.
LEMMA MiddleBackend ==
    ASSUME TypeOK, BackendInv, NodesAge, Middle, "noPrivateIP" \notin Faults
    PROVE  WorkerBackend'
<1>0. /\ w'.lb = w.lb /\ w.pc # "idle" /\ w.lb \in LbId \cup {None}
      /\ w.obj.instanceID \in NodeId \cup {None} /\ w.obj \in Object
      /\ w'.base = w.base
  BY MiddleLB, MiddlePc, MiddleKeeps DEF Keeps, TypeOK, Worker, Object
<1>1. cluster' = cluster /\ lbs' = lbs
  BY MiddleCloud
<1>2. CASE w'.pc = "addGet"
  <2>1. /\ GetNodeRunning /\ NeedsBackend(WithAddress(w.obj))
        /\ w'.obj = WithAddress(w.obj)
    BY <1>2, MiddlePath
  <2>2. /\ w.pc = "getNode" /\ w.obj.instanceID # None
        /\ w'.obj.address # None
        /\ w'.obj.address = AddressOf(w.obj.instanceID)
        /\ w'.obj.instanceID = w.obj.instanceID
    BY <1>0, <2>1
    DEF GetNodeRunning, NeedsBackend, WithAddress, AddressOf, Object, TypeOK, WorkerOK
  <2> QED
    BY <1>0, <1>1, <1>2, <2>2 DEF WorkerBackend, BackendInv, AddressOf, NodesAge
<1>3. CASE w'.pc = "addPut"
  <2>1. /\ AddBackendGet /\ w'.obj = w.obj /\ w'.snap = servers[w.lb]
    BY <1>3, MiddlePath
  <2>2. w.pc = "addGet" /\ w.obj.instanceID \in NodeId /\ servers' = servers
    BY <1>0, <2>1 DEF AddBackendGet, cloud, TypeOK, WorkerOK
  <2> QED
    BY <1>0, <1>1, <1>3, <2>1, <2>2 DEF WorkerBackend, BackendInv, NodesAge
<1>4. CASE w'.pc = "removePut"
  <2>1. w'.snap = servers[w.lb] /\ servers' = servers
    BY <1>4, MiddlePath DEF RemoveBackendGet, cloud
  <2> QED
    BY <1>0, <1>1, <1>4, <2>1 DEF WorkerBackend, BackendInv
<1>5. CASE w'.pc \notin {"addGet", "addPut", "removePut"}
  BY <1>0, <1>1, <1>5, MiddlePath DEF WorkerBackend, BackendInv
<1> QED
  BY <1>2, <1>3, <1>4, <1>5

LEMMA WorkerBackendStep ==
    ASSUME TypeOK, OwnershipInv, BackendInv, [Next]_vars,
           "noPrivateIP" \notin Faults, "clusterGone" \notin Faults
    PROVE  WorkerBackend'
<1>0. NodesAge
  BY NodesOnlyAge
<1>1. CASE \E k \in Machines : Reconcile(k)
  BY <1>1, ReconcileBegins DEF WorkerBackend
<1>2. CASE Middle
  BY <1>0, <1>2, MiddleBackend
<1>3. CASE w'.pc # "idle" /\ ~Middle /\ \A k \in Machines : ~Reconcile(k)
  <2>1. /\ w.pc # "idle" /\ w'.lb = w.lb /\ w.lb \in LbId \cup {None}
        /\ w'.base = w.base /\ w'.obj = w.obj
        /\ \/ w' = w
           \/ w'.pc = "patchStatus"
        /\ w.obj.instanceID \in NodeId \cup {None}
    BY <1>3, StillAtWork, WorkKeepsLB DEF TypeOK, Worker, Object
  <2>2. ClusterKeeps
    BY <1>3, ClusterKeepsStep DEF Middle
  <2>3. w'.lb # None => w'.lb = cluster'.lb \/ lbs'[w'.lb] = "gone"
    BY <2>1, <2>2 DEF BackendInv, ClusterKeeps
  <2>4. CASE w'.pc = "patchStatus"
    BY <2>3, <2>4 DEF WorkerBackend
  <2>5. CASE w' = w
    <3>1. w.pc \in {"addGet", "addPut"} => w.obj.instanceID \in NodeId
      BY <2>1 DEF TypeOK, WorkerOK
    <3>2. w.pc \in {"addPut", "removePut"} => w.lb \in LbId
      BY <2>1 DEF TypeOK, WorkerOK
    <3>3. w.pc \in {"addPut", "removePut"} /\ lbs'[w.lb] = "up"
            => w.snap \subseteq servers'[w.lb]
      <4>1. ASSUME w.pc \in {"addPut", "removePut"}, lbs'[w.lb] = "up"
            PROVE  w.snap \subseteq servers'[w.lb]
        <5>1. w.lb \in LbId /\ w.lb # None /\ lbs[w.lb] \in {"absent", "up", "gone"}
          BY <2>1, <3>2, <4>1 DEF TypeOK, WorkerOK
        <5>2. lbs[w.lb] = "up"
          BY <2>1, <2>2, <4>1, <5>1 DEF BackendInv, ClusterKeeps
        <5> QED
          BY <2>2, <4>1, <5>1, <5>2 DEF BackendInv, ClusterKeeps
      <4> QED
        BY <4>1
    <3> QED
      BY <1>0, <2>3, <2>5, <3>1, <3>3 DEF WorkerBackend, BackendInv, NodesAge
  <2> QED
    BY <2>1, <2>4, <2>5
<1>4. CASE w'.pc = "idle"
  BY <1>4 DEF WorkerBackend
<1> QED
  BY <1>1, <1>2, <1>3, <1>4

\* The deletion of a machine that is held takes the way through RemoveBackendPut,
\* which takes its server out.
LEMMA HeldInMiddle ==
    ASSUME TypeOK, PatchInv, FreshInv, BackendInv, Middle,
           "lbError" \notin Faults,
           NEW l \in LbId, NEW n \in servers[l], n \in servers'[l],
           NEW m \in Machines, w.m = m,
           nodes[n].ip, store[m].instanceID = n, w.obj.address = n, w.obj.finalizer,
           w.pc # "deleteNode", w.pc \in {"removeGet", "removePut"} => w.lb = l
    PROVE  /\ w'.pc # "idle" /\ w'.m = m
           /\ w'.obj.address = n
           /\ w'.obj.finalizer
           /\ w'.pc # "deleteNode"
           /\ w'.pc \in {"removeGet", "removePut"} => w'.lb = l
<1>0. /\ w'.pc # "idle" /\ w.pc # "idle" /\ w'.m = m /\ w'.lb = w.lb
      /\ w'.obj.finalizer = w.obj.finalizer
  BY MiddleKeeps, MiddleLB DEF Keeps
<1>1. w'.obj.address = n
  <2>1. w.pc = "getNode" => w.obj.instanceID = n
    BY <1>0 DEF PatchInv, FreshInv
  <2> QED
    BY <2>1, MiddleAddress DEF AddressOf
<1>2. ~RemoveBackendPut
  <2> SUFFICES ASSUME RemoveBackendPut PROVE FALSE
    OBVIOUS
  <2>1. w.pc = "removePut" /\ servers' = [servers EXCEPT ![w.lb] = w.snap \ {w.obj.address}]
    BY DEF RemoveBackendPut
  <2>2. w.lb = l
    BY <2>1
  <2> QED
    BY <2>1, <2>2 DEF TypeOK
<1>3. ~RemoveBackendFails
  BY DEF RemoveBackendFails, BackendInv
<1>4. w'.pc = "removePut" => w.pc = "removeGet"
  BY MiddlePath DEF RemoveBackendGet
<1> QED
  BY <1>0, <1>1, <1>2, <1>3, <1>4, MiddlePath

\* A reconciliation begins with a held machine as the API server holds it.
LEMMA HeldAtBegin ==
    ASSUME TypeOK, RecordInv, BackendInv, "staleCache" \notin Faults,
           NEW l \in LbId, l = cluster.lb, NEW n \in NodeId,
           NEW m \in Machines, Reconcile(m),
           store[m].instanceID = n, store[m].finalizer, store[m].address = n
    PROVE  /\ w'.pc # "idle" /\ w'.m = m
           /\ w'.obj.address = n
           /\ w'.obj.finalizer
           /\ w'.pc # "deleteNode"
           /\ w'.pc \in {"removeGet", "removePut"} => w'.lb = l
<1>1. l # None /\ n # None /\ owner[m].exists /\ cluster.exists
  BY ConstantAssumption DEF RecordInv, BackendInv
<1> QED
  BY <1>1, ReconcileBegins

\* Only the status patch ends a reconciliation, unless it is refused or the
\* manager dies.
LEMMA WorkEnds ==
    ASSUME TypeOK, [Next]_vars, w.pc # "idle", w'.pc = "idle",
           "crash" \notin Faults, "patchError" \notin Faults
    PROVE  PatchStatus
<1>1. CASE Middle
  BY <1>1, MiddleKeeps DEF Keeps
<1>2. CASE \E k \in Machines : Reconcile(k)
  BY <1>2, ReconcileBegins
<1>3. CASE PatchObject
  BY <1>3, GotoKeeps DEF PatchObject
<1> QED
  BY <1>1, <1>2, <1>3
  DEF Next, Controller, Middle, Environment, PatchObjectFails, PatchStatusFails,
      Crash, CacheSync, AdoptMachine, UserDelete, DataReady, OwnerLost, LateCreate,
      KubeletRegisters, NodeStarts, NodeGetsIP, NodeLosesIP, NodeLost, ClusterStep,
      MachinesUnchanged, TogglePause, vars

\* The node ID and the finalizer of a machine that is held are not written over.
LEMMA HeldRecord ==
    ASSUME TypeOK, PatchInv, FreshInv, [Next]_vars,
           NEW m \in Machines, NEW n \in NodeId, store[m].instanceID = n
    PROVE  /\ store'[m].instanceID = n
           /\ store[m].finalizer /\ (w.pc # "idle" /\ w.m = m => w.obj.finalizer)
                => store'[m].finalizer
<1>0. /\ StoreChange(m) /\ n # None
      /\ store[m] \in Object /\ w.base \in Object /\ w.obj \in Object
      /\ store[m].finalizer \in BOOLEAN /\ w.base.finalizer \in BOOLEAN
      /\ w.obj.finalizer \in BOOLEAN
  BY StoreSteps, PatchTypes, ConstantAssumption
<1>1. CASE Touched(m)
  BY <1>1, StoreStatus
<1>2. CASE /\ PatchObject /\ w.m = m
           /\ store'[m] = PatchedObject(w.base, w.obj, store[m])
  <2>1. store'[m] = PatchedObject(w.base, w.obj, store[m])
    BY <1>2
  <2>2. store'[m].instanceID = store[m].instanceID
    BY <1>0, <2>1, PatchFields
  <2>3. store'[m].finalizer
          = Merged(w.base.finalizer, w.obj.finalizer, store[m].finalizer)
    BY <1>0, <2>1, PatchFields
  <2>4. w.pc # "idle" /\ w.m = m
    BY <1>2 DEF PatchObject
  <2> QED
    BY <2>2, <2>3, <2>4 DEF Merged
<1>3. CASE /\ PatchStatus /\ w.m = m
           /\ store'[m] = PatchedStatus(w.base, w.obj, store[m])
  <2>1. store'[m] = PatchedStatus(w.base, w.obj, store[m])
    BY <1>3
  <2>2. store'[m].finalizer = store[m].finalizer
    BY <1>0, <2>1, PatchFields
  <2>3. store'[m].instanceID
          = Merged(w.base.instanceID, w.obj.instanceID, store[m].instanceID)
    BY <1>0, <2>1, PatchFields
  <2>4. w.base.instanceID = n /\ w.obj.instanceID = n
    BY <1>0, <1>3 DEF PatchStatus, FreshInv, PatchInv
  <2> QED
    BY <2>2, <2>3, <2>4 DEF Merged
<1> QED
  BY <1>0, <1>1, <1>2, <1>3 DEF StoreChange

\* The address of a machine that is held is in the API server when nobody works
\* on the machine.
LEMMA HeldAddress ==
    ASSUME TypeOK, FreshInv, RecordInv, [Next]_vars,
           "crash" \notin Faults, "patchError" \notin Faults,
           NEW m \in Machines, NEW n \in NodeId, store[m].finalizer,
           IF w.pc # "idle" /\ w.m = m THEN w.obj.address = n
                                       ELSE store[m].address = n,
           ~(w'.pc # "idle" /\ w'.m = m)
    PROVE  store'[m].address = n
<1>0. /\ StoreChange(m)
      /\ store[m] \in Object /\ w.base \in Object /\ w.obj \in Object
  BY StoreSteps, PatchTypes
<1>1. CASE w.pc # "idle" /\ w.m = m
  <2>1. PatchStatus
    <3>1. \A k \in Machines : ~Reconcile(k)
      BY <1>1, ReconcileBegins
    <3> QED
      BY <1>1, <3>1, StillAtWork, WorkEnds
  <2>2. store'[m] = PatchedStatus(w.base, w.obj, store[m])
    <3>1. store[m].exists
      BY DEF RecordInv
    <3> QED
      BY <1>1, <2>1, <3>1 DEF PatchStatus, Patch, TypeOK
  <2>3. store'[m].address = Merged(w.base.address, w.obj.address, store[m].address)
    BY <1>0, <2>2, PatchFields
  <2>4. w.base.address = store[m].address
    BY <1>1 DEF FreshInv
  <2> QED
    BY <1>1, <2>3, <2>4 DEF Merged
<1>2. CASE ~(w.pc # "idle" /\ w.m = m)
  <2>1. CASE Touched(m)
    BY <1>2, <2>1, StoreStatus
  <2>2. CASE store'[m] = PatchedObject(w.base, w.obj, store[m])
    BY <1>0, <1>2, <2>2, PatchFields
  <2>3. ~(PatchStatus /\ w.m = m)
    BY <1>2 DEF PatchStatus
  <2> QED
    BY <1>0, <2>1, <2>2, <2>3 DEF StoreChange
<1> QED
  BY <1>1, <1>2

\* A server that is left is held.
LEMMA HeldStays ==
    ASSUME TypeOK, OwnershipInv, PatchInv, FreshInv, RecordInv, BackendInv, [Next]_vars,
           "staleCache" \notin Faults, "crash" \notin Faults,
           "patchError" \notin Faults, "lbError" \notin Faults,
           "noPrivateIP" \notin Faults,
           NEW l \in LbId, NEW n \in servers[l], n \in servers'[l]
    PROVE  Held(n, l)'
<1>0. n \in NodeId /\ n # None /\ l = cluster.lb
  BY ConstantAssumption DEF TypeOK, BackendInv
<1>1. PICK m \in Machines :
         /\ nodes[n].name = m
         /\ nodes[n].ip
         /\ store[m].instanceID = n
         /\ store[m].finalizer
         /\ IF w.pc # "idle" /\ w.m = m
            THEN /\ w.obj.address = n
                 /\ w.obj.finalizer
                 /\ w.pc # "deleteNode"
                 /\ w.pc \in {"removeGet", "removePut"} => w.lb = l
            ELSE store[m].address = n
  BY DEF BackendInv, Held
<1>2. nodes'[n].name = m /\ nodes'[n].ip
  BY <1>0, <1>1, NamesStep, NodesOnlyAge, ConstantAssumption DEF NamesKept, NodesAge
<1>3. store'[m].instanceID = n /\ store'[m].finalizer
  BY <1>0, <1>1, HeldRecord
<1>4. ASSUME w'.pc # "idle", w'.m = m
      PROVE  /\ w'.obj.address = n
             /\ w'.obj.finalizer
             /\ w'.pc # "deleteNode"
             /\ w'.pc \in {"removeGet", "removePut"} => w'.lb = l
  <2>1. CASE \E k \in Machines : Reconcile(k)
    <3>1. Reconcile(m) /\ w.pc = "idle"
      BY <1>4, <2>1, ReconcileBegins
    <3> QED
      BY <1>0, <1>1, <3>1, HeldAtBegin
  <2>2. CASE Middle
    <3>1. w.pc # "idle" /\ w.m = m
      BY <1>4, <2>2, MiddleKeeps DEF Keeps
    <3> QED
      BY <1>1, <2>2, <3>1, HeldInMiddle
  <2>3. CASE ~Middle /\ \A k \in Machines : ~Reconcile(k)
    <3>1. /\ w.pc # "idle" /\ w.m = m /\ w'.obj = w.obj /\ w'.lb = w.lb
          /\ w' = w \/ w'.pc = "patchStatus"
      BY <1>4, <2>3, StillAtWork, WorkKeepsLB
    <3> QED
      BY <1>1, <3>1
  <2> QED
    BY <2>1, <2>2, <2>3
<1>5. ~(w'.pc # "idle" /\ w'.m = m) => store'[m].address = n
  BY <1>0, <1>1, HeldAddress
<1> QED
  BY <1>2, <1>3, <1>4, <1>5 DEF Held

\* The server that AddBackendPut adds is held by the worker.
LEMMA AddedIsHeld ==
    ASSUME TypeOK, OwnershipInv, PatchInv, FreshInv, BackendInv, AddBackendPut
    PROVE  /\ w.lb \in LbId /\ w.lb = cluster.lb /\ lbs[w.lb] = "up"
           /\ \A l \in LbId : servers'[l] \subseteq servers[l]
                \cup IF l = w.lb THEN {w.obj.address} ELSE {}
           /\ \A l \in LbId, n \in NodeId :
                 l = w.lb /\ n = w.obj.address => Held(n, l)'
<1>1. /\ w.pc = "addPut" /\ w.m \in Machines /\ w.obj \in Object
      /\ w.lb \in LbId /\ lbs[w.lb] = "up" /\ w.lb # None
      /\ servers' = [servers EXCEPT ![w.lb] = w.snap \cup {w.obj.address}]
      /\ w.obj.instanceID \in NodeId /\ w.obj.instanceID # None
      /\ UNCHANGED <<store, nodes, cluster>>
  BY ConstantAssumption DEF AddBackendPut, TypeOK, WorkerOK, Worker, Object, inputs
<1>2. w.lb = cluster.lb /\ w.snap \subseteq servers[w.lb]
  BY <1>1 DEF BackendInv
<1>3. \A l \in LbId : servers'[l] \subseteq servers[l]
         \cup IF l = w.lb THEN {w.obj.address} ELSE {}
  BY <1>1, <1>2 DEF TypeOK
<1>4. ToBootstrap(w.obj) \/ Return(w.obj)
  BY DEF AddBackendPut
<1>5. /\ w'.pc \in {"bootstrap", "cpNode", "patchObject"} /\ w'.m = w.m
      /\ w'.obj.address = w.obj.address /\ w'.obj.finalizer = w.obj.finalizer
  BY <1>1, <1>4, ToBootstrapKeeps, ReturnKeeps, MiddleAddress DEF Middle
<1>6. /\ w.obj.address = w.obj.instanceID
      /\ nodes[w.obj.instanceID].ip /\ nodes[w.obj.instanceID].name = w.m
      /\ w.base.instanceID = w.obj.instanceID /\ w.base.finalizer
      /\ w.obj.finalizer = w.base.finalizer
  BY <1>1 DEF BackendInv, OwnershipInv, InstanceIsOwn, PatchInv
<1>7. store[w.m].instanceID = w.obj.instanceID /\ store[w.m].finalizer
  BY <1>1, <1>6 DEF FreshInv
<1>8. ASSUME NEW l \in LbId, NEW n \in NodeId, l = w.lb, n = w.obj.address
      PROVE  Held(n, l)'
  <2>1. PICK m \in Machines : m = w.m
    BY <1>1
  <2> QED
    BY <1>1, <1>5, <1>6, <1>7, <1>8, <2>1 DEF Held
<1> QED
  BY <1>1, <1>2, <1>3, <1>8

LEMMA BackendStep ==
    ASSUME TypeOK, OwnershipInv, PatchInv, FreshInv, RecordInv, BackendInv, [Next]_vars,
           "staleCache" \notin Faults, "crash" \notin Faults,
           "patchError" \notin Faults, "lbError" \notin Faults,
           "noPrivateIP" \notin Faults, "clusterGone" \notin Faults
    PROVE  BackendInv'
<1>1. WorkerBackend'
  BY WorkerBackendStep
<1>2. CASE ClusterKeeps
  <2>1. ASSUME NEW l \in LbId, NEW n \in servers'[l]
        PROVE  lbs'[l] = "up" /\ l = cluster'.lb /\ Held(n, l)'
    <3>1. n \in servers[l] /\ lbs'[l] = lbs[l]
      BY <1>2, <2>1 DEF ClusterKeeps
    <3>2. lbs[l] = "up" /\ l = cluster.lb
      BY <3>1 DEF BackendInv
    <3>3. l = cluster'.lb
      BY <1>2, <3>2 DEF ClusterKeeps
    <3> QED
      BY <2>1, <3>1, <3>2, <3>3, HeldStays
  <2> QED
    BY <1>1, <1>2, <2>1 DEF ClusterKeeps, BackendInv, WorkerBackend
<1>3. CASE AddBackendPut \/ RemoveBackendPut
  <2>0. cluster' = cluster /\ lbs' = lbs
    BY <1>3, MiddleCloud DEF Middle
  <2>1. ASSUME NEW l \in LbId, NEW n \in servers'[l]
        PROVE  \/ n \in servers[l]
               \/ AddBackendPut /\ l = w.lb /\ n = w.obj.address
    <3>1. CASE AddBackendPut
      BY <2>1, <3>1, AddedIsHeld
    <3>2. CASE RemoveBackendPut
      <4>1. /\ w.pc = "removePut" /\ w.lb \in LbId /\ lbs[w.lb] = "up"
            /\ servers' = [servers EXCEPT ![w.lb] = w.snap \ {w.obj.address}]
        BY <3>2 DEF RemoveBackendPut, TypeOK, WorkerOK, Worker
      <4>2. w.snap \subseteq servers[w.lb]
        BY <4>1 DEF BackendInv
      <4> QED
        BY <2>1, <4>1, <4>2 DEF TypeOK
    <3> QED
      BY <1>3, <3>1, <3>2
  <2>2. ASSUME NEW l \in LbId, NEW n \in servers'[l]
        PROVE  lbs[l] = "up" /\ l = cluster.lb /\ Held(n, l)'
    <3>1. CASE n \in servers[l]
      BY <2>2, <3>1, HeldStays DEF BackendInv
    <3>2. CASE AddBackendPut /\ l = w.lb /\ n = w.obj.address
      <4>1. n \in NodeId
        BY <3>2, ConstantAssumption DEF AddBackendPut, TypeOK, WorkerOK, Worker, Object
      <4> QED
        BY <3>2, <4>1, AddedIsHeld
    <3> QED
      BY <2>1, <2>2, <3>1, <3>2
  <2> QED
    BY <1>1, <2>0, <2>2 DEF BackendInv, WorkerBackend
<1> QED
  BY <1>2, <1>3, ClusterKeepsStep

\* An object goes only after its server was taken out of every load balancer,
\* whatever else happens to the nodes, the cluster's load balancer and the calls
\* of the cloud.  It takes that all objects are read and written as they are, that
\* load balancer calls succeed, that a node keeps its private IP, and that owner and
\* cluster outlive the machine: without any one of these a server is left behind.
THEOREM LeavesNoBackend ==
    ASSUME "staleCache" \notin Faults, "crash" \notin Faults,
           "patchError" \notin Faults, "lbError" \notin Faults,
           "ownerGone" \notin Faults, "clusterGone" \notin Faults,
           "noPrivateIP" \notin Faults
    PROVE  Spec => []NoStaleBackend
<1>1. /\ TypeOK /\ OwnershipInv /\ PatchInv /\ FreshInv /\ RecordInv /\ BackendInv
      /\ [Next]_vars
      => BackendInv'
  BY BackendStep
<1>2. RecordInv /\ BackendInv => NoStaleBackend
  BY DEF RecordInv, BackendInv, Held, NoStaleBackend
<1> QED
  BY PatchInductive, ReadsStayTrue, RecordInductive, InitBackend, <1>1, <1>2, PTL
  DEF Spec

-----------------------------------------------------------------------------
(***************************************************************************)
(* The other side of the contract.                                         *)
(***************************************************************************)

\* A step of the worker touches no load balancer but by its two PUT requests.
LEMMA WorkerWrites ==
    ASSUME TypeOK, Controller
    PROVE  [Contract!MachineStep]_(Contract!contractVars)
<1>1. CASE AddBackendPut \/ RemoveBackendPut
  <2>1. /\ w.lb \in LbId /\ w.obj.address \in NodeId /\ w.snap \subseteq NodeId
        /\ lbs[w.lb] = "up"
    BY <1>1, ConstantAssumption
    DEF AddBackendPut, RemoveBackendPut, TypeOK, WorkerOK, Worker, Object
  <2>2. \E s \in SUBSET NodeId : servers' = [servers EXCEPT ![w.lb] = s]
    BY <1>1, <2>1 DEF AddBackendPut, RemoveBackendPut
  <2>3. UNCHANGED <<cluster, lbs>>
    BY <1>1, MiddleCloud DEF Middle
  <2> QED
    BY <2>1, <2>2, <2>3 DEF Contract!MachineStep, Contract!BackendsWritten
<1>2. CASE ~AddBackendPut /\ ~RemoveBackendPut
  <2>1. UNCHANGED <<cluster, lbs, servers>>
    BY <1>2
    DEF Controller, Reconcile, OwnerNotFound, DeleteInstance,
        DeleteWithoutInstance, AddFinalizer, StartCreate, StartStatus, Begin,
        LookupFound, LookupMissed, CreateNode, CreateNodeFails, GetNodeNotFound,
        GetNodeFails, GetNodeNotRunning, GetNodeRunning, AddBackendGet,
        AddBackendFails, BootstrapWaits, BootstrapRuns, TagNode,
        TagNodeFails, EnsureControlPlaneNode, EnsureControlPlaneNodeFails,
        RemoveBackendGet, RemoveBackendFails, DeleteNode,
        DeleteNodeFails, PatchObject, PatchObjectFails, PatchStatus,
        PatchStatusFails, cloud, inputs
  <2> QED
    BY <2>1 DEF Contract!contractVars
<1> QED
  BY <1>1, <1>2

\* What E2ECluster may take for granted of the machines, whatever fails: all that a
\* reconciliation does to the cluster and its load balancers is to write the backend
\* group of one that is up (BackendsWritten), and so E2EMachine as a whole, with
\* its environment, does what the contract allows and nothing else.
THEOREM MachinesKeepContract ==
    Spec => /\ [][Controller => [Contract!MachineStep]_(Contract!contractVars)]_vars
            /\ Contract!Spec
<1>1. Init => Contract!Init
  BY DEF Init, Contract!Init
<1>2. TypeOK /\ [Next]_vars
        => [Controller => [Contract!MachineStep]_(Contract!contractVars)]_vars
  BY WorkerWrites
<1>3. TypeOK /\ [Next]_vars => [Contract!Next]_(Contract!contractVars)
  <2> SUFFICES ASSUME TypeOK, [Next]_vars
               PROVE  [Contract!Next]_(Contract!contractVars)
    OBVIOUS
  <2>1. CASE Controller
    BY <2>1, WorkerWrites DEF Contract!Next
  <2>2. CASE ClusterStep
    BY <2>2 DEF ClusterStep, Contract!Next, Contract!ControllerStep
  <2>3. CASE ~Controller /\ ~ClusterStep
    <3>1. UNCHANGED <<cluster, lbs, servers>>
      BY <2>3, ClusterSteps DEF Controller
    <3> QED
      BY <3>1 DEF Contract!contractVars
  <2> QED
    BY <2>1, <2>2, <2>3
<1> QED
  BY TypeCorrect, <1>1, <1>2, <1>3, PTL DEF Spec, Contract!Spec

=============================================================================
