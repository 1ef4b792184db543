-------------------------- MODULE E2EClusterProofs --------------------------
(***************************************************************************)
(* Proofs about the E2ECluster controller, for any sets of load balancers  *)
(* and backends: its type invariant and what it does to an object for      *)
(* every choice of faults; that there is one load balancer and that the    *)
(* machines get what ClusterContract promises them, for every choice that  *)
(* leaves out "listError" and "lateCreate".                                *)
(***************************************************************************)
EXTENDS E2ECluster, TLAPS

\* Where every type is looked into.
USE DEF WorkerPc

-----------------------------------------------------------------------------
(***************************************************************************)
(* Types.                                                                  *)
(***************************************************************************)

LEMMA ObjectUpdate ==
    ASSUME NEW o \in Object
    PROVE  /\ \A b \in BOOLEAN : [o EXCEPT !.finalizer = b] \in Object
           /\ \A i, j \in LbId \cup {None} :
                 /\ [o EXCEPT !.lb = i, !.ip = j] \in Object
                 /\ [o EXCEPT !.lb = i, !.ip = j].lb = i
                 /\ [o EXCEPT !.lb = i, !.ip = j].ready = o.ready
           /\ [o EXCEPT !.endpoint = o.ip, !.ready = TRUE] \in Object
           /\ [o EXCEPT !.endpoint = o.ip, !.ready = TRUE].lb = o.lb
           /\ [o EXCEPT !.endpoint = o.ip, !.ready = TRUE].ready
           /\ [o EXCEPT !.endpoint = o.ip, !.ready = TRUE].finalizer = o.finalizer
  BY DEF Object

LEMMA PatchedType ==
    ASSUME NEW b \in Object, NEW o \in Object, NEW old \in Object
    PROVE  /\ PatchedObject(b, o, old) \in Object
           /\ PatchedObject(b, o, old).lb = old.lb
           /\ PatchedObject(b, o, old).ready = old.ready
           /\ PatchedObject(b, o, old).deleting = old.deleting
           /\ PatchedObject(b, o, old).finalizer
                = IF b.finalizer = o.finalizer THEN old.finalizer ELSE o.finalizer
           /\ PatchedObject(b, o, old).exists
                <=> ~old.deleting \/ PatchedObject(b, o, old).finalizer
           /\ PatchedStatus(b, o, old) \in Object
           /\ PatchedStatus(b, o, old).exists = old.exists
           /\ PatchedStatus(b, o, old).lb
                = IF b.lb = o.lb THEN old.lb ELSE o.lb
           /\ PatchedStatus(b, o, old).ready
                = IF b.ready = o.ready THEN old.ready ELSE o.ready
<1>1. /\ \A x, y, z \in BOOLEAN : Merged(x, y, z) \in BOOLEAN
      /\ \A x, y, z \in LbId \cup {None} : Merged(x, y, z) \in LbId \cup {None}
  BY DEF Merged
<1>2. /\ PatchedStatus(b, o, old) \in Object
      /\ PatchedStatus(b, o, old).exists = old.exists
      /\ PatchedStatus(b, o, old).lb = Merged(b.lb, o.lb, old.lb)
      /\ PatchedStatus(b, o, old).ready = Merged(b.ready, o.ready, old.ready)
  <2> DEFINE l == Merged(b.lb, o.lb, old.lb)
             i == Merged(b.ip, o.ip, old.ip)
             r == Merged(b.ready, o.ready, old.ready)
  <2>1. l \in LbId \cup {None} /\ i \in LbId \cup {None} /\ r \in BOOLEAN
    BY <1>1 DEF Object
  <2>2. PatchedStatus(b, o, old) = [old EXCEPT !.lb = l, !.ip = i, !.ready = r]
    BY DEF PatchedStatus
  <2> HIDE DEF l, i, r
  <2>3. /\ PatchedStatus(b, o, old) \in Object
        /\ PatchedStatus(b, o, old).exists = old.exists
        /\ PatchedStatus(b, o, old).lb = l
        /\ PatchedStatus(b, o, old).ready = r
    BY <2>1, <2>2 DEF Object
  <2> QED
    BY <2>3 DEF l, r
<1>3. /\ PatchedObject(b, o, old) \in Object
      /\ PatchedObject(b, o, old).lb = old.lb
      /\ PatchedObject(b, o, old).ready = old.ready
      /\ PatchedObject(b, o, old).deleting = old.deleting
      /\ PatchedObject(b, o, old).finalizer
            = Merged(b.finalizer, o.finalizer, old.finalizer)
      /\ PatchedObject(b, o, old).exists
            <=> ~old.deleting \/ PatchedObject(b, o, old).finalizer
  <2> DEFINE f == Merged(b.finalizer, o.finalizer, old.finalizer)
             e == Merged(b.endpoint, o.endpoint, old.endpoint)
             new == [old EXCEPT !.finalizer = f, !.endpoint = e]
  <2>1. f \in BOOLEAN /\ e \in LbId \cup {None}
    BY <1>1 DEF Object
  <2>2. PatchedObject(b, o, old)
          = [new EXCEPT !.exists = ~new.deleting \/ new.finalizer]
    BY DEF PatchedObject
  <2> HIDE DEF f, e
  <2>3. /\ new \in Object /\ new.lb = old.lb /\ new.ready = old.ready
        /\ new.deleting = old.deleting /\ new.finalizer = f
    BY <2>1 DEF Object
  <2> HIDE DEF new
  <2>4. /\ PatchedObject(b, o, old) \in Object
        /\ PatchedObject(b, o, old).lb = old.lb
        /\ PatchedObject(b, o, old).ready = old.ready
        /\ PatchedObject(b, o, old).deleting = old.deleting
        /\ PatchedObject(b, o, old).finalizer = f
        /\ PatchedObject(b, o, old).exists <=> ~old.deleting \/ f
    BY <2>1, <2>2, <2>3 DEF Object
  <2> QED
    BY <2>4 DEF f
<1> QED
  BY <1>2, <1>3 DEF Merged

LEMMA InitType == Init => TypeOK
<1> SUFFICES ASSUME Init PROVE TypeOK
  OBVIOUS
<1>1. NewObject \in Object
  BY DEF NewObject, Object
<1>2. w \in Worker /\ w.pc = "idle"
  BY <1>1 DEF Init, IdleWorker, Worker
<1> QED
  BY <1>1, <1>2 DEF Init, TypeOK

\* What the ways of going on do to the worker.
LEMMA BeginFacts ==
    ASSUME TypeOK, NEW p \in WorkerPc, NEW o \in Object, Begin(p, o)
    PROVE  /\ w' \in Worker /\ w'.pc = p /\ w'.obj = o /\ w'.base = cache
           /\ UNCHANGED <<store, cache, paused, lbs, addressed, servers, late>>
  BY DEF TypeOK, Begin, Worker, cloud

LEMMA ReturnFacts ==
    ASSUME TypeOK, NEW o \in Object, Return(o)
    PROVE  w' \in Worker /\ w'.pc = "patchObject" /\ w'.obj = o /\ w'.base = w.base
  BY DEF TypeOK, Return, Worker

LEMMA GotoFacts ==
    ASSUME TypeOK, NEW p \in WorkerPc, Goto(p)
    PROVE  w' \in Worker /\ w'.pc = p /\ w'.obj = w.obj /\ w'.base = w.base
  BY DEF TypeOK, Goto, Worker

LEMMA FinishFacts ==
    ASSUME TypeOK, NEW o \in Object, Finish(o)
    PROVE  /\ w' \in Worker /\ w'.pc = "patchObject" /\ w'.base = w.base
           /\ w'.obj.lb = o.lb
           /\ w'.obj.ready = o.ready \/ w'.obj.ready
           /\ w'.obj.finalizer = o.finalizer
<1> DEFINE p == IF o.ip = None THEN o
                ELSE [o EXCEPT !.endpoint = o.ip, !.ready = TRUE]
<1>1. /\ p \in Object /\ p.lb = o.lb
      /\ p.ready = o.ready \/ p.ready
      /\ p.finalizer = o.finalizer
  BY ObjectUpdate
<1>2. Return(p)
  BY DEF Finish
<1> HIDE DEF p
<1> QED
  BY <1>1, <1>2, ReturnFacts

LEMMA IdleFacts ==
    /\ IdleWorker \in Worker /\ IdleWorker.pc = "idle"
    /\ IdleWorker.base.lb = None
  BY DEF IdleWorker, Worker, NewObject, Object

\* A new load balancer, with or without an address.
LEMMA ProvisionType ==
    ASSUME TypeOK, NEW l \in LbId, Provision(l)
    PROVE  /\ lbs' \in [LbId -> {"absent", "up", "gone"}]
           /\ addressed' \in SUBSET LbId
  BY DEF TypeOK, Provision

LEMMA WithLBType ==
    ASSUME TypeOK, NEW l \in LbId
    PROVE  /\ WithLB(l) \in Object
           /\ WithLB(l).lb = l
           /\ WithLB(l).ready = w.obj.ready
           /\ WithLB(l).finalizer = w.obj.finalizer
<1>1. w.obj \in Object /\ PublicIP(l) \in LbId \cup {None}
  BY DEF TypeOK, Worker, PublicIP
<1> DEFINE o == w.obj  i == PublicIP(l)
<1> HIDE DEF o, i
<1>2. /\ [o EXCEPT !.lb = l, !.ip = i] \in Object
      /\ [o EXCEPT !.lb = l, !.ip = i].lb = l
      /\ [o EXCEPT !.lb = l, !.ip = i].ready = o.ready
      /\ [o EXCEPT !.lb = l, !.ip = i].finalizer = o.finalizer
  BY <1>1 DEF Object, o, i
<1> QED
  BY <1>2 DEF WithLB, o, i

\* The type invariant where a step changes nothing but the worker.
LEMMA WorkerStepType ==
    ASSUME TypeOK, UNCHANGED <<store, cache, paused, cloud>>, w' \in Worker,
           w'.pc \in {"getLB", "clearGet", "clearPut", "deleteLB"}
              => w'.obj.lb # None
    PROVE  TypeOK'
  BY DEF TypeOK, cloud

LEMMA ReconcileType ==
    ASSUME TypeOK, Reconcile
    PROVE  TypeOK'
<1>1. /\ cache \in Object
      /\ [cache EXCEPT !.finalizer = TRUE] \in Object
      /\ [cache EXCEPT !.finalizer = FALSE] \in Object
  BY ObjectUpdate DEF TypeOK
<1>2. ASSUME NEW p \in WorkerPc, NEW o \in Object, Begin(p, o),
             p = "patchObject" \/ p = "lookup" \/ o.lb # None
      PROVE  TypeOK'
  BY <1>2, BeginFacts, WorkerStepType DEF cloud
<1>3. CASE AddFinalizer
  BY <1>1, <1>2, <1>3 DEF AddFinalizer
<1>4. CASE CheckRecorded
  BY <1>1, <1>2, <1>4 DEF CheckRecorded
<1>5. CASE StartLookup
  BY <1>1, <1>2, <1>5 DEF StartLookup
<1>6. CASE DeleteLoadBalancer
  BY <1>1, <1>2, <1>6 DEF DeleteLoadBalancer
<1>7. CASE DeleteWithoutLB
  BY <1>1, <1>2, <1>7 DEF DeleteWithoutLB
<1> QED
  BY <1>3, <1>4, <1>5, <1>6, <1>7 DEF Reconcile

LEMMA ControllerType ==
    ASSUME TypeOK, Controller
    PROVE  TypeOK'
<1> USE DEF cloud
<1>1. /\ w.obj \in Object /\ w.base \in Object /\ store \in Object
      /\ [w.obj EXCEPT !.finalizer = FALSE] \in Object
      /\ [w.obj EXCEPT !.lb = None, !.ip = None] \in Object
      /\ [w.obj EXCEPT !.lb = None, !.ip = None].lb = None
  <2>1. w.obj \in Object /\ w.base \in Object /\ store \in Object
    BY DEF TypeOK, Worker
  <2> DEFINE o == w.obj
  <2> HIDE DEF o
  <2>2. /\ [o EXCEPT !.finalizer = FALSE] \in Object
        /\ [o EXCEPT !.lb = None, !.ip = None] \in Object
        /\ [o EXCEPT !.lb = None, !.ip = None].lb = None
    <3>1. o \in Object
      BY <2>1 DEF o
    <3> QED
      BY <3>1 DEF Object
  <2> QED
    BY <2>1, <2>2 DEF o
<1>2. CASE Reconcile
  BY <1>2, ReconcileType
<1>3. CASE GetLBFound
  BY <1>1, <1>3, WithLBType, FinishFacts, WorkerStepType DEF GetLBFound, Up
<1>4. CASE GetLBGone
  <2>1. w'.pc = "lookup" /\ w' \in Worker
    BY <1>1, <1>4 DEF GetLBGone, TypeOK, Worker
  <2> QED
    BY <1>4, <2>1, WorkerStepType DEF GetLBGone
<1>5. CASE GetLBFails
  BY <1>1, <1>5, ReturnFacts, WorkerStepType DEF GetLBFails
<1>6. CASE LookupFound
  <2>1. PICK l \in Up : Finish(WithLB(l))
    BY <1>6 DEF LookupFound
  <2> QED
    BY <1>6, <2>1, WithLBType, FinishFacts, WorkerStepType DEF LookupFound, Up
<1>7. CASE LookupMissed
  BY <1>7, GotoFacts, WorkerStepType DEF LookupMissed
<1>8. CASE CreateLB
  <2>1. PICK l \in LbId :
           /\ Provision(l)
           /\ \/ Finish([w.obj EXCEPT !.lb = l,
                                     !.ip = IF l \in addressed' THEN l ELSE None])
              \/ Return(w.obj)
    BY <1>8 DEF CreateLB
  <2>2. [w.obj EXCEPT !.lb = l, !.ip = IF l \in addressed' THEN l ELSE None] \in Object
    BY <1>1, ObjectUpdate
  <2>3. w' \in Worker /\ w'.pc = "patchObject"
    BY <1>1, <2>1, <2>2, ReturnFacts, FinishFacts
  <2> QED
    BY <1>8, <2>1, <2>3, ProvisionType DEF CreateLB, TypeOK
<1>9. CASE CreateLBFails
  <2>1. w' \in Worker /\ w'.pc = "patchObject"
    BY <1>1, <1>9, ReturnFacts DEF CreateLBFails
  <2> QED
    BY <1>9, <2>1 DEF CreateLBFails, TypeOK
<1>10. CASE ClearGet
  BY <1>10, GotoFacts, WorkerStepType DEF ClearGet, TypeOK
<1>11. CASE ClearPut
  <2>1. w' \in Worker /\ w'.pc = "deleteLB" /\ w'.obj.lb # None
    BY <1>11, GotoFacts DEF ClearPut, TypeOK
  <2> QED
    BY <1>11, <2>1 DEF ClearPut, TypeOK
<1>12. CASE ClearSkipped
  BY <1>12, GotoFacts, WorkerStepType DEF ClearSkipped, TypeOK
<1>13. CASE DeleteLB
  <2>1. w' \in Worker /\ w'.pc = "patchObject"
    BY <1>1, <1>13, ReturnFacts DEF DeleteLB
  <2> QED
    BY <1>13, <2>1 DEF DeleteLB, TypeOK
<1>14. CASE DeleteLBFails
  BY <1>1, <1>14, ReturnFacts, WorkerStepType DEF DeleteLBFails
<1>15. CASE PatchObject \/ PatchObjectFails
  <2>1. w' \in Worker /\ w'.pc = "patchStatus"
    BY <1>15, GotoFacts DEF PatchObject, PatchObjectFails
  <2>2. store' \in Object
    BY <1>1, <1>15, PatchedType DEF PatchObject, PatchObjectFails
  <2> QED
    BY <1>15, <2>1, <2>2 DEF PatchObject, PatchObjectFails, TypeOK
<1>16. CASE PatchStatus \/ PatchStatusFails
  <2>1. store' \in Object
    BY <1>1, <1>16, PatchedType DEF PatchStatus, PatchStatusFails
  <2> QED
    BY <1>16, <2>1, IdleFacts DEF PatchStatus, PatchStatusFails, TypeOK
<1> QED
  BY <1>2, <1>3, <1>4, <1>5, <1>6, <1>7, <1>8, <1>9, <1>10, <1>11, <1>12,
     <1>13, <1>14, <1>15, <1>16 DEF Controller

LEMMA EnvironmentType ==
    ASSUME TypeOK, Environment
    PROVE  TypeOK'
<1> USE DEF cloud
<1>1. CASE CacheSync
  BY <1>1 DEF CacheSync, TypeOK
<1>2. CASE Crash
  BY <1>2, IdleFacts DEF Crash, TypeOK
<1>3. CASE AdoptCluster \/ UserDelete
  <2>1. store' \in Object
    BY <1>3 DEF AdoptCluster, UserDelete, TypeOK, Object
  <2> QED
    BY <1>3, <2>1 DEF AdoptCluster, UserDelete, TypeOK
<1>4. ASSUME NEW l \in LbId, LBReset(l)
      PROVE  TypeOK'
  BY <1>4 DEF LBReset, Contract!LBVanishes, TypeOK
<1>5. ASSUME NEW l \in LbId, LBGetsIP(l)
      PROVE  TypeOK'
  BY <1>5 DEF LBGetsIP, TypeOK
<1>6. ASSUME NEW l \in LbId, ServersChange(l)
      PROVE  TypeOK'
  BY <1>6 DEF ServersChange, Contract!BackendsWritten, TypeOK
<1>7. CASE LateCreate
  BY <1>7, ProvisionType DEF LateCreate, TypeOK
<1>8. CASE TogglePause
  BY <1>8 DEF TogglePause, TypeOK
<1> QED
  BY <1>1, <1>2, <1>3, <1>4, <1>5, <1>6, <1>7, <1>8 DEF Environment

\* Every reachable state is type-correct, and no reconciliation asks the cloud
\* for a load balancer without an ID, whatever fails.
THEOREM TypeCorrect == Spec => []TypeOK
<1>1. TypeOK /\ [Next]_vars => TypeOK'
  <2>1. TypeOK /\ UNCHANGED vars => TypeOK'
    BY DEF vars, TypeOK
  <2> QED
    BY <2>1, ControllerType, EnvironmentType DEF Next
<1> QED
  BY InitType, <1>1, PTL DEF Spec

-----------------------------------------------------------------------------
(***************************************************************************)
(* One load balancer, and nothing but what ClusterContract allows.         *)
(***************************************************************************)

LEMMA InitContract == Init => ContractInv
  BY DEF Init, ContractInv, Known, CreationInv, OneLB, Up, MemoryInv, WriteInv,
         IdleWorker, NewObject

\* A step of the worker that leaves the cloud and the API server alone.
LEMMA MemoryStep ==
    ASSUME ContractInv, UNCHANGED <<store, cache, lbs, servers, late>>,
           Known(w'.base.lb), w'.pc = "create" => Up = {}, MemoryInv', WriteInv'
    PROVE  ContractInv'
  BY DEF ContractInv, Known, CreationInv, OneLB, Up

LEMMA ReconcileContract ==
    ASSUME TypeOK, ContractInv, Reconcile
    PROVE  ContractInv'
<1>1. /\ cache \in Object
      /\ [cache EXCEPT !.finalizer = TRUE] \in Object
      /\ [cache EXCEPT !.finalizer = TRUE].lb = cache.lb
      /\ [cache EXCEPT !.finalizer = TRUE].ready = cache.ready
      /\ [cache EXCEPT !.finalizer = FALSE] \in Object
      /\ [cache EXCEPT !.finalizer = FALSE].lb = cache.lb
      /\ [cache EXCEPT !.finalizer = FALSE].ready = cache.ready
  BY DEF TypeOK, Object
<1>2. ASSUME NEW p \in WorkerPc, NEW o \in Object, Begin(p, o),
             \/ p = "patchObject" /\ o.lb = cache.lb /\ o.ready = cache.ready
             \/ p = "lookup" /\ o = cache /\ cache.lb = None
             \/ p \in {"getLB", "clearGet"} /\ o = cache
      PROVE  ContractInv'
  <2>1. /\ w'.pc = p /\ w'.obj = o /\ w'.base = cache
        /\ UNCHANGED <<store, cache, lbs, servers, late>>
    BY <1>2, BeginFacts
  <2>2. Known(cache.lb)
    BY DEF ContractInv
  <2>3. MemoryInv'
    BY <1>2, <2>1 DEF MemoryInv
  <2>4. WriteInv'
    BY <1>2, <2>1, <2>2 DEF WriteInv, Known
  <2> QED
    BY <1>2, <2>1, <2>2, <2>3, <2>4, MemoryStep
<1>3. CASE AddFinalizer
  BY <1>1, <1>2, <1>3 DEF AddFinalizer
<1>4. CASE CheckRecorded
  BY <1>1, <1>2, <1>4 DEF CheckRecorded
<1>5. CASE StartLookup
  BY <1>1, <1>2, <1>5 DEF StartLookup
<1>6. CASE DeleteLoadBalancer
  BY <1>1, <1>2, <1>6 DEF DeleteLoadBalancer
<1>7. CASE DeleteWithoutLB
  BY <1>1, <1>2, <1>7 DEF DeleteWithoutLB
<1> QED
  BY <1>3, <1>4, <1>5, <1>6, <1>7 DEF Reconcile

\* Where there is no load balancer, what is recorded is none or gone.
LEMMA RecordedGone ==
    ASSUME TypeOK, ContractInv, Up = {}
    PROVE  store.lb = None \/ lbs[store.lb] = "gone"
  BY DEF TypeOK, Object, ContractInv, Known, Up

\* The steps that look at load balancers.
LEMMA LookContract ==
    ASSUME TypeOK, ContractInv,
           GetLBFound \/ GetLBGone \/ GetLBFails \/ LookupFound
    PROVE  ContractInv'
<1>1. /\ UNCHANGED <<store, cache, lbs, servers, late>>
      /\ w.pc = "getLB" => w.obj = w.base
      /\ w.pc = "lookup" => w.obj.lb = None /\ w.obj.ready = w.base.ready
      /\ Known(w.base.lb) /\ Known(store.lb) /\ OneLB
      /\ w.obj \in Object /\ w.base \in Object /\ store \in Object
  BY DEF GetLBFound, GetLBGone, GetLBFails, LookupFound, cloud, ContractInv,
         MemoryInv, CreationInv, TypeOK, Worker
<1>2. ASSUME NEW l \in Up, Finish(WithLB(l)),
             w.obj.ready = w.base.ready
      PROVE  ContractInv'
  <2>1. /\ w'.pc = "patchObject" /\ w'.base = w.base /\ w'.obj.lb = l
        /\ w'.obj.ready = w.base.ready \/ w'.obj.ready
    BY <1>2, WithLBType, FinishFacts DEF Up
  <2>2. store.lb \in {None, l} \/ lbs[store.lb] = "gone"
    BY <1>1 DEF Known, OneLB, Up, TypeOK, Object
  <2>3. w.base.lb = l => store.lb = l
    BY <1>1, <1>2, ConstantAssumption DEF Known, Up, ConstantAssumption
  <2>4. MemoryInv'
    BY <2>1 DEF MemoryInv
  <2>5. WriteInv'
    BY <1>1, <2>1, <2>2, <2>3, ConstantAssumption DEF WriteInv, Up, ConstantAssumption
  <2> QED
    BY <1>1, <2>1, <2>4, <2>5, MemoryStep
<1>3. CASE GetLBFound
  BY <1>1, <1>2, <1>3 DEF GetLBFound
<1>4. CASE LookupFound
  BY <1>1, <1>2, <1>4 DEF LookupFound
<1>5. CASE GetLBGone
  <2>1. /\ w'.pc = "lookup" /\ w'.base = w.base
        /\ w'.obj.lb = None /\ w'.obj.ready = w.obj.ready
    BY <1>1, <1>5 DEF GetLBGone, TypeOK, Worker, Object
  <2>2. w'.obj.ready = w'.base.ready
    BY <1>1, <1>5, <2>1 DEF GetLBGone
  <2>3. MemoryInv' /\ WriteInv'
    BY <2>1, <2>2 DEF MemoryInv, WriteInv
  <2> QED
    BY <1>1, <2>1, <2>3, MemoryStep
<1>6. CASE GetLBFails
  <2>1. w'.pc = "patchObject" /\ w'.obj = w.base /\ w'.base = w.base
    BY <1>1, <1>6, ReturnFacts DEF GetLBFails
  <2>2. MemoryInv' /\ WriteInv'
    BY <1>1, <2>1 DEF MemoryInv, WriteInv, Known
  <2> QED
    BY <1>1, <2>1, <2>2, MemoryStep
<1> QED
  BY <1>3, <1>4, <1>5, <1>6

\* The steps that create one, if lists of appliances tell the truth.
LEMMA CreateContract ==
    ASSUME TypeOK, ContractInv,
           "listError" \notin Faults, "lateCreate" \notin Faults,
           LookupMissed \/ CreateLB \/ CreateLBFails
    PROVE  ContractInv' /\ (CreateLB => Up = {})
<1>1. /\ w.obj.lb = None /\ w.obj.ready = w.base.ready
      /\ w.obj \in Object /\ w.base \in Object /\ store \in Object /\ cache \in Object
      /\ lbs \in [LbId -> {"absent", "up", "gone"}]
      /\ Known(w.base.lb) /\ Known(store.lb) /\ Known(cache.lb)
      /\ ~late
      /\ \A l \in LbId : servers[l] # {} => lbs[l] = "up"
  BY DEF LookupMissed, CreateLB, CreateLBFails, ContractInv, MemoryInv,
         CreationInv, TypeOK, Worker
<1>2. Up = {}
  BY DEF LookupMissed, CreateLB, CreateLBFails, ContractInv, CreationInv
<1>3. store.lb = None \/ lbs[store.lb] = "gone"
  BY <1>2, RecordedGone
<1>4. CASE LookupMissed
  <2>1. /\ w'.pc = "create" /\ w'.obj = w.obj /\ w'.base = w.base
        /\ UNCHANGED <<store, cache, lbs, servers, late>>
    BY <1>4, GotoFacts DEF LookupMissed, cloud
  <2>2. MemoryInv' /\ WriteInv'
    BY <1>1, <2>1 DEF MemoryInv, WriteInv
  <2> QED
    BY <1>1, <1>2, <1>4, <2>1, <2>2, MemoryStep DEF LookupMissed, CreateLB
<1>5. CASE CreateLBFails
  <2>1. /\ w'.pc = "patchObject" /\ w'.obj = w.obj /\ w'.base = w.base
        /\ UNCHANGED <<store, cache, lbs, servers, late>>
    BY <1>1, <1>5, ReturnFacts DEF CreateLBFails
  <2>2. MemoryInv' /\ WriteInv'
    BY <1>1, <1>3, <2>1 DEF MemoryInv, WriteInv
  <2> QED
    BY <1>1, <1>2, <2>1, <2>2, MemoryStep
<1>6. CASE CreateLB
  <2>1. PICK l \in LbId :
           /\ Provision(l)
           /\ \/ Finish([w.obj EXCEPT !.lb = l,
                                     !.ip = IF l \in addressed' THEN l ELSE None])
              \/ Return(w.obj)
    BY <1>6 DEF CreateLB
  <2>2. UNCHANGED <<store, cache, servers, late>>
    BY <1>6 DEF CreateLB
  <2>3. /\ lbs[l] = "absent" /\ lbs'[l] = "up"
        /\ \A k \in LbId : k # l => lbs'[k] = lbs[k]
    BY <1>1, <2>1 DEF Provision
  <2>4. Up' = {l}
    BY <1>2, <2>3 DEF Up
  <2>5. /\ w'.pc = "patchObject" /\ w'.base = w.base
        /\ w'.obj.lb \in {l, None}
        /\ w'.obj.ready # w.base.ready => w'.obj.lb = l /\ w'.obj.ready
    <3>1. CASE Return(w.obj)
      BY <1>1, <3>1, ReturnFacts
    <3> DEFINE i == IF l \in addressed' THEN l ELSE None
               o == [w.obj EXCEPT !.lb = l, !.ip = i]
    <3>2. CASE Finish(o)
      <4>1. i \in LbId \cup {None}
        OBVIOUS
      <4> HIDE DEF i
      <4>2. o \in Object /\ o.lb = l /\ o.ready = w.obj.ready
        BY <1>1, <4>1 DEF Object
      <4> HIDE DEF o
      <4> QED
        BY <1>1, <3>2, <4>2, FinishFacts
    <3> QED
      BY <2>1, <3>1, <3>2
  <2>6. /\ Known(store.lb)' /\ Known(cache.lb)' /\ Known(w.base.lb)'
    <3>1. ASSUME NEW k \in LbId \cup {None}, Known(k)
          PROVE  k # None => /\ lbs'[k] # "absent"
                             /\ lbs'[k] = "up" => store'.lb = k
      BY <2>2, <2>3, <3>1 DEF Known
    <3>2. /\ store.lb \in LbId \cup {None}
          /\ cache.lb \in LbId \cup {None}
          /\ w.base.lb \in LbId \cup {None}
      BY <1>1 DEF Object
    <3> QED
      BY <1>1, <2>2, <2>5, <3>1, <3>2 DEF Known
  <2>7. CreationInv' /\ MemoryInv'
    BY <1>1, <2>2, <2>4, <2>5 DEF CreationInv, OneLB, MemoryInv
  <2>8. WriteInv'
    <3>1. w.base.lb # l
      BY <1>1, <2>1, <2>3, ConstantAssumption DEF Known, ConstantAssumption
    <3>2. store.lb = None \/ lbs'[store.lb] = "gone"
      BY <1>1, <1>3, <2>3 DEF Object
    <3> QED
      BY <2>1, <2>2, <2>3, <2>5, <3>1, <3>2, ConstantAssumption DEF WriteInv, ConstantAssumption
  <2> QED
    BY <1>1, <1>2, <2>2, <2>3, <2>5, <2>6, <2>7, <2>8 DEF ContractInv
<1> QED
  BY <1>4, <1>5, <1>6

\* The steps of a deletion.
LEMMA DeleteContract ==
    ASSUME TypeOK, ContractInv,
           ClearGet \/ ClearPut \/ ClearSkipped \/ DeleteLB \/ DeleteLBFails
    PROVE  ContractInv'
<1>1. /\ UNCHANGED <<store, cache, late>>
      /\ w.pc \in {"clearGet", "clearPut", "deleteLB"} /\ w.obj = w.base
      /\ w.obj \in Object /\ w.obj.lb # None
      /\ Known(w.base.lb)
      /\ w.base.lb \in LbId
  BY DEF ClearGet, ClearPut, ClearSkipped, DeleteLB, DeleteLBFails, cloud,
         ContractInv, MemoryInv, TypeOK, Worker, Object
<1>2. /\ w'.base = w.base
      /\ \/ w'.pc \in {"clearPut", "deleteLB"} /\ w'.obj = w.base
         \/ /\ w'.pc = "patchObject"
            /\ w'.obj.lb = w.base.lb /\ w'.obj.ready = w.base.ready
  <2>1. CASE ClearGet \/ ClearPut \/ ClearSkipped
    BY <1>1, <2>1, GotoFacts DEF ClearGet, ClearPut, ClearSkipped
  <2>2. CASE DeleteLB \/ DeleteLBFails
    <3> DEFINE o == [w.obj EXCEPT !.finalizer = FALSE]
    <3>1. o \in Object /\ o.lb = w.base.lb /\ o.ready = w.base.ready
      BY <1>1 DEF Object
    <3>2. Return(o) \/ Return(w.obj)
      BY <2>2 DEF DeleteLB, DeleteLBFails
    <3> HIDE DEF o
    <3> QED
      BY <1>1, <3>1, <3>2, ReturnFacts
  <2> QED
    BY <2>1, <2>2
<1>3. /\ \A l \in LbId : \/ lbs'[l] = lbs[l]
                         \/ lbs'[l] = "gone" /\ servers'[l] = {}
      /\ \A l \in LbId : servers'[l] = servers[l] \/ servers'[l] = {}
  BY <1>1 DEF ClearGet, ClearPut, ClearSkipped, DeleteLB, DeleteLBFails, cloud, TypeOK
<1>4. CreationInv'
  BY <1>1, <1>2, <1>3 DEF ContractInv, CreationInv, OneLB, Up
<1>5. MemoryInv'
  BY <1>2 DEF MemoryInv
<1>6. \A l \in LbId : Known(l) =>
         lbs'[l] # "absent" /\ (lbs'[l] = "up" => store'.lb = l)
  BY <1>1, <1>3, ConstantAssumption DEF Known, ConstantAssumption
<1>7. WriteInv'
  BY <1>1, <1>2, <1>6 DEF WriteInv
<1>8. /\ store.lb \in LbId \cup {None} /\ cache.lb \in LbId \cup {None}
      /\ Known(store.lb) /\ Known(cache.lb)
  BY DEF ContractInv, TypeOK, Object
<1>9. Known(store.lb)' /\ Known(cache.lb)' /\ Known(w.base.lb)'
  BY <1>1, <1>2, <1>6, <1>8 DEF Known
<1>10. \A l \in LbId : servers'[l] # {} => lbs'[l] = "up"
  BY <1>3 DEF ContractInv
<1> QED
  BY <1>4, <1>5, <1>7, <1>9, <1>10 DEF ContractInv

\* The writes of the deferred patch.
LEMMA PatchContract ==
    ASSUME TypeOK, ContractInv,
           PatchObject \/ PatchObjectFails \/ PatchStatus \/ PatchStatusFails
    PROVE  ContractInv'
<1>1. /\ UNCHANGED <<cache, lbs, servers, late>>
      /\ w \in Worker /\ store \in Object /\ cache \in Object
      /\ w.obj \in Object /\ w.base \in Object
      /\ w.pc \in {"patchObject", "patchStatus"}
  BY DEF PatchObject, PatchObjectFails, PatchStatus, PatchStatusFails, cloud,
         TypeOK, Worker
<1>2. /\ Known(store.lb) /\ Known(cache.lb) /\ Known(w.base.lb)
      /\ WriteInv /\ CreationInv
      /\ \A l \in LbId : servers[l] # {} => lbs[l] = "up"
  BY DEF ContractInv
<1>3. CASE PatchObject \/ PatchObjectFails
  <2>1. w'.pc = "patchStatus" /\ w'.base = w.base /\ w'.obj = w.obj
    BY <1>3, GotoFacts DEF PatchObject, PatchObjectFails
  <2>2. store'.lb = store.lb
    BY <1>1, <1>3, PatchedType DEF PatchObject, PatchObjectFails
  <2>3. CreationInv' /\ MemoryInv'
    BY <1>1, <1>2, <2>1 DEF CreationInv, OneLB, Up, MemoryInv
  <2>4. WriteInv'
    BY <1>1, <1>2, <2>1, <2>2 DEF WriteInv
  <2>5. Known(store.lb)' /\ Known(cache.lb)' /\ Known(w.base.lb)'
    BY <1>1, <1>2, <2>1, <2>2 DEF Known
  <2> QED
    BY <1>1, <1>2, <2>3, <2>4, <2>5 DEF ContractInv
<1>4. CASE PatchStatus \/ PatchStatusFails
  <2>1. w'.pc = "idle" /\ w'.base.lb = None
    BY <1>4, IdleFacts DEF PatchStatus, PatchStatusFails
  <2>2. \/ store'.lb = store.lb
        \/ /\ store'.lb = w.obj.lb
           /\ w.obj.lb # None => lbs[w.obj.lb] # "absent"
           /\ store.lb \in {None, w.obj.lb} \/ lbs[store.lb] = "gone"
    <3>1. \/ store' = store
          \/ store' = PatchedStatus(w.base, w.obj, store)
      BY <1>4 DEF PatchStatus, PatchStatusFails
    <3>2. store'.lb = store.lb \/ (store'.lb = w.obj.lb /\ w.obj.lb # w.base.lb)
      BY <1>1, <3>1, PatchedType
    <3> QED
      BY <1>1, <1>2, <3>2 DEF WriteInv
  <2>3. ASSUME NEW l \in LbId, Known(l)
        PROVE  lbs[l] = "up" => store'.lb = l
    BY <2>2, <2>3, ConstantAssumption DEF Known, ConstantAssumption
  <2>4. CreationInv' /\ MemoryInv' /\ WriteInv'
    BY <1>1, <1>2, <2>1 DEF CreationInv, OneLB, Up, MemoryInv, WriteInv
  <2>5. Known(store.lb)'
    BY <1>1, <1>2, <2>2 DEF Known
  <2>6. Known(cache.lb)' /\ Known(w.base.lb)'
    BY <1>1, <1>2, <2>1, <2>3 DEF Known, Object
  <2> QED
    BY <1>1, <1>2, <2>4, <2>5, <2>6 DEF ContractInv
<1> QED
  BY <1>3, <1>4

LEMMA ControllerContract ==
    ASSUME TypeOK, ContractInv,
           "listError" \notin Faults, "lateCreate" \notin Faults, Controller
    PROVE  ContractInv'
  BY ReconcileContract, LookContract, CreateContract, DeleteContract,
     PatchContract DEF Controller

\* What the surroundings do, a load balancer that is lost included.
LEMMA EnvironmentContract ==
    ASSUME TypeOK, ContractInv, "lateCreate" \notin Faults, Environment
    PROVE  ContractInv'
<1>1. /\ Known(store.lb) /\ Known(cache.lb) /\ Known(w.base.lb)
      /\ WriteInv /\ CreationInv /\ MemoryInv
      /\ \A l \in LbId : servers[l] # {} => lbs[l] = "up"
      /\ w \in Worker /\ store \in Object /\ cache \in Object
      /\ w.obj \in Object /\ w.base \in Object
  BY DEF ContractInv, TypeOK, Worker
<1>2. CASE CacheSync
  BY <1>1, <1>2 DEF CacheSync, cloud, ContractInv, Known, CreationInv, OneLB,
         Up, MemoryInv, WriteInv
<1>3. CASE Crash
  <2>1. /\ w'.pc = "idle" /\ w'.base.lb = None
        /\ cache' = store
        /\ UNCHANGED <<store, lbs, servers, late>>
    BY <1>3, IdleFacts DEF Crash
  <2> QED
    BY <1>1, <2>1 DEF ContractInv, Known, CreationInv, OneLB, Up, MemoryInv, WriteInv
<1>4. CASE AdoptCluster \/ UserDelete \/ TogglePause
  <2>1. /\ store'.lb = store.lb
        /\ UNCHANGED <<cache, lbs, servers, late, w>>
    BY <1>1, <1>4 DEF AdoptCluster, UserDelete, TogglePause, cloud, Object
  <2> QED
    BY <1>1, <2>1 DEF ContractInv, Known, CreationInv, OneLB, Up, MemoryInv, WriteInv
<1>5. ASSUME NEW l \in LbId, LBReset(l)
      PROVE  ContractInv'
  <2>1. /\ UNCHANGED <<store, cache, late, w>>
        /\ \A k \in LbId : \/ lbs'[k] = lbs[k] /\ servers'[k] = servers[k]
                           \/ lbs[k] = "up" /\ lbs'[k] = "gone" /\ servers'[k] = {}
    BY <1>5 DEF LBReset, Contract!LBVanishes, TypeOK
  <2>2. CreationInv' /\ MemoryInv'
    BY <1>1, <2>1 DEF CreationInv, OneLB, Up, MemoryInv
  <2>3. Known(store.lb)' /\ Known(cache.lb)' /\ Known(w.base.lb)'
    <3>1. ASSUME NEW k \in LbId, Known(k)
          PROVE  lbs'[k] # "absent" /\ (lbs'[k] = "up" => store'.lb = k)
      BY <2>1, <3>1, ConstantAssumption DEF Known, ConstantAssumption
    <3>2. /\ store.lb \in LbId \cup {None} /\ cache.lb \in LbId \cup {None}
          /\ w.base.lb \in LbId \cup {None}
      BY <1>1 DEF Object
    <3> QED
      BY <1>1, <2>1, <3>1, <3>2 DEF Known
  <2>4. WriteInv'
    BY <1>1, <2>1 DEF WriteInv, Object
  <2> QED
    BY <1>1, <2>1, <2>2, <2>3, <2>4 DEF ContractInv
<1>6. ASSUME NEW l \in LbId, LBGetsIP(l) \/ ServersChange(l)
      PROVE  ContractInv'
  <2>1. /\ UNCHANGED <<store, cache, late, lbs, w>>
        /\ \A k \in LbId : servers'[k] = servers[k] \/ lbs[k] = "up"
    BY <1>6 DEF LBGetsIP, ServersChange, Contract!BackendsWritten, TypeOK
  <2> QED
    BY <1>1, <2>1 DEF ContractInv, Known, CreationInv, OneLB, Up, MemoryInv, WriteInv
<1>7. CASE LateCreate
  BY <1>1, <1>7 DEF LateCreate, CreationInv
<1> QED
  BY <1>2, <1>3, <1>4, <1>5, <1>6, <1>7 DEF Environment

LEMMA ContractStep ==
    ASSUME TypeOK, ContractInv,
           "listError" \notin Faults, "lateCreate" \notin Faults, [Next]_vars
    PROVE  ContractInv'
<1>1. CASE UNCHANGED vars
  BY <1>1 DEF vars, ContractInv, Known, CreationInv, OneLB, Up, MemoryInv, WriteInv
<1> QED
  BY <1>1, ControllerContract, EnvironmentContract DEF Next

\* Every load balancer ID that is stored, cached or remembered was used, and while
\* its load balancer is up it is the stored one: what is read late never leads to
\* a second load balancer or to the loss of the first (ContractInv of the runs).
THEOREM KnowsItsLoadBalancer ==
    ASSUME "listError" \notin Faults, "lateCreate" \notin Faults
    PROVE  Spec => []ContractInv
<1>1. TypeOK /\ ContractInv /\ [Next]_vars => ContractInv'
  BY ContractStep
<1> QED
  BY InitContract, TypeCorrect, <1>1, PTL DEF Spec

\* The cluster never has two load balancers at a time, whatever crashes, lost
\* replies, refused writes, stale reads and losses there are, as long as a list
\* of appliances tells the truth and no create request outlives its caller.
THEOREM OneLoadBalancer ==
    ASSUME "listError" \notin Faults, "lateCreate" \notin Faults
    PROVE  Spec => []OneLB
<1>1. ContractInv => OneLB
  BY DEF ContractInv, CreationInv
<1> QED
  BY KnowsItsLoadBalancer, <1>1, PTL

-----------------------------------------------------------------------------
(***************************************************************************)
(* E2ECluster implements ClusterContract: each step is one that the        *)
(* contract allows, or one that the machines cannot see.                   *)
(***************************************************************************)

LEMMA Unseen ==
    ASSUME UNCHANGED <<store.exists, store.ready, store.lb, lbs, servers>>
    PROVE  UNCHANGED Contract!contractVars
  BY DEF Contract!contractVars

\* What the machines see of the object.
Seen == [exists |-> store.exists, ready |-> store.ready, lb |-> store.lb]

LEMMA SeenFacts ==
    ASSUME store \in Object, store' \in Object
    PROVE  /\ Seen \in [exists : BOOLEAN, ready : BOOLEAN, lb : LbId \cup {None}]
           /\ Seen' \in [exists : BOOLEAN, ready : BOOLEAN, lb : LbId \cup {None}]
           /\ Seen.exists = store.exists /\ Seen'.exists = store'.exists
           /\ Seen.ready = store.ready /\ Seen'.ready = store'.ready
           /\ Seen.lb = store.lb /\ Seen'.lb = store'.lb
  BY DEF Seen, Object

\* The contract's actions on it, as assignments to the fields.
LEMMA SeenSteps ==
    ASSUME store \in Object, store' \in Object, UNCHANGED <<lbs, servers>>,
           store.exists
    PROVE  /\ /\ store'.exists = FALSE
              /\ store'.ready = store.ready /\ store'.lb = store.lb
              => Contract!ClusterRemoved
           /\ /\ store'.exists = store.exists /\ store'.ready = TRUE
              /\ store'.lb = store.lb /\ store.lb # None
              => Contract!ClusterReady
           /\ /\ store'.exists = store.exists /\ store'.ready = store.ready
              /\ store'.lb = None /\ store.lb # None /\ lbs[store.lb] = "gone"
              => Contract!LBForgotten
           /\ /\ store'.exists = store.exists
              /\ store'.ready = store.ready \/ store'.ready = TRUE
              /\ lbs[store'.lb] # "absent"
              /\ store.lb # None => lbs[store.lb] = "gone"
              => Contract!LBRecorded(store'.lb)
<1>1. ASSUME store'.exists = FALSE, store'.ready = store.ready, store'.lb = store.lb
      PROVE  Seen' = [Seen EXCEPT !.exists = FALSE]
  BY <1>1, SeenFacts
<1>2. ASSUME store'.exists = store.exists, store'.ready = TRUE, store'.lb = store.lb
      PROVE  Seen' = [Seen EXCEPT !.ready = TRUE]
  BY <1>2, SeenFacts
<1>3. ASSUME store'.exists = store.exists, store'.ready = store.ready, store'.lb = None
      PROVE  Seen' = [Seen EXCEPT !.lb = None]
  BY <1>3, SeenFacts
<1>4. ASSUME store'.exists = store.exists
      PROVE  Seen' = [Seen EXCEPT !.lb = store'.lb, !.ready = store'.ready]
  BY <1>4, SeenFacts
<1>5. Seen.exists /\ Seen.lb = store.lb /\ Seen.ready = store.ready
  BY SeenFacts
<1> QED
  BY <1>1, <1>2, <1>3, <1>4, <1>5
     DEF Seen, Contract!ClusterRemoved, Contract!ClusterReady,
         Contract!LBForgotten, Contract!LBRecorded

LEMMA InitImplements == Init => Contract!Init
  BY DEF Init, Contract!Init, NewObject

\* The status write is where IDs and readiness become visible.
LEMMA PatchStatusImplements ==
    ASSUME TypeOK, ContractInv, PatchStatus
    PROVE  Contract!Next \/ UNCHANGED Contract!contractVars
<1>1. /\ store \in Object /\ w.obj \in Object /\ w.base \in Object
      /\ UNCHANGED <<lbs, servers>>
      /\ w.pc = "patchStatus"
  BY DEF PatchStatus, cloud, TypeOK, Worker
<1>2. CASE ~store.exists
  BY <1>1, <1>2, Unseen DEF PatchStatus
<1>3. CASE store.exists
  <2>1. /\ store'.exists = store.exists
        /\ store'.lb = IF w.base.lb = w.obj.lb THEN store.lb ELSE w.obj.lb
        /\ store'.ready = IF w.base.ready = w.obj.ready THEN store.ready
                                                        ELSE w.obj.ready
    <3>1. store' = PatchedStatus(w.base, w.obj, store)
      BY <1>3 DEF PatchStatus
    <3> QED
      BY <1>1, <3>1, PatchedType
  <2>2. /\ w.obj.lb # None => lbs[w.obj.lb] # "absent"
        /\ w.obj.lb # w.base.lb
             => store.lb \in {None, w.obj.lb} \/ lbs[store.lb] = "gone"
        /\ w.obj.ready # w.base.ready
             => /\ w.obj.ready
                /\ w.obj.lb # None
                /\ w.obj.lb = w.base.lb => store.lb = w.obj.lb
    BY <1>1 DEF ContractInv, WriteInv
  <2>3. store' \in Object
    BY <1>1, PatchedType DEF PatchStatus
  <2>4. CASE store'.lb = store.lb /\ store'.ready = store.ready
    BY <1>1, <2>1, <2>4, Unseen
  <2>5. CASE store'.lb = store.lb /\ store'.ready # store.ready
    <3>1. store.lb # None /\ store'.ready = TRUE
      BY <1>1, <2>1, <2>2, <2>5 DEF Object
    <3>2. Contract!ClusterReady
      BY <1>1, <1>3, <2>1, <2>3, <2>5, <3>1, SeenSteps
    <3> QED
      BY <3>2 DEF Contract!Next, Contract!ControllerStep
  <2>6. CASE store'.lb # store.lb /\ store'.lb = None
    <3>1. /\ store'.ready = store.ready
          /\ store.lb # None /\ lbs[store.lb] = "gone"
      BY <2>1, <2>2, <2>6
    <3>2. Contract!LBForgotten
      BY <1>1, <1>3, <2>1, <2>3, <2>6, <3>1, SeenSteps
    <3> QED
      BY <3>2 DEF Contract!Next, Contract!ControllerStep
  <2>7. CASE store'.lb # store.lb /\ store'.lb # None
    <3>1. /\ store'.lb = w.obj.lb /\ w.obj.lb \in LbId /\ lbs[w.obj.lb] # "absent"
          /\ store.lb # None => lbs[store.lb] = "gone"
      BY <1>1, <2>1, <2>2, <2>7 DEF Object
    <3>2. store'.ready \in {store.ready, TRUE}
      BY <1>1, <2>1, <2>2 DEF Object
    <3>3. Contract!LBRecorded(store'.lb)
      BY <1>1, <1>3, <2>1, <2>3, <3>1, <3>2, SeenSteps
    <3> QED
      BY <3>1, <3>3 DEF Contract!Next, Contract!ControllerStep
  <2> QED
    BY <2>4, <2>5, <2>6, <2>7
<1> QED
  BY <1>2, <1>3

\* The object goes, or the machines see no difference.
LEMMA ObjectImplements ==
    ASSUME TypeOK, PatchObject \/ AdoptCluster \/ UserDelete
    PROVE  Contract!Next \/ UNCHANGED Contract!contractVars
<1>1. /\ store \in Object /\ w.obj \in Object /\ w.base \in Object
      /\ UNCHANGED <<lbs, servers>>
  BY DEF PatchObject, AdoptCluster, UserDelete, cloud, TypeOK, Worker
<1>2. /\ store' \in Object
      /\ store'.lb = store.lb /\ store'.ready = store.ready
      /\ store'.exists => store.exists
  <2>1. CASE PatchObject
    <3>1. \/ store' = store
          \/ store' = PatchedObject(w.base, w.obj, store) /\ store.exists
      BY <2>1 DEF PatchObject
    <3> QED
      BY <1>1, <3>1, PatchedType
  <2>2. CASE AdoptCluster \/ UserDelete
    BY <1>1, <2>2 DEF AdoptCluster, UserDelete, Object
  <2> QED
    BY <2>1, <2>2
<1>3. CASE store'.exists = store.exists
  BY <1>1, <1>2, <1>3, Unseen
<1>4. CASE store'.exists # store.exists
  <2>1. store.exists = TRUE /\ store'.exists = FALSE
    BY <1>1, <1>2, <1>4 DEF Object
  <2>2. Contract!ClusterRemoved
    BY <1>1, <1>2, <2>1, SeenSteps
  <2> QED
    BY <2>2 DEF Contract!Next, Contract!ControllerStep
<1> QED
  BY <1>3, <1>4

\* The load balancer is made, drained and deleted.
LEMMA CloudImplements ==
    ASSUME TypeOK, ContractInv, CreateLB \/ ClearPut \/ DeleteLB
    PROVE  Contract!Next \/ UNCHANGED Contract!contractVars
<1>1. UNCHANGED <<store.exists, store.ready, store.lb>>
  BY DEF CreateLB, ClearPut, DeleteLB
<1>2. CASE CreateLB
  <2>1. PICK l \in LbId : Provision(l)
    BY <1>2 DEF CreateLB
  <2>2. Contract!LBCreated(l)
    BY <1>1, <1>2, <2>1 DEF Contract!LBCreated, Provision, CreateLB
  <2> QED
    BY <2>2 DEF Contract!Next, Contract!ControllerStep
<1>3. CASE ClearPut
  <2>1. w.obj.lb \in LbId /\ Contract!BackendsCleared(w.obj.lb)
    BY <1>1, <1>3 DEF Contract!BackendsCleared, ClearPut, Up
  <2> QED
    BY <2>1 DEF Contract!Next, Contract!ControllerStep
<1>4. CASE DeleteLB
  <2> DEFINE l == w.obj.lb
  <2>1. l \in LbId /\ lbs[l] \in {"up", "gone"}
    BY <1>4 DEF DeleteLB, TypeOK, Worker, Object, ContractInv, MemoryInv, Known
  <2>2. /\ lbs' = [lbs EXCEPT ![l] = "gone"]
        /\ servers' = [servers EXCEPT ![l] = {}]
    BY <1>4 DEF DeleteLB
  <2> HIDE DEF l
  <2>3. CASE lbs[l] = "up"
    <3>1. Contract!LBVanishes(l)
      BY <1>1, <2>2, <2>3 DEF Contract!LBVanishes
    <3> QED
      BY <2>1, <3>1 DEF Contract!Next, Contract!ControllerStep
  <2>4. CASE lbs[l] = "gone"
    <3>1. servers[l] = {}
      BY <2>1, <2>4 DEF ContractInv
    <3>2. UNCHANGED <<lbs, servers>>
      BY <2>1, <2>2, <2>4, <3>1 DEF TypeOK
    <3> QED
      BY <1>1, <3>2, Unseen
  <2> QED
    BY <2>1, <2>3, <2>4
<1> QED
  BY <1>2, <1>3, <1>4

LEMMA StepImplements ==
    ASSUME TypeOK, ContractInv, "lateCreate" \notin Faults, [Next]_vars
    PROVE  Contract!Next \/ UNCHANGED Contract!contractVars
<1>1. CASE UNCHANGED <<store, lbs, servers>>
  BY <1>1, Unseen
<1>2. CASE PatchStatus
  BY <1>2, PatchStatusImplements
<1>3. CASE PatchObject \/ AdoptCluster \/ UserDelete
  BY <1>3, ObjectImplements
<1>4. CASE CreateLB \/ ClearPut \/ DeleteLB
  BY <1>4, CloudImplements
<1>5. ASSUME NEW l \in LbId, LBReset(l) \/ ServersChange(l)
      PROVE  Contract!Next
  BY <1>5 DEF LBReset, ServersChange, Contract!Next, Contract!ControllerStep,
              Contract!MachineStep
<1>6. CASE Reconcile \/ GetLBFound \/ GetLBGone \/ GetLBFails \/ LookupFound
           \/ LookupMissed \/ CreateLBFails \/ ClearGet \/ ClearSkipped
           \/ DeleteLBFails \/ PatchObjectFails \/ PatchStatusFails
  <2>1. UNCHANGED <<store, lbs, servers>>
    BY <1>6 DEF Reconcile, AddFinalizer, CheckRecorded, StartLookup,
           DeleteLoadBalancer, DeleteWithoutLB, Begin, GetLBFound, GetLBGone,
           GetLBFails, LookupFound, LookupMissed, CreateLBFails, ClearGet,
           ClearSkipped, DeleteLBFails, PatchObjectFails, PatchStatusFails, cloud
  <2> QED
    BY <1>1, <2>1
<1>7. ASSUME CacheSync \/ Crash \/ TogglePause \/ \E l \in LbId : LBGetsIP(l)
      PROVE  UNCHANGED <<store, lbs, servers>>
  BY <1>7 DEF CacheSync, Crash, TogglePause, LBGetsIP, cloud
<1>8. ~LateCreate
  BY DEF LateCreate, ContractInv, CreationInv
<1>9. CASE UNCHANGED vars
  BY <1>1, <1>9 DEF vars
<1> QED
  BY <1>1, <1>2, <1>3, <1>4, <1>5, <1>6, <1>7, <1>8, <1>9
     DEF Next, Controller, Environment

\* The machines of a cluster get what ClusterContract promises: a load balancer
\* is recorded only after it was made, and it is forgotten or replaced only
\* when it is gone, whatever else fails, as long as a list of appliances tells
\* the truth and no create request outlives its caller.
THEOREM Implements ==
    ASSUME "listError" \notin Faults, "lateCreate" \notin Faults
    PROVE  Spec => KeepsContract
<1>1. TypeOK /\ ContractInv /\ [Next]_vars
        => [Contract!Next]_(Contract!contractVars)
  BY StepImplements
<1> QED
  BY InitImplements, TypeCorrect, KnowsItsLoadBalancer, <1>1, PTL
     DEF Spec, KeepsContract, Contract!Spec

-----------------------------------------------------------------------------
(***************************************************************************)
(* The end of a deletion, under every choice of faults.                    *)
(***************************************************************************)

LEMMA InitRelease == Init => ReleaseInv
  BY DEF Init, ReleaseInv, NewObject, IdleWorker

\* A patch drops a deleted object with the finalizer, and takes the finalizer
\* off only if the reconciliation did.
LEMMA PatchedDeletion ==
    ASSUME NEW b \in Object, NEW o \in Object, NEW old \in Object
    PROVE  /\ PatchedObject(b, o, old).exists /\ PatchedObject(b, o, old).deleting
              => PatchedObject(b, o, old).finalizer
           /\ old.finalizer /\ ~PatchedObject(b, o, old).exists
              => b.finalizer /\ ~o.finalizer
<1> DEFINE new == PatchedObject(b, o, old)
<1>1. /\ new \in Object /\ new.deleting = old.deleting
      /\ new.finalizer = IF b.finalizer = o.finalizer THEN old.finalizer
                                                      ELSE o.finalizer
      /\ new.exists <=> ~old.deleting \/ new.finalizer
  BY PatchedType
<1> HIDE DEF new
<1>2. /\ b.finalizer \in BOOLEAN /\ o.finalizer \in BOOLEAN
      /\ old.finalizer \in BOOLEAN /\ new.finalizer \in BOOLEAN
  BY <1>1 DEF Object
<1>3. new.exists /\ new.deleting => new.finalizer
  BY <1>1
<1>4. old.finalizer /\ ~new.exists => b.finalizer /\ ~o.finalizer
  BY <1>1, <1>2
<1> QED
  BY <1>3, <1>4 DEF new

\* A load balancer that is gone stays gone.
LEMMA GoneForGood ==
    ASSUME TypeOK, [Next]_vars, NEW l \in LbId, lbs[l] = "gone"
    PROVE  lbs'[l] = "gone"
<1>1. CASE UNCHANGED lbs
  BY <1>1
<1>2. ASSUME NEW k \in LbId, Provision(k)
      PROVE  lbs'[l] = "gone"
  BY <1>2 DEF Provision, TypeOK
<1>3. CASE CreateLB
  BY <1>2, <1>3 DEF CreateLB
<1>4. CASE LateCreate
  BY <1>1, <1>2, <1>4 DEF LateCreate
<1>5. CASE DeleteLB
  BY <1>5 DEF DeleteLB, TypeOK
<1>6. ASSUME NEW k \in LbId, LBReset(k)
      PROVE  lbs'[l] = "gone"
  BY <1>6 DEF LBReset, Contract!LBVanishes, TypeOK
<1>7. CASE Controller /\ ~CreateLB /\ ~DeleteLB
  BY <1>1, <1>7 DEF Controller, Reconcile, AddFinalizer, CheckRecorded,
     StartLookup, DeleteLoadBalancer, DeleteWithoutLB, Begin, GetLBFound,
     GetLBGone, GetLBFails, LookupFound, LookupMissed, CreateLBFails, ClearGet,
     ClearPut, ClearSkipped, DeleteLBFails, PatchObject, PatchObjectFails,
     PatchStatus, PatchStatusFails, cloud
<1>8. ASSUME CacheSync \/ Crash \/ AdoptCluster \/ UserDelete \/ TogglePause
             \/ \E k \in LbId : LBGetsIP(k) \/ ServersChange(k)
      PROVE  UNCHANGED lbs
  BY <1>8 DEF CacheSync, Crash, AdoptCluster, UserDelete, TogglePause,
     LBGetsIP, ServersChange, Contract!BackendsWritten, cloud
<1>9. CASE UNCHANGED vars
  BY <1>1, <1>9 DEF vars
<1> QED
  BY <1>1, <1>3, <1>4, <1>5, <1>6, <1>7, <1>8, <1>9 DEF Next, Environment

\* The steps of the worker up to the deferred patch.
LEMMA WorkRelease ==
    ASSUME TypeOK, ReleaseInv, Controller, w.pc \notin {"patchObject", "patchStatus"}
    PROVE  ReleaseInv'
<1>1. /\ w.obj \in Object /\ w.base \in Object /\ cache \in Object
      /\ w.pc \in {"getLB", "lookup", "create", "clearGet", "clearPut", "deleteLB"}
            => w.obj.finalizer = w.base.finalizer
      /\ w.pc \in {"clearGet", "clearPut", "deleteLB"} => w.obj.lb = w.base.lb
  BY DEF TypeOK, Worker, ReleaseInv
<1>2. ~PatchObject /\ ~PatchObjectFails /\ ~PatchStatus /\ ~PatchStatusFails
  BY DEF PatchObject, PatchObjectFails, PatchStatus, PatchStatusFails
<1>3. ASSUME w'.obj.finalizer = w'.base.finalizer, UNCHANGED store,
             w'.pc \in {"clearGet", "clearPut", "deleteLB"} => w'.obj.lb = w'.base.lb
      PROVE  ReleaseInv'
  BY <1>3 DEF ReleaseInv
<1>4. CASE Reconcile
  <2>1. [cache EXCEPT !.finalizer = TRUE] \in Object
        /\ [cache EXCEPT !.finalizer = TRUE].finalizer = TRUE
        /\ [cache EXCEPT !.finalizer = FALSE] \in Object
        /\ [cache EXCEPT !.finalizer = FALSE].lb = cache.lb
    BY <1>1 DEF Object
  <2>2. CASE AddFinalizer
    <3>1. w'.pc = "patchObject" /\ w'.obj.finalizer /\ UNCHANGED store
      BY <2>1, <2>2, BeginFacts DEF AddFinalizer
    <3> QED
      BY <3>1 DEF ReleaseInv
  <2>3. CASE CheckRecorded \/ StartLookup \/ DeleteLoadBalancer
    <3>1. w'.obj = cache /\ w'.base = cache /\ UNCHANGED store
      BY <1>1, <2>3, BeginFacts DEF CheckRecorded, StartLookup, DeleteLoadBalancer
    <3> QED
      BY <1>3, <3>1
  <2>4. CASE DeleteWithoutLB
    <3>1. /\ w'.pc = "patchObject" /\ w'.base = cache /\ cache.lb = None
          /\ UNCHANGED store
      BY <2>1, <2>4, BeginFacts DEF DeleteWithoutLB
    <3> QED
      BY <3>1 DEF ReleaseInv
  <2> QED
    BY <1>4, <2>2, <2>3, <2>4 DEF Reconcile
<1>5. CASE GetLBFound \/ LookupFound
  <2>1. PICK l \in LbId : Finish(WithLB(l))
    BY <1>5 DEF GetLBFound, LookupFound, Up
  <2>2. w'.pc = "patchObject" /\ w'.base = w.base /\ w'.obj.finalizer = w.obj.finalizer
    BY <2>1, WithLBType, FinishFacts
  <2>3. w.obj.finalizer = w.base.finalizer /\ UNCHANGED store
    BY <1>1, <1>5 DEF GetLBFound, LookupFound
  <2> QED
    BY <1>3, <2>2, <2>3
<1>6. CASE GetLBGone
  <2>1. /\ w'.pc = "lookup" /\ w'.base = w.base /\ w'.obj.finalizer = w.obj.finalizer
        /\ UNCHANGED store
    BY <1>1, <1>6 DEF GetLBGone, TypeOK, Worker, Object
  <2> QED
    BY <1>1, <1>3, <1>6, <2>1 DEF GetLBGone
<1>7. CASE GetLBFails \/ CreateLBFails \/ DeleteLBFails
  <2>1. w'.obj = w.obj /\ w'.base = w.base /\ w'.pc = "patchObject" /\ UNCHANGED store
    BY <1>1, <1>7, ReturnFacts DEF GetLBFails, CreateLBFails, DeleteLBFails
  <2> QED
    BY <1>1, <1>3, <1>7, <2>1 DEF GetLBFails, CreateLBFails, DeleteLBFails
<1>8. CASE LookupMissed \/ ClearGet \/ ClearPut \/ ClearSkipped
  <2>1. /\ w'.obj = w.obj /\ w'.base = w.base /\ UNCHANGED store
        /\ w'.pc \in {"clearGet", "clearPut", "deleteLB"}
              => w.pc \in {"clearGet", "clearPut"}
    BY <1>8, GotoFacts DEF LookupMissed, ClearGet, ClearPut, ClearSkipped
  <2> QED
    BY <1>1, <1>3, <1>8, <2>1 DEF LookupMissed, ClearGet, ClearPut, ClearSkipped
<1>9. CASE CreateLB
  <2>1. w'.pc = "patchObject" /\ w'.base = w.base /\ w'.obj.finalizer = w.obj.finalizer
    <3>1. PICK l \in LbId :
             \/ Finish([w.obj EXCEPT !.lb = l,
                                   !.ip = IF l \in addressed' THEN l ELSE None])
             \/ Return(w.obj)
      BY <1>9 DEF CreateLB
    <3> DEFINE i == IF l \in addressed' THEN l ELSE None
               o == [w.obj EXCEPT !.lb = l, !.ip = i]
    <3>2. i \in LbId \cup {None}
      OBVIOUS
    <3> HIDE DEF i
    <3>3. o \in Object /\ o.finalizer = w.obj.finalizer
      BY <1>1, <3>2 DEF Object
    <3>4. Finish(o) \/ Return(w.obj)
      BY <3>1 DEF i
    <3> HIDE DEF o
    <3> QED
      BY <1>1, <3>3, <3>4, FinishFacts, ReturnFacts
  <2> QED
    BY <1>1, <1>3, <1>9, <2>1 DEF CreateLB
<1>10. CASE DeleteLB
  <2> DEFINE o == [w.obj EXCEPT !.finalizer = FALSE]
  <2>1. o \in Object
    BY <1>1 DEF Object
  <2>2. Return(o) \/ Return(w.obj)
    BY <1>10 DEF DeleteLB
  <2> HIDE DEF o
  <2>3. w'.pc = "patchObject" /\ w'.base = w.base
    BY <1>1, <2>1, <2>2, ReturnFacts
  <2>4. /\ lbs' = [lbs EXCEPT ![w.base.lb] = "gone"]
        /\ w.base.lb \in LbId /\ UNCHANGED store
    BY <1>1, <1>10 DEF DeleteLB, TypeOK, Object
  <2>5. lbs'[w'.base.lb] = "gone"
    BY <2>3, <2>4 DEF TypeOK
  <2> QED
    BY <2>3, <2>4, <2>5 DEF ReleaseInv
<1> QED
  BY <1>2, <1>4, <1>5, <1>6, <1>7, <1>8, <1>9, <1>10 DEF Controller

LEMMA ReleaseStep ==
    ASSUME TypeOK, ReleaseInv, [Next]_vars
    PROVE  ReleaseInv'
<1>1. /\ w.obj \in Object /\ w.base \in Object /\ store \in Object
  BY DEF TypeOK, Worker
<1>2. CASE Controller /\ w.pc \notin {"patchObject", "patchStatus"}
  BY <1>2, WorkRelease
<1>3. CASE PatchObject \/ PatchObjectFails
  <2>1. w'.pc = "patchStatus"
    BY <1>3, GotoFacts DEF PatchObject, PatchObjectFails
  <2>2. store' = store \/ store' = PatchedObject(w.base, w.obj, store)
    BY <1>3 DEF PatchObject, PatchObjectFails
  <2>3. store'.exists /\ store'.deleting => store'.finalizer
    BY <1>1, <2>2, PatchedDeletion DEF ReleaseInv
  <2> QED
    BY <2>1, <2>3 DEF ReleaseInv
<1>4. CASE PatchStatus \/ PatchStatusFails
  <2>1. w'.pc = "idle"
    BY <1>4, IdleFacts DEF PatchStatus, PatchStatusFails
  <2>2. store' = store \/ store' = PatchedStatus(w.base, w.obj, store)
    BY <1>4 DEF PatchStatus, PatchStatusFails
  <2>3. store'.exists /\ store'.deleting => store'.finalizer
    <3>1. /\ PatchedStatus(w.base, w.obj, store).exists = store.exists
          /\ PatchedStatus(w.base, w.obj, store).deleting = store.deleting
          /\ PatchedStatus(w.base, w.obj, store).finalizer = store.finalizer
      BY <1>1 DEF PatchedStatus, Object
    <3> QED
      BY <2>2, <3>1 DEF ReleaseInv
  <2> QED
    BY <2>1, <2>3 DEF ReleaseInv
<1>5. CASE Crash
  <2>1. w'.pc = "idle" /\ UNCHANGED store
    BY <1>5, IdleFacts DEF Crash
  <2> QED
    BY <2>1 DEF ReleaseInv
<1>6. ASSUME UNCHANGED w, store'.exists /\ store'.deleting => store'.finalizer
      PROVE  ReleaseInv'
  <2>1. w.base.lb # None /\ lbs[w.base.lb] = "gone" => lbs'[w.base.lb] = "gone"
    BY <1>1, GoneForGood DEF Object
  <2> QED
    BY <1>6, <2>1 DEF ReleaseInv
<1>7. CASE AdoptCluster \/ UserDelete
  <2>1. store'.exists /\ store'.deleting => store'.finalizer
    BY <1>1, <1>7 DEF AdoptCluster, UserDelete, ReleaseInv, Object
  <2> QED
    BY <1>6, <1>7, <2>1 DEF AdoptCluster, UserDelete
<1>8. ASSUME CacheSync \/ LateCreate \/ TogglePause
             \/ \E l \in LbId : LBReset(l) \/ LBGetsIP(l) \/ ServersChange(l)
      PROVE  UNCHANGED <<store, w>>
  BY <1>8 DEF CacheSync, LateCreate, TogglePause, LBReset, LBGetsIP, ServersChange, cloud
<1>9. CASE UNCHANGED <<store, w>>
  BY <1>6, <1>9 DEF ReleaseInv
<1>10. CASE UNCHANGED vars
  BY <1>9, <1>10 DEF vars
<1>11. CASE Controller
  <2>1. CASE w.pc \in {"patchObject", "patchStatus"}
    BY <1>3, <1>4, <1>11, <2>1 DEF Controller, Reconcile, AddFinalizer,
       CheckRecorded, StartLookup, DeleteLoadBalancer, DeleteWithoutLB, Reading,
       GetLBFound, GetLBGone, GetLBFails, LookupFound, LookupMissed, CreateLB,
       CreateLBFails, ClearGet, ClearPut, ClearSkipped, DeleteLB, DeleteLBFails
  <2> QED
    BY <1>2, <1>11, <2>1
<1> QED
  BY <1>5, <1>7, <1>8, <1>9, <1>10, <1>11 DEF Next, Environment

\* A deleted object goes only when the load balancer that its reconciliation
\* found recorded is gone from the cloud, whatever fails.
THEOREM Releases == Spec => ReleasedBeforeGone
<1>1. TypeOK /\ ReleaseInv /\ [Next]_vars => ReleaseInv'
  BY ReleaseStep
<1>2. TypeOK /\ ReleaseInv /\ [Next]_vars
        => [store.exists /\ store.deleting /\ ~store'.exists
               => w.base.lb = None \/ lbs[w.base.lb] = "gone"]_vars
  <2> SUFFICES ASSUME TypeOK, ReleaseInv, Next,
                      store.exists, store.deleting, ~store'.exists
               PROVE  w.base.lb = None \/ lbs[w.base.lb] = "gone"
    OBVIOUS
  <2>1. /\ w.obj \in Object /\ w.base \in Object /\ store \in Object
        /\ store.finalizer
    BY DEF TypeOK, Worker, ReleaseInv
  <2>2. CASE PatchObject
    <3>1. store' = PatchedObject(w.base, w.obj, store)
      BY <2>2 DEF PatchObject
    <3>2. w.base.finalizer /\ ~w.obj.finalizer
      BY <2>1, <3>1, PatchedDeletion
    <3> QED
      BY <2>2, <3>2 DEF PatchObject, ReleaseInv
  <2>3. ~PatchStatus
    <3>1. PatchedStatus(w.base, w.obj, store).exists = store.exists
      BY <2>1 DEF PatchedStatus, Object
    <3> QED
      BY <3>1 DEF PatchStatus
  <2>4. ~AdoptCluster /\ ~UserDelete
    BY <2>1 DEF AdoptCluster, UserDelete, Object
  <2>5. CASE UNCHANGED store
    BY <2>5
  <2> QED
    BY <2>2, <2>3, <2>4, <2>5 DEF Next, Controller, Environment, Reconcile,
       AddFinalizer, CheckRecorded, StartLookup, DeleteLoadBalancer,
       DeleteWithoutLB, Begin, GetLBFound, GetLBGone, GetLBFails, LookupFound,
       LookupMissed, CreateLB, CreateLBFails, ClearGet, ClearPut, ClearSkipped,
       DeleteLB, DeleteLBFails, PatchObjectFails, PatchStatusFails, CacheSync,
       Crash, LBReset, LBGetsIP, LateCreate, ServersChange, TogglePause
<1> QED
  BY InitRelease, TypeCorrect, <1>1, <1>2, PTL DEF Spec, ReleasedBeforeGone

-----------------------------------------------------------------------------
(***************************************************************************)
(* Readiness and the endpoint.                                             *)
(***************************************************************************)

LEMMA InitEndpoint == Init => EndpointInv
  BY DEF Init, EndpointInv, NewObject, IdleWorker

\* What a reconciliation does to the endpoint and the readiness in its memory.
EndpointKept ==
    /\ w'.base = w.base
    /\ \/ w'.obj.endpoint = w.obj.endpoint /\ w'.obj.ready = w.obj.ready
       \/ w'.obj.endpoint # None

LEMMA FinishEndpoint ==
    ASSUME TypeOK, NEW o \in Object, Finish(o),
           o.endpoint = w.obj.endpoint, o.ready = w.obj.ready
    PROVE  EndpointKept
<1>1. CASE o.ip = None
  BY <1>1, ReturnFacts DEF Finish, EndpointKept
<1>2. CASE o.ip # None
  <2> DEFINE p == [o EXCEPT !.endpoint = o.ip, !.ready = TRUE]
  <2>1. p \in Object /\ p.endpoint = o.ip
    BY DEF Object
  <2>2. Return(p)
    BY <1>2 DEF Finish
  <2> HIDE DEF p
  <2> QED
    BY <1>2, <2>1, <2>2, ReturnFacts DEF EndpointKept
<1> QED
  BY <1>1, <1>2

LEMMA WorkEndpoint ==
    ASSUME TypeOK, Controller, ~Reconcile, w.pc \notin {"patchObject", "patchStatus"}
    PROVE  /\ EndpointKept /\ w'.pc # "patchStatus"
           /\ UNCHANGED <<store, cache>>
<1>1. w.obj \in Object /\ w.base \in Object
  BY DEF TypeOK, Worker
<1>2. ~PatchObject /\ ~PatchObjectFails /\ ~PatchStatus /\ ~PatchStatusFails
  BY DEF PatchObject, PatchObjectFails, PatchStatus, PatchStatusFails
<1>3. CASE GetLBFound \/ LookupFound
  <2>1. PICK l \in LbId : Finish(WithLB(l))
    BY <1>3 DEF GetLBFound, LookupFound, Up
  <2>2. WithLB(l).endpoint = w.obj.endpoint
    BY <1>1 DEF WithLB, Object
  <2> QED
    BY <1>3, <2>1, <2>2, WithLBType, FinishEndpoint, FinishFacts
    DEF GetLBFound, LookupFound
<1>4. CASE GetLBGone
  BY <1>1, <1>4 DEF GetLBGone, TypeOK, Worker, Object, EndpointKept
<1>5. CASE GetLBFails \/ CreateLBFails \/ DeleteLBFails
  BY <1>1, <1>5, ReturnFacts DEF GetLBFails, CreateLBFails, DeleteLBFails, EndpointKept
<1>6. CASE LookupMissed \/ ClearGet \/ ClearPut \/ ClearSkipped
  BY <1>6, GotoFacts DEF LookupMissed, ClearGet, ClearPut, ClearSkipped, EndpointKept
<1>7. CASE CreateLB
  <2>1. PICK l \in LbId :
           \/ Finish([w.obj EXCEPT !.lb = l,
                                 !.ip = IF l \in addressed' THEN l ELSE None])
           \/ Return(w.obj)
    BY <1>7 DEF CreateLB
  <2> DEFINE i == IF l \in addressed' THEN l ELSE None
             o == [w.obj EXCEPT !.lb = l, !.ip = i]
  <2>2. i \in LbId \cup {None}
    OBVIOUS
  <2> HIDE DEF i
  <2>3. o \in Object /\ o.endpoint = w.obj.endpoint /\ o.ready = w.obj.ready
    BY <1>1, <2>2 DEF Object
  <2>4. Finish(o) \/ Return(w.obj)
    BY <2>1 DEF i
  <2> HIDE DEF o
  <2> QED
    BY <1>1, <1>7, <2>3, <2>4, FinishEndpoint, FinishFacts, ReturnFacts
    DEF CreateLB, EndpointKept
<1>8. CASE DeleteLB
  <2> DEFINE o == [w.obj EXCEPT !.finalizer = FALSE]
  <2>1. o \in Object /\ o.endpoint = w.obj.endpoint /\ o.ready = w.obj.ready
    BY <1>1 DEF Object
  <2>2. Return(o) \/ Return(w.obj)
    BY <1>8 DEF DeleteLB
  <2> HIDE DEF o
  <2> QED
    BY <1>1, <1>8, <2>1, <2>2, ReturnFacts DEF DeleteLB, EndpointKept
<1> QED
  BY <1>2, <1>3, <1>4, <1>5, <1>6, <1>7, <1>8 DEF Controller

LEMMA EndpointStep ==
    ASSUME TypeOK, EndpointInv, [Next]_vars, "patchError" \notin Faults
    PROVE  EndpointInv'
<1>1. store \in Object /\ cache \in Object /\ w.obj \in Object /\ w.base \in Object
  BY DEF TypeOK, Worker
<1>2. CASE Reconcile
  <2>1. PICK p \in WorkerPc \ {"patchStatus"}, b \in BOOLEAN :
           Begin(p, [cache EXCEPT !.finalizer = b]) \/ Begin(p, cache)
    BY <1>2 DEF Reconcile, AddFinalizer, CheckRecorded, StartLookup,
                DeleteLoadBalancer, DeleteWithoutLB
  <2> DEFINE o == [cache EXCEPT !.finalizer = b]
  <2>2. o \in Object /\ o.endpoint = cache.endpoint /\ o.ready = cache.ready
    BY <1>1 DEF Object
  <2>3. Begin(p, o) \/ Begin(p, cache)
    BY <2>1
  <2> HIDE DEF o
  <2>4. /\ w'.pc # "patchStatus" /\ w'.base = cache /\ UNCHANGED <<store, cache>>
        /\ w'.obj.endpoint = cache.endpoint /\ w'.obj.ready = cache.ready
    BY <1>1, <2>2, <2>3, BeginFacts
  <2> QED
    BY <2>4 DEF EndpointInv
<1>3. CASE Controller /\ ~Reconcile /\ w.pc \notin {"patchObject", "patchStatus"}
  BY <1>3, WorkEndpoint DEF EndpointInv, EndpointKept
<1>4. CASE PatchObject
  <2>1. /\ w'.pc = "patchStatus" /\ w'.obj = w.obj /\ w'.base = w.base
        /\ UNCHANGED cache
    BY <1>4, GotoFacts DEF PatchObject
  <2>2. CASE store.exists
    <3>1. store' = PatchedObject(w.base, w.obj, store)
      BY <1>4, <2>2 DEF PatchObject
    <3>2. /\ store'.ready = store.ready
          /\ store'.endpoint = IF w.base.endpoint = w.obj.endpoint
                               THEN store.endpoint ELSE w.obj.endpoint
      BY <1>1, <3>1 DEF PatchedObject, Merged, Object
    <3> QED
      BY <2>1, <3>2 DEF EndpointInv
  <2>3. CASE ~store.exists
    <3>1. store' = store
      BY <1>4, <2>3 DEF PatchObject
    <3> QED
      BY <2>1, <2>3, <3>1 DEF EndpointInv
  <2> QED
    BY <2>2, <2>3
<1>5. CASE PatchStatus
  <2>1. w' = IdleWorker /\ w.pc = "patchStatus" /\ UNCHANGED cache
    BY <1>5 DEF PatchStatus
  <2>2. /\ store'.endpoint = store.endpoint
        /\ store'.ready /\ ~store.ready
              => store.exists /\ w.obj.ready /\ ~w.base.ready
    BY <1>1, <1>5 DEF PatchStatus, PatchedStatus, Merged, Object
  <2> QED
    BY <2>1, <2>2 DEF EndpointInv, IdleWorker, NewObject
<1>6. CASE Crash
  BY <1>6 DEF Crash, EndpointInv, IdleWorker, NewObject
<1>7. CASE AdoptCluster \/ UserDelete
  <2>1. /\ store'.ready = store.ready /\ store'.endpoint = store.endpoint
        /\ store'.exists => store.exists
        /\ UNCHANGED <<cache, w>>
    BY <1>1, <1>7 DEF AdoptCluster, UserDelete, Object
  <2> QED
    BY <2>1 DEF EndpointInv
<1>8. CASE CacheSync
  BY <1>8 DEF CacheSync, EndpointInv
<1>9. CASE UNCHANGED <<store, cache, w>>
  BY <1>9 DEF EndpointInv
<1>10. ASSUME UNCHANGED vars \/ LateCreate \/ TogglePause
              \/ \E l \in LbId : LBReset(l) \/ LBGetsIP(l) \/ ServersChange(l)
       PROVE  UNCHANGED <<store, cache, w>>
  BY <1>10 DEF LateCreate, TogglePause, LBReset, LBGetsIP, ServersChange, cloud, vars
<1>11. CASE Controller
  <2>1. ~PatchObjectFails /\ ~PatchStatusFails
    BY DEF PatchObjectFails, PatchStatusFails
  <2>2. CASE w.pc \in {"patchObject", "patchStatus"}
    BY <1>4, <1>5, <1>11, <2>1, <2>2 DEF Controller, Reconcile, AddFinalizer,
       CheckRecorded, StartLookup, DeleteLoadBalancer, DeleteWithoutLB, Reading,
       GetLBFound, GetLBGone, GetLBFails, LookupFound, LookupMissed, CreateLB,
       CreateLBFails, ClearGet, ClearPut, ClearSkipped, DeleteLB, DeleteLBFails
  <2> QED
    BY <1>2, <1>3, <1>11, <2>2
<1> QED
  BY <1>6, <1>7, <1>8, <1>9, <1>10, <1>11 DEF Next, Environment

\* A ready cluster has its endpoint, though the two are stored by different
\* writes, whatever crashes, is stale or fails but the writes themselves.
THEOREM ReadyWithEndpoint ==
    ASSUME "patchError" \notin Faults
    PROVE  Spec => []ReadyHasEndpoint
<1>1. TypeOK /\ EndpointInv /\ [Next]_vars => EndpointInv'
  BY EndpointStep
<1>2. EndpointInv => ReadyHasEndpoint
  BY DEF EndpointInv, ReadyHasEndpoint
<1> QED
  BY InitEndpoint, TypeCorrect, <1>1, <1>2, PTL DEF Spec

=============================================================================
