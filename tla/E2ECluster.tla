----------------------------- MODULE E2ECluster -----------------------------
(***************************************************************************)
(* The E2ECluster controller: the reconcile loop that keeps one TCP load   *)
(* balancer for the API server of a cluster, publishes its address as the  *)
(* control plane endpoint, and deletes it with the cluster.                *)
(*                                                                         *)
(* One E2ECluster object and the controller's one worker.  As in           *)
(* E2EMachine a reconciliation is cut at every remote call, and what it    *)
(* changed is stored at its end by two writes, of metadata and spec first  *)
(* and of the status second.  Conditions and log lines are left out.       *)
(***************************************************************************)
EXTENDS Naturals

CONSTANTS
    LbId,       \* IDs the cloud can give to load balancers
    Backend,    \* servers that the machines register
    None,       \* an unset ID or address
    Faults      \* the adverse behaviours the environment may show

FaultKind ==
    { "staleCache",     \* the informer cache lags behind the API server
      "crash",          \* the manager dies and restarts
      "patchError",     \* a write to the API server is refused
      "listError",      \* the lookup by name fails
      "lostReply",      \* a cloud call takes effect but reports an error
      "lateCreate",     \* a create request is executed after its caller gave up
      "lbError",        \* another load balancer call fails
      "lbReset",        \* the load balancer is deleted behind the provider's back
      "noIP",           \* a load balancer has no public IP at first
      "lateBackend",    \* machines register while the cluster is deleted
      "pause" }         \* the cluster is paused and resumed

ASSUME ConstantAssumption ==
    /\ None \notin LbId
    /\ Faults \subseteq FaultKind

VARIABLES
    store,      \* the E2ECluster object as the API server holds it
    cache,      \* the same object as the informer cache holds it
    paused,     \* the Cluster is paused
    lbs,        \* load balancers of the cloud: absent, up or gone
    addressed,  \* those that have a public IP
    servers,    \* the TCP backend groups of each load balancer
    late,       \* a timed-out create request is still under way
    w           \* the controller's worker

vars == <<store, cache, paused, lbs, addressed, servers, late, w>>
cloud == <<lbs, addressed, servers, late>>

-----------------------------------------------------------------------------
(***************************************************************************)
(* State.  A public IP is identified with the load balancer that has it.   *)
(***************************************************************************)

Object == [exists    : BOOLEAN,
           owned     : BOOLEAN,             \* has a Cluster ownerReference
           deleting  : BOOLEAN,             \* DeletionTimestamp is set
           finalizer : BOOLEAN,
           endpoint  : LbId \cup {None},    \* Spec.ControlPlaneEndpoint
           lb        : LbId \cup {None},    \* Status.Network.LoadBalancerID
           ip        : LbId \cup {None},    \* Status.Network.APIServerIP
           ready     : BOOLEAN]

NewObject == [exists |-> TRUE, owned |-> FALSE, deleting |-> FALSE,
              finalizer |-> FALSE, endpoint |-> None, lb |-> None,
              ip |-> None, ready |-> FALSE]

\* The load balancers of this cluster that a list of the appliances shows.
Up == {l \in LbId : lbs[l] = "up"}

PublicIP(l) == IF l \in addressed THEN l ELSE None

WorkerPc == {"idle", "getLB", "lookup", "create", "clearGet", "clearPut",
             "deleteLB", "patchObject", "patchStatus"}

Worker == [pc   : WorkerPc,
           base : Object,       \* as read from the cache
           obj  : Object]       \* as changed in memory

IdleWorker == [pc |-> "idle", base |-> NewObject, obj |-> NewObject]

Init ==
    /\ store = NewObject
    /\ cache = store
    /\ paused = FALSE
    /\ lbs = [l \in LbId |-> "absent"]
    /\ addressed = {}
    /\ servers = [l \in LbId |-> {}]
    /\ late = FALSE
    /\ w = IdleWorker

-----------------------------------------------------------------------------
(***************************************************************************)
(* Reconcile: read the object, decide what to do.                          *)
(***************************************************************************)

Reading ==
    /\ w.pc = "idle"
    /\ cache.exists
    /\ cache.owned
    /\ ~paused
    /\ "staleCache" \in Faults \/ cache = store

\* The reconciliation goes on at p, its object changed to o.
Begin(p, o) ==
    /\ w' = [pc |-> p, base |-> cache, obj |-> o]
    /\ UNCHANGED <<store, cache, paused, cloud>>

\* Every return runs the deferred patch of the object.
Return(o) == w' = [w EXCEPT !.pc = "patchObject", !.obj = o]

Goto(p) == w' = [w EXCEPT !.pc = p]

AddFinalizer ==
    /\ Reading
    /\ ~cache.deleting
    /\ ~cache.finalizer
    /\ Begin("patchObject", [cache EXCEPT !.finalizer = TRUE])

\* reconcileLoadBalancer checks a load balancer that is recorded.
CheckRecorded ==
    /\ Reading
    /\ ~cache.deleting
    /\ cache.finalizer
    /\ cache.lb # None
    /\ Begin("getLB", cache)

\* It looks for one made earlier if none is recorded.
StartLookup ==
    /\ Reading
    /\ ~cache.deleting
    /\ cache.finalizer
    /\ cache.lb = None
    /\ Begin("lookup", cache)

\* Mutant: the load balancer ID is not looked at.
DeleteUnrecorded ==
    /\ Reading
    /\ cache.deleting
    /\ Begin("clearGet", cache)

DeleteLoadBalancer ==
    /\ Reading
    /\ cache.deleting
    /\ cache.lb # None
    /\ Begin("clearGet", cache)

DeleteWithoutLB ==
    /\ Reading
    /\ cache.deleting
    /\ cache.lb = None
    /\ Begin("patchObject", [cache EXCEPT !.finalizer = FALSE])

Reconcile ==
    \/ AddFinalizer
    \/ CheckRecorded
    \/ StartLookup
    \/ DeleteLoadBalancer
    \/ DeleteWithoutLB

-----------------------------------------------------------------------------
(***************************************************************************)
(* reconcileLoadBalancer, and what reconcileNormal makes of its result.    *)
(***************************************************************************)

WithLB(l) == [w.obj EXCEPT !.lb = l, !.ip = PublicIP(l)]

\* Mutant: the cluster is ready as soon as its load balancer was made.
FinishWithoutIP(o) == Return([o EXCEPT !.endpoint = o.ip, !.ready = TRUE])

\* Without an address the controller tries again later; with one the cluster
\* gets its endpoint and is ready.
Finish(o) ==
    Return(IF o.ip = None THEN o ELSE [o EXCEPT !.endpoint = o.ip, !.ready = TRUE])

\* Mutant: the address that the load balancer has by now is not read.
GetLBFoundUnread ==
    /\ w.pc = "getLB"
    /\ w.obj.lb \in Up
    /\ Finish(w.obj)
    /\ UNCHANGED <<store, cache, paused, cloud>>

GetLBFound ==
    /\ w.pc = "getLB"
    /\ w.obj.lb \in Up
    /\ Finish(WithLB(w.obj.lb))
    /\ UNCHANGED <<store, cache, paused, cloud>>

\* Deleted externally: reset and go on to make another one.
GetLBGone ==
    /\ w.pc = "getLB"
    /\ w.obj.lb \notin Up
    /\ w' = [w EXCEPT !.pc = "lookup", !.obj.lb = None, !.obj.ip = None]
    /\ UNCHANGED <<store, cache, paused, cloud>>

\* Mutant: the ID is reset before the error is looked at.
GetLBFailsAndForgets ==
    /\ w.pc = "getLB"
    /\ "lbError" \in Faults
    /\ Return([w.obj EXCEPT !.lb = None, !.ip = None])
    /\ UNCHANGED <<store, cache, paused, cloud>>

GetLBFails ==
    /\ w.pc = "getLB"
    /\ "lbError" \in Faults
    /\ Return(w.obj)
    /\ UNCHANGED <<store, cache, paused, cloud>>

LookupFound ==
    /\ w.pc = "lookup"
    /\ \E l \in Up : Finish(WithLB(l))
    /\ UNCHANGED <<store, cache, paused, cloud>>

\* Mutant: a load balancer is created without looking for one.
LookupIgnored ==
    /\ w.pc = "lookup"
    /\ Goto("create")
    /\ UNCHANGED <<store, cache, paused, cloud>>

\* Any error of GetLoadBalancerByName leads on to CreateLoadBalancer.
LookupMissed ==
    /\ w.pc = "lookup"
    /\ Up = {} \/ "listError" \in Faults
    /\ Goto("create")
    /\ UNCHANGED <<store, cache, paused, cloud>>

\* The cloud sets up a load balancer under an ID it never used before.
Provision(l) ==
    /\ lbs[l] = "absent"
    /\ lbs' = [lbs EXCEPT ![l] = "up"]
    /\ \/ addressed' = addressed \cup {l}
       \/ "noIP" \in Faults /\ UNCHANGED addressed

CreateLB ==
    /\ w.pc = "create"
    /\ \E l \in LbId :
          /\ Provision(l)
          /\ \/ Finish([w.obj EXCEPT !.lb = l, !.ip = IF l \in addressed' THEN l ELSE None])
             \/ "lostReply" \in Faults /\ Return(w.obj)
    /\ UNCHANGED <<store, cache, paused, servers, late>>

CreateLBFails ==
    /\ w.pc = "create"
    /\ \/ "lbError" \in Faults /\ UNCHANGED late
       \/ "lateCreate" \in Faults /\ late' = TRUE
    /\ Return(w.obj)
    /\ UNCHANGED <<store, cache, paused, lbs, addressed, servers>>

-----------------------------------------------------------------------------
(***************************************************************************)
(* reconcileDelete: drain the load balancer, then delete it.               *)
(***************************************************************************)

\* Mutant: the backends are read but never taken out.
ClearGetOnly ==
    /\ w.pc = "clearGet"
    /\ w.obj.lb \in Up
    /\ Goto("deleteLB")
    /\ UNCHANGED <<store, cache, paused, cloud>>

ClearGet ==
    /\ w.pc = "clearGet"
    /\ w.obj.lb \in Up
    /\ Goto(IF servers[w.obj.lb] = {} THEN "deleteLB" ELSE "clearPut")
    /\ UNCHANGED <<store, cache, paused, cloud>>

ClearPut ==
    /\ w.pc = "clearPut"
    /\ w.obj.lb \in Up
    /\ servers' = [servers EXCEPT ![w.obj.lb] = {}]
    /\ Goto("deleteLB")
    /\ UNCHANGED <<store, cache, paused, lbs, addressed, late>>

\* Already gone, or an error that is only logged.
ClearSkipped ==
    /\ w.pc \in {"clearGet", "clearPut"}
    /\ w.obj.lb \notin Up \/ "lbError" \in Faults
    /\ Goto("deleteLB")
    /\ UNCHANGED <<store, cache, paused, cloud>>

\* A load balancer that is already gone counts as deleted.
DeleteLB ==
    /\ w.pc = "deleteLB"
    /\ lbs' = [lbs EXCEPT ![w.obj.lb] = "gone"]
    /\ servers' = [servers EXCEPT ![w.obj.lb] = {}]
    /\ \/ Return([w.obj EXCEPT !.finalizer = FALSE])
       \/ "lostReply" \in Faults /\ Return(w.obj)
    /\ UNCHANGED <<store, cache, paused, addressed, late>>

\* Mutant: an error of DeleteLoadBalancer is only logged.
DeleteLBErrorIgnored ==
    /\ w.pc = "deleteLB"
    /\ \/ w.obj.lb \in Up /\ servers[w.obj.lb] # {}
       \/ "lbError" \in Faults
    /\ Return([w.obj EXCEPT !.finalizer = FALSE])
    /\ UNCHANGED <<store, cache, paused, cloud>>

\* The cloud may refuse to delete a load balancer that still has backends.
DeleteLBFails ==
    /\ w.pc = "deleteLB"
    /\ \/ w.obj.lb \in Up /\ servers[w.obj.lb] # {}
       \/ "lbError" \in Faults
    /\ Return(w.obj)
    /\ UNCHANGED <<store, cache, paused, cloud>>

-----------------------------------------------------------------------------
(***************************************************************************)
(* The deferred patch: the fields that differ from what was read.          *)
(***************************************************************************)

Merged(b, o, current) == IF b = o THEN current ELSE o

\* The API server drops a deleted object with its last finalizer.
PatchedObject(b, o, old) ==
    LET new == [old EXCEPT !.finalizer = Merged(b.finalizer, o.finalizer, @),
                           !.endpoint  = Merged(b.endpoint, o.endpoint, @)]
    IN  [new EXCEPT !.exists = ~new.deleting \/ new.finalizer]

PatchedStatus(b, o, old) ==
    [old EXCEPT !.lb    = Merged(b.lb, o.lb, @),
                !.ip    = Merged(b.ip, o.ip, @),
                !.ready = Merged(b.ready, o.ready, @)]

PatchObject ==
    /\ w.pc = "patchObject"
    /\ store' = IF store.exists THEN PatchedObject(w.base, w.obj, store) ELSE store
    /\ Goto("patchStatus")
    /\ UNCHANGED <<cache, paused, cloud>>

PatchObjectFails ==
    /\ w.pc = "patchObject"
    /\ "patchError" \in Faults
    /\ Goto("patchStatus")
    /\ UNCHANGED <<store, cache, paused, cloud>>

PatchStatus ==
    /\ w.pc = "patchStatus"
    /\ store' = IF store.exists THEN PatchedStatus(w.base, w.obj, store) ELSE store
    /\ w' = IdleWorker
    /\ UNCHANGED <<cache, paused, cloud>>

PatchStatusFails ==
    /\ w.pc = "patchStatus"
    /\ "patchError" \in Faults
    /\ w' = IdleWorker
    /\ UNCHANGED <<store, cache, paused, cloud>>

Controller ==
    \/ Reconcile
    \/ GetLBFound
    \/ GetLBGone
    \/ GetLBFails
    \/ LookupFound
    \/ LookupMissed
    \/ CreateLB
    \/ CreateLBFails
    \/ ClearGet
    \/ ClearPut
    \/ ClearSkipped
    \/ DeleteLB
    \/ DeleteLBFails
    \/ PatchObject
    \/ PatchObjectFails
    \/ PatchStatus
    \/ PatchStatusFails

-----------------------------------------------------------------------------
(***************************************************************************)
(* The surroundings of the controller.                                     *)
(***************************************************************************)

\* What the machines of the cluster see of this controller.
Contract == INSTANCE ClusterContract
            WITH cluster <- [exists |-> store.exists, ready |-> store.ready,
                             lb |-> store.lb]

CacheSync ==
    /\ cache # store
    /\ cache' = store
    /\ UNCHANGED <<store, paused, cloud, w>>

\* The manager dies, loses its memory and lists the objects anew.
Crash ==
    /\ "crash" \in Faults
    /\ w.pc # "idle"
    /\ w' = IdleWorker
    /\ cache' = store
    /\ \/ UNCHANGED late
       \/ "lateCreate" \in Faults /\ w.pc = "create" /\ late' = TRUE
    /\ UNCHANGED <<store, paused, lbs, addressed, servers>>

\* The Cluster controller sets the ownerReference.
AdoptCluster ==
    /\ store.exists
    /\ ~store.owned
    /\ store' = [store EXCEPT !.owned = TRUE]
    /\ UNCHANGED <<cache, paused, cloud, w>>

\* A finalizer keeps a deleted object until it is removed.
UserDelete ==
    /\ store.exists
    /\ ~store.deleting
    /\ store' = [store EXCEPT !.deleting = store.finalizer, !.exists = store.finalizer]
    /\ UNCHANGED <<cache, paused, cloud, w>>

\* Deleted behind the provider's back, but not the last one: an ID is used
\* once, and LbId bounds how often this happens.
LBReset(l) ==
    /\ "lbReset" \in Faults
    /\ \E k \in LbId : lbs[k] = "absent"
    /\ UNCHANGED <<store, cache, paused, addressed, late, w>>
    /\ Contract!LBVanishes(l)

LBGetsIP(l) ==
    /\ l \in Up \ addressed
    /\ addressed' = addressed \cup {l}
    /\ UNCHANGED <<store, cache, paused, lbs, servers, late, w>>

\* A create request whose caller gave up is executed after all, or is lost.
LateCreate ==
    /\ late
    /\ late' = FALSE
    /\ \/ \E l \in LbId : Provision(l)
       \/ UNCHANGED <<lbs, addressed>>
    /\ UNCHANGED <<store, cache, paused, servers, w>>

\* Cluster API deletes the machines of a cluster before the cluster.
ServersChange(l) ==
    /\ store.deleting => "lateBackend" \in Faults
    /\ UNCHANGED <<store, cache, paused, addressed, late, w>>
    /\ Contract!BackendsWritten(l)

TogglePause ==
    /\ "pause" \in Faults
    /\ paused' = ~paused
    /\ UNCHANGED <<store, cache, cloud, w>>

Environment ==
    \/ CacheSync
    \/ Crash
    \/ AdoptCluster
    \/ UserDelete
    \/ \E l \in LbId : LBReset(l) \/ LBGetsIP(l) \/ ServersChange(l)
    \/ LateCreate
    \/ TogglePause

Next == Controller \/ Environment

Spec == Init /\ [][Next]_vars

(***************************************************************************)
(* Fairness.  The watches, the requeues and the resync of the informers    *)
(* bring the worker back to the object again and again, a reconciliation   *)
(* that began goes on, a call to the cloud does not fail for ever, and a   *)
(* load balancer without backends can be deleted.                          *)
(***************************************************************************)
Fairness ==
    /\ WF_vars(Controller /\ w.pc # "idle")
    /\ SF_vars(Reconcile)
    /\ SF_vars(GetLBFound \/ GetLBGone)
    /\ SF_vars(LookupFound)
    /\ SF_vars(CreateLB)
    /\ SF_vars(ClearGet)
    /\ SF_vars(ClearPut)
    /\ SF_vars(DeleteLB /\ servers[w.obj.lb] = {})
    /\ WF_vars(CacheSync)
    /\ WF_vars(AdoptCluster)
    /\ \A l \in LbId : WF_vars(LBGetsIP(l))

FairSpec == Spec /\ Fairness

-----------------------------------------------------------------------------
(***************************************************************************)
(* Properties.                                                             *)
(***************************************************************************)

\* Every variable has its type, and no step of a reconciliation uses a load
\* balancer ID that is not set.
TypeOK ==
    /\ store \in Object
    /\ cache \in Object
    /\ paused \in BOOLEAN
    /\ lbs \in [LbId -> {"absent", "up", "gone"}]
    /\ addressed \in SUBSET LbId
    /\ servers \in [LbId -> SUBSET Backend]
    /\ late \in BOOLEAN
    /\ w \in Worker
    /\ w.pc \in {"getLB", "clearGet", "clearPut", "deleteLB"} => w.obj.lb # None

\* The cluster never has two load balancers at a time, across stale reads,
\* crashes, refused writes, lost replies and losses of the load balancer.
OneLB == \A l1, l2 \in Up : l1 = l2

\* What the machines are promised (ClusterContract) is kept: a load balancer
\* is recorded after it was made, and it is forgotten or replaced only when it
\* is gone.
KeepsContract == Contract!Spec

\* A deleted object goes only when the load balancer that the reconciliation
\* found recorded is gone from the cloud.
ReleasedBeforeGone ==
    [][store.exists /\ store.deleting /\ ~store'.exists
        => w.base.lb = None \/ lbs[w.base.lb] = "gone"]_vars

\* A cluster that Cluster API may take for ready has a control plane endpoint,
\* though the two are stored by different writes.
ReadyHasEndpoint == store.exists /\ store.ready => store.endpoint # None

\* The cluster comes to be ready, with the endpoint at the address of the load
\* balancer that is recorded and up, however often it lost an earlier one,
\* unless it is deleted.
Settles ==
    <>[](store.exists /\ ~store.deleting
            => /\ store.ready
               /\ store.lb \in Up
               /\ store.endpoint = store.lb)

\* A deleted cluster does go away, though its load balancer still has backends
\* and the cloud refuses to delete one that has.
ClusterDeletes == store.deleting ~> ~store.exists

-----------------------------------------------------------------------------
(***************************************************************************)
(* The inductive strengthening of OneLB and KeepsContract, where a list of *)
(* appliances that answers tells the truth and no create request outlives  *)
(* its caller.                                                             *)
(***************************************************************************)

\* An ID that is remembered anywhere was used; while its load balancer is up
\* it is also the one recorded in the API server.
Known(l) ==
    l # None => /\ lbs[l] # "absent"
                /\ lbs[l] = "up" => store.lb = l

\* Creation is only tried when there is no load balancer.
CreationInv ==
    /\ OneLB
    /\ w.pc = "create" => Up = {}
    /\ ~late

\* A changed ID is only written over none, over itself or over one that is
\* gone; readiness is only written together with an ID.
WriteInv ==
    w.pc \in {"patchObject", "patchStatus"} =>
       /\ w.obj.lb # None => lbs[w.obj.lb] # "absent"
       /\ w.obj.lb # w.base.lb
             => store.lb \in {None, w.obj.lb} \/ lbs[store.lb] = "gone"
       /\ w.obj.ready # w.base.ready
             => /\ w.obj.ready
                /\ w.obj.lb # None
                /\ w.obj.lb = w.base.lb => store.lb = w.obj.lb

\* What is remembered while nothing was decided yet.
MemoryInv ==
    /\ w.pc \in {"getLB", "clearGet", "clearPut", "deleteLB"} => w.obj = w.base
    /\ w.pc \in {"lookup", "create"}
          => w.obj.lb = None /\ w.obj.ready = w.base.ready

\* The whole invariant; backends are on load balancers that are up.
ContractInv ==
    /\ Known(store.lb)
    /\ Known(cache.lb)
    /\ Known(w.base.lb)
    /\ CreationInv
    /\ MemoryInv
    /\ WriteInv
    /\ \A l \in LbId : servers[l] # {} => lbs[l] = "up"

\* What makes ReleasedBeforeGone hold: only the end of a deletion takes the
\* finalizer off, and it keeps a deleted object.
ReleaseInv ==
    /\ store.exists /\ store.deleting => store.finalizer
    /\ w.pc \in {"getLB", "lookup", "create", "clearGet", "clearPut", "deleteLB"}
          => w.obj.finalizer = w.base.finalizer
    /\ w.pc \in {"clearGet", "clearPut", "deleteLB"} => w.obj.lb = w.base.lb
    /\ w.pc = "patchObject" /\ w.base.finalizer /\ ~w.obj.finalizer
          => w.base.lb = None \/ lbs[w.base.lb] = "gone"

\* What makes ReadyHasEndpoint hold where no write is refused: an endpoint is
\* never taken back, and readiness is only written after the endpoint was.
EndpointInv ==
    /\ store.ready => store.endpoint # None
    /\ cache.endpoint # None => store.endpoint # None
    /\ w.base.endpoint # None => store.endpoint # None /\ w.obj.endpoint # None
    /\ w.obj.ready /\ ~w.base.ready => w.obj.endpoint # None
    /\ w.pc = "patchStatus" /\ w.obj.endpoint # None /\ store.exists
          => store.endpoint # None

=============================================================================
