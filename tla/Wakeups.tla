------------------------------ MODULE Wakeups ------------------------------
(***************************************************************************)
(* What wakes the two controllers: watches, caches, queues and requeues.   *)
(*                                                                         *)
(* Reconcile returns "nothing more to do" whenever it has to wait for an   *)
(* object that somebody else writes, and relies on an event to be called   *)
(* again.  Each kind of object has its own cache, which follows the API    *)
(* server with a delay of its own, and handlers that map an event to work  *)
(* by what the caches hold when they run.  The question is whether an item *)
(* can be left in a state where nothing will wake it.                      *)
(*                                                                         *)
(* The objects of one cluster: its Cluster, its E2ECluster and E2EMachines.*)
(* What a reconciliation does to the cloud is in E2ECluster and E2EMachine.*)
(* The periodic resync (10 h) is left out: it would hide every loss.       *)
(***************************************************************************)
EXTENDS Naturals

CONSTANTS
    Machines,       \* the E2EMachines
    ControlPlane,   \* those that carry the control plane
    Infra,          \* the E2ECluster
    Cluster,        \* the Cluster that owns it
    None,           \* no item
    Faults,         \* what may disturb the controllers
    MaxPauses       \* bounds how often something is paused or held

FaultKind ==
    { "error",      \* a call of a reconciliation fails
      "pause",      \* the Cluster is paused for a while
      "hold",       \* an item is annotated as paused for a while
      "lateOwner",  \* the cache of Machines is behind that of E2EMachines
      "restart" }   \* the manager stops and another one starts

ASSUME WakeupAssumption ==
    /\ ControlPlane \subseteq Machines
    /\ Infra \notin Machines
    /\ Cluster \notin Machines \cup {Infra}
    /\ None \notin Machines \cup {Infra, Cluster}
    /\ Faults \subseteq FaultKind
    /\ MaxPauses \in Nat

Items == Machines \cup {Infra}

\* How far an item has come.
Absent  == 0
New     == 1    \* no owner yet
Owned   == 2
Guarded == 3    \* it has the finalizer
Started == 4    \* the VM is there
Ready   == 5    \* bootstrapped; of the E2ECluster: Status.Ready
Stage == Absent .. Ready

Objects == [cluster : {"absent", "active", "paused"},
            stage   : [Items -> Stage],
            held    : SUBSET Items]

VARIABLES
    store,      \* the objects at the API server
    cache,      \* the objects in the manager's caches
    known,      \* machines whose Machine, their owner, is in its cache
    events,     \* objects whose last change no handler has seen
    dirty,      \* items that have work: queued, or in work and to be queued again
    timer,      \* items to be added to their queue after a delay
    work,       \* the item in the hands of each controller's worker
    view,       \* what that reconciliation has read
    pauses,     \* how often something was paused or held
    asleep,     \* machines that nothing will wake (see Sleep)
    up          \* the controllers run

vars == <<store, cache, known, events, dirty, timer, work, view, pauses, asleep, up>>

Controllers == {"infra", "machine"}

\* at: what is read next.
View == [at : {"idle", "cluster", "infra", "act"}, stage : Stage, held : BOOLEAN,
         owner : BOOLEAN, cluster : {"absent", "active", "paused"}, infra : Stage]

NoView == [at |-> "idle", stage |-> Absent, held |-> FALSE,
           owner |-> FALSE, cluster |-> "absent", infra |-> Absent]

Controller(i) == IF i = Infra THEN "infra" ELSE "machine"

NoObjects == [cluster |-> "absent", stage |-> [i \in Items |-> Absent], held |-> {}]

Init ==
    /\ store = NoObjects
    /\ cache = NoObjects
    /\ known = {}
    /\ events = {}
    /\ dirty = {}
    /\ timer = {}
    /\ work = [c \in Controllers |-> None]
    /\ view = [c \in Controllers |-> NoView]
    /\ pauses = 0
    /\ asleep = {}
    /\ up = FALSE

manager == <<cache, events, dirty, timer, work, view, asleep, up>>

-----------------------------------------------------------------------------
(***************************************************************************)
(* The API server: what users and the controllers of Cluster API write.    *)
(***************************************************************************)

CreateCluster ==
    /\ store.cluster = "absent"
    /\ store' = [store EXCEPT !.cluster = "active"]
    /\ UNCHANGED <<manager, known, pauses>>

\* No machine is made before its Cluster.
Create(i) ==
    /\ store.stage[i] = Absent
    /\ i # Infra => store.cluster # "absent"
    /\ store' = [store EXCEPT !.stage[i] = New]
    /\ UNCHANGED <<manager, known, pauses>>

\* The owner reference is set.
Adopt(i) ==
    /\ store.stage[i] = New
    /\ store.cluster # "absent"
    /\ store' = [store EXCEPT !.stage[i] = Owned]
    /\ known' = IF "lateOwner" \in Faults THEN known ELSE known \cup ({i} \cap Machines)
    /\ UNCHANGED <<manager, pauses>>

Pause ==
    /\ "pause" \in Faults
    /\ pauses < MaxPauses
    /\ pauses' = pauses + 1
    /\ store.cluster = "active"
    /\ store' = [store EXCEPT !.cluster = "paused"]
    /\ UNCHANGED <<manager, known>>

Unpause ==
    /\ store.cluster = "paused"
    /\ store' = [store EXCEPT !.cluster = "active"]
    /\ UNCHANGED <<manager, known, pauses>>

Hold(i) ==
    /\ "hold" \in Faults
    /\ store.stage[i] # Absent
    /\ i \notin store.held
    /\ pauses < MaxPauses
    /\ pauses' = pauses + 1
    /\ store' = [store EXCEPT !.held = @ \cup {i}]
    /\ UNCHANGED <<manager, known>>

Release(i) ==
    /\ i \in store.held
    /\ store' = [store EXCEPT !.held = @ \ {i}]
    /\ UNCHANGED <<manager, known, pauses>>

-----------------------------------------------------------------------------
(***************************************************************************)
(* The manager: caches, handlers and queues.                               *)
(***************************************************************************)

\* The cache of one kind takes over what the API server has.
Deliver(x) ==
    /\ up
    /\ IF x = Cluster
       THEN /\ cache.cluster # store.cluster
            /\ cache' = [cache EXCEPT !.cluster = store.cluster]
       ELSE /\ \/ cache.stage[x] # store.stage[x]
               \/ (x \in cache.held) # (x \in store.held)
            /\ cache' = [cache EXCEPT !.stage[x] = store.stage[x],
                            !.held = IF x \in store.held THEN @ \cup {x} ELSE @ \ {x}]
    /\ events' = events \cup {x}
    /\ UNCHANGED <<store, known, dirty, timer, work, view, pauses, asleep, up>>

\* The cache of Machines catches up.  The watch on Machine maps to objects of kind
\* Machine: no E2EMachine is woken.
DeliverOwner(m) ==
    /\ up
    /\ m \notin known
    /\ store.stage[m] >= Owned
    /\ known' = known \cup {m}
    /\ UNCHANGED <<store, cache, events, dirty, timer, work, view, pauses, asleep, up>>

\* The machines a change of the E2ECluster is mapped to: those in the cache, if
\* its owner is in the cache too.
MachinesOfInfra ==
    IF cache.stage[Infra] >= Owned /\ cache.cluster # "absent"
    THEN {m \in Machines : cache.stage[m] # Absent}
    ELSE {}

\* Mutant of Woken: a change of the E2ECluster is not mapped to its machines.
WokenOwn(x) ==
    IF x \in cache.held THEN {}
    ELSE IF x = Cluster THEN {Infra} \cap {i \in Items : cache.stage[i] # Absent}
    ELSE {x}

\* Mutant of Woken: an event of the Cluster queues the Cluster's own name.
WokenItself(x) ==
    IF x \in cache.held THEN {}
    ELSE IF x = Infra THEN {Infra} \cup MachinesOfInfra
    ELSE {x}

\* The items an event brings to the queues.  An event of an object that is held
\* is dropped.  A Cluster wakes its E2ECluster and no machine.
Woken(x) ==
    IF x \in cache.held THEN {}
    ELSE IF x = Cluster THEN {Infra} \cap {i \in Items : cache.stage[i] # Absent}
    ELSE IF x = Infra THEN {Infra} \cup MachinesOfInfra
    ELSE {x}

\* Add of a work queue: an item is queued once, and not while it is in work.
Handle(x) ==
    /\ up
    /\ x \in events
    /\ events' = events \ {x}
    /\ dirty' = dirty \cup Woken(x)
    /\ UNCHANGED <<store, cache, known, timer, work, view, pauses, asleep, up>>

Fire(i) ==
    /\ up
    /\ i \in timer
    /\ timer' = timer \ {i}
    /\ dirty' = dirty \cup {i}
    /\ UNCHANGED <<store, cache, known, events, work, view, pauses, asleep, up>>

\* The manager has become the leader: it lists every object, and then its
\* handlers and workers start.
Start ==
    /\ ~up
    /\ up' = TRUE
    /\ cache' = store
    /\ known' = {m \in Machines : store.stage[m] >= Owned}
    /\ events' = {i \in Items : store.stage[i] # Absent}
                    \cup IF store.cluster = "absent" THEN {} ELSE {Cluster}
    /\ UNCHANGED <<store, dirty, timer, work, view, pauses, asleep>>

\* The manager ends, whatever it is doing, and all it knew is lost.
Stop ==
    /\ up
    /\ up' = FALSE
    /\ events' = {}
    /\ dirty' = {}
    /\ timer' = {}
    /\ work' = [c \in Controllers |-> None]
    /\ view' = [c \in Controllers |-> NoView]
    /\ asleep' = {}
    /\ UNCHANGED <<store, cache, known, pauses>>

-----------------------------------------------------------------------------
(***************************************************************************)
(* The worker of controller c.                                             *)
(***************************************************************************)

Read(c, v) == view' = [view EXCEPT ![c] = v]

Take(i) ==
    LET c == Controller(i)
    IN  /\ up
        /\ work[c] = None
        /\ i \in dirty
        /\ dirty' = dirty \ {i}
        /\ work' = [work EXCEPT ![c] = i]
        /\ Read(c, [NoView EXCEPT !.at = "cluster", !.stage = cache.stage[i],
                                  !.held = i \in cache.held,
                                  !.owner = i = Infra \/ i \in known])
        /\ UNCHANGED <<store, cache, known, events, timer, pauses, asleep, up>>

ReadCluster(c) ==
    /\ view[c].at = "cluster"
    /\ Read(c, [view[c] EXCEPT !.at = IF c = "infra" THEN "act" ELSE "infra",
                               !.cluster = cache.cluster])
    /\ UNCHANGED <<store, cache, known, events, dirty, timer, work, pauses, asleep, up>>

ReadInfra(c) ==
    /\ view[c].at = "infra"
    /\ Read(c, [view[c] EXCEPT !.at = "act", !.infra = cache.stage[Infra]])
    /\ UNCHANGED <<store, cache, known, events, dirty, timer, work, pauses, asleep, up>>

\* What the reconciliation of controller c has found.
Unowned(c) == view[c].stage <= New \/ ~view[c].owner
Paused(c)  == view[c].held \/ view[c].cluster = "paused"
NoInfra(c) == c = "machine" /\ view[c].infra = Absent
Proceeds(c) ==
    /\ view[c].at = "act"
    /\ ~Unowned(c)
    /\ view[c].cluster # "absent"
    /\ ~NoInfra(c)
    /\ ~Paused(c)
Blocked(c) == c = "machine" /\ view[c].infra # Ready

\* Reconcile returns.  An error or RequeueAfter brings the item back after a
\* delay, and a change of its object by way of the cache.
Return(c, again) ==
    /\ timer' = IF again THEN timer \cup {work[c]} ELSE timer
    /\ work' = [work EXCEPT ![c] = None]
    /\ Read(c, NoView)
    /\ UNCHANGED <<cache, known, events, dirty, pauses, up>>

\* The patch on the way out adds what was done and takes nothing away.
Save(i, stage) ==
    store' = [store EXCEPT !.stage[i] = IF @ < stage THEN stage ELSE @]

\* Waiting for an owner, for the E2ECluster, for the end of a pause, or done.  A
\* machine that found its owner missing from the cache, or its Cluster paused,
\* learns of no change of either.
Sleep(c) ==
    /\ view[c].at = "act"
    /\ \/ Unowned(c)
       \/ view[c].cluster # "absent" /\ (NoInfra(c) \/ Paused(c))
       \/ Proceeds(c) /\ view[c].stage > Owned /\ Blocked(c)
       \/ Proceeds(c) /\ view[c].stage = Ready /\ work[c] \notin ControlPlane
    /\ asleep' = IF \/ Unowned(c) /\ view[c].stage > New
                    \/ c = "machine" /\ view[c].cluster = "paused" /\ ~NoInfra(c)
                 THEN asleep \cup {work[c]}
                 ELSE asleep \ {work[c]}
    /\ Return(c, FALSE)
    /\ UNCHANGED store

\* The owner or its cluster cannot be read, or a call fails.
Fail(c) ==
    /\ view[c].at = "act"
    /\ \/ ~Unowned(c) /\ view[c].cluster = "absent"
       \/ "error" \in Faults
    /\ asleep' = asleep \ {work[c]}
    /\ Return(c, TRUE)
    /\ UNCHANGED store

AddFinalizer(c) ==
    /\ Proceeds(c)
    /\ view[c].stage = Owned
    /\ Save(work[c], Guarded)
    /\ asleep' = asleep \ {work[c]}
    /\ Return(c, FALSE)

\* The VM, or the load balancer, is made or is not up yet; the script failed; the
\* virtual node of a control plane machine is refreshed.
Poll(c) ==
    /\ Proceeds(c)
    /\ view[c].stage \in {Guarded, Started}
                            \cup IF work[c] \in ControlPlane THEN {Ready} ELSE {}
    /\ ~Blocked(c)
    /\ IF c = "machine" THEN Save(work[c], Started) ELSE UNCHANGED store
    /\ asleep' = asleep \ {work[c]}
    /\ Return(c, TRUE)

\* The machine is bootstrapped; the load balancer has its address.
Complete(c) ==
    /\ Proceeds(c)
    /\ view[c].stage = IF c = "machine" THEN Started ELSE Guarded
    /\ ~Blocked(c)
    /\ Save(work[c], Ready)
    /\ asleep' = asleep \ {work[c]}
    /\ Return(c, work[c] \in ControlPlane)

Work(c) ==
    \/ ReadCluster(c)
    \/ ReadInfra(c)
    \/ Sleep(c)
    \/ Fail(c)
    \/ AddFinalizer(c)
    \/ Poll(c)
    \/ Complete(c)

Environment ==
    \/ CreateCluster
    \/ Pause
    \/ Unpause
    \/ \E i \in Items : Create(i) \/ Adopt(i) \/ Hold(i) \/ Release(i)

ManagerWorks ==
    \/ \E x \in Items \cup {Cluster} : Deliver(x) \/ Handle(x)
    \/ \E m \in Machines : DeliverOwner(m)
    \/ \E i \in Items : Fire(i) \/ Take(i)
    \/ \E c \in Controllers : Work(c)

Next ==
    \/ Environment
    \/ ManagerWorks
    \/ Start
    \/ "restart" \in Faults /\ Stop

Spec == Init /\ [][Next]_vars

-----------------------------------------------------------------------------
(***************************************************************************)
(* Properties.                                                             *)
(***************************************************************************)

\* Every variable has its type: whatever object an event is of, only E2EMachines and
\* E2EClusters come to the queues; a worker has an item as long as it reads, and
\* the E2ECluster controller misses no owner.
TypeOK ==
    /\ store \in Objects
    /\ cache \in Objects
    /\ known \subseteq Machines
    /\ events \subseteq Items \cup {Cluster}
    /\ dirty \subseteq Items
    /\ timer \subseteq Items
    /\ work \in [Controllers -> Items \cup {None}]
    /\ view \in [Controllers -> View]
    /\ pauses \in 0 .. MaxPauses
    /\ asleep \subseteq Machines
    /\ up \in BOOLEAN
    /\ \A c \in Controllers :
          /\ work[c] # None => Controller(work[c]) = c
          /\ (work[c] = None) = (view[c].at = "idle")
    /\ view["infra"].at # "idle" => view["infra"].owner

\* The cache and the handlers have caught up with object x.
Settled(x) ==
    /\ x \notin events
    /\ IF x = Cluster THEN cache.cluster = store.cluster
       ELSE /\ cache.stage[x] = store.stage[x]
            /\ (x \in cache.held) = (x \in store.held)

\* Nothing is under way that could bring item i to a worker.
Quiet(i) ==
    /\ up
    /\ Settled(i)
    /\ Settled(Infra)
    /\ i = Infra => Settled(Cluster)
    /\ i \notin dirty
    /\ i \notin timer
    /\ work[Controller(i)] # i

\* The controller of item i could do something for it, or has to keep it fresh.
HasWork(i) ==
    /\ store.stage[i] >= Owned
    /\ store.cluster = "active"
    /\ store.held \cap {i, Infra} = {}
    /\ store.stage[Infra] >= Owned
    /\ i # Infra /\ store.stage[i] # Owned => store.stage[Infra] = Ready
    /\ store.stage[i] # Ready \/ i \in ControlPlane

\* No wake-up is lost: an item for which there is work is queued, in work, or
\* waits for a timer or for an event that will queue it; in whatever order the
\* caches of the kinds catch up with what a reconciliation waits for.  The
\* exceptions: a machine that was looked at while its Cluster was paused or
\* before its owner was in the cache, since nothing tells it of the change.
NoLostWakeup ==
    \A i \in Items : HasWork(i) /\ Quiet(i) => i \in asleep

-----------------------------------------------------------------------------
(***************************************************************************)
(* What makes NoLostWakeup inductive.                                      *)
(***************************************************************************)

\* The caches are behind the API server or level with it, a manager that does not
\* run has no work, and the E2ECluster controller reads no second E2ECluster.
OrderInv ==
    /\ \A i \in Items : cache.stage[i] <= store.stage[i]
    /\ cache.cluster # "absent" => store.cluster # "absent"
    /\ ~up => \A c \in Controllers : work[c] = None
    /\ view["infra"].at # "infra"

\* An event of item i is on its way to a handler, or was dropped and the next one
\* is still to come.
Expected(i) == i \in events \/ i \in cache.held

\* What a reconciliation has read is what the cache holds, unless an event is on
\* its way, or was handled: then the item is queued again.
ReadInv(c) ==
    work[c] # None /\ work[c] \notin dirty /\ ~Expected(work[c]) =>
       /\ view[c].stage = cache.stage[work[c]]
       /\ ~view[c].held
       /\ view[c].at \in {"infra", "act"} /\ view[c].cluster # "absent"
             => cache.cluster # "absent"
       /\ c = "infra" /\ view[c].at = "act" =>
             \/ view[c].cluster = cache.cluster
             \/ Cluster \in events
             \/ cache.stage[Infra] = Absent
       /\ c = "machine" /\ view[c].at = "act" /\ view[c].cluster # "absent" =>
             \/ view[c].infra = cache.stage[Infra]
             \/ Expected(Infra)
             \/ cache.stage[Infra] < Owned
             \/ cache.stage[work[c]] = Absent

\* Item i needs no worker by what the caches hold, or an event will come.
Rests(i) ==
    \/ Expected(i)
    \/ cache.stage[i] < store.stage[i]
    \/ cache.stage[i] <= New
    \/ cache.stage[i] = Ready /\ i \notin ControlPlane
    \/ /\ i = Infra
       /\ cache.cluster = "paused" \/ Cluster \in events
    \/ /\ i # Infra
       /\ cache.cluster # "absent"
       /\ \/ Expected(Infra)
          \/ cache.stage[Infra] < Owned
          \/ cache.stage[i] > Owned /\ cache.stage[Infra] # Ready

\* An item that is neither queued nor in work rests, or is left asleep.
RestInv(i) ==
    up /\ i \notin dirty \cup timer \cup asleep /\ work[Controller(i)] # i => Rests(i)

WakeInv ==
    /\ OrderInv
    /\ \A c \in Controllers : ReadInv(c)
    /\ \A i \in Items : RestInv(i)

=============================================================================
