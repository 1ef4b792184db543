--------------------------- MODULE WakeupsProofs ---------------------------
(***************************************************************************)
(* Theorems about Wakeups, for any machines and any faults.                *)
(***************************************************************************)
EXTENDS Wakeups, TLAPS

USE DEF Absent, New, Owned, Guarded, Started, Ready, Stage, Controllers

-----------------------------------------------------------------------------
(***************************************************************************)
(* Type correctness.                                                       *)
(***************************************************************************)

LEMMA ItemsTyped ==
    /\ Infra \in Items
    /\ Machines \subseteq Items
    /\ ControlPlane \subseteq Items
    /\ Cluster \notin Items
    /\ None \notin Items \cup {Cluster}
    /\ \A i \in Items : Controller(i) \in Controllers
  BY WakeupAssumption DEF Items, Controller

\* A stage that only grows keeps the type of an item's stage.
LEMMA SaveTyped ==
    ASSUME TypeOK, NEW i \in Items, NEW s \in Stage, Save(i, s)
    PROVE  /\ store' \in Objects
           /\ \A j \in Items : store.stage[j] <= store'.stage[j]
           /\ store'.cluster = store.cluster
           /\ s <= store'.stage[i]
  BY DEF TypeOK, Objects, Save

LEMMA TypeInit == Init => TypeOK
  <1> SUFFICES ASSUME Init PROVE TypeOK
    OBVIOUS
  <1>1. NoObjects \in Objects
    BY DEF NoObjects, Objects
  <1>2. NoView \in View /\ NoView.at = "idle"
    BY DEF NoView, View
  <1>3. /\ store \in Objects
        /\ cache \in Objects
        /\ up \in BOOLEAN
    BY <1>1, Zenon DEF Init
  <1>9. pauses \in 0 .. MaxPauses
    BY WakeupAssumption DEF Init
  <1>4. /\ work = [c \in Controllers |-> None]
        /\ view = [c \in Controllers |-> NoView]
    BY DEF Init
  <1>5. /\ \A c \in Controllers : work[c] = None /\ view[c].at = "idle"
        /\ view["infra"].at = "idle"
    BY <1>2, <1>4
  <1>6. /\ work \in [Controllers -> Items \cup {None}]
        /\ view \in [Controllers -> View]
    BY <1>2, <1>4
  <1>7. /\ known \subseteq Machines
        /\ events \subseteq Items \cup {Cluster}
        /\ dirty \subseteq Items
        /\ timer \subseteq Items
        /\ asleep \subseteq Machines
    BY DEF Init
  <1>8. \A c \in Controllers : /\ work[c] # None => Controller(work[c]) = c
                               /\ (work[c] = None) = (view[c].at = "idle")
    BY <1>5
  <1> QED
    BY <1>3, <1>5, <1>6, <1>7, <1>8, <1>9, Zenon DEF TypeOK

\* The steps of users and of Cluster API.
LEMMA TypeEnvironment == TypeOK /\ Environment => TypeOK'
  <1> SUFFICES ASSUME TypeOK, Environment PROVE TypeOK'
    OBVIOUS
  <1>1. /\ store' \in Objects
        /\ known' \subseteq Machines
        /\ pauses' \in 0 .. MaxPauses
    <2>1. CASE CreateCluster \/ Unpause
      BY <2>1 DEF CreateCluster, Unpause, TypeOK, Objects
    <2>2. CASE Pause
      BY <2>2, WakeupAssumption DEF Pause, TypeOK, Objects
    <2>3. ASSUME NEW i \in Items, Create(i) \/ Adopt(i) \/ Release(i)
          PROVE  /\ store' \in Objects
                 /\ known' \subseteq Machines
                 /\ pauses' \in 0 .. MaxPauses
      BY <2>3 DEF Create, Adopt, Release, TypeOK, Objects
    <2>4. ASSUME NEW i \in Items, Hold(i)
          PROVE  /\ store' \in Objects
                 /\ known' \subseteq Machines
                 /\ pauses' \in 0 .. MaxPauses
      BY <2>4, WakeupAssumption DEF Hold, TypeOK, Objects
    <2> QED
      BY <2>1, <2>2, <2>3, <2>4 DEF Environment
  <1>2. UNCHANGED manager
    BY DEF Environment, CreateCluster, Pause, Unpause, Create, Adopt, Hold, Release
  <1> QED
    BY <1>1, <1>2 DEF TypeOK, manager

\* The steps of caches, handlers, timers and queues.
LEMMA TypeDeliver == ASSUME TypeOK, NEW x \in Items \cup {Cluster}, Deliver(x) PROVE TypeOK'
  <1> USE ItemsTyped
  <1>1. CASE x = Cluster
    BY <1>1 DEF Deliver, TypeOK, Objects
  <1>2. CASE x \in Items
    <2>1. x # Cluster
      BY <1>2
    <2>2. cache' = [cache EXCEPT !.stage[x] = store.stage[x],
                      !.held = IF x \in store.held THEN @ \cup {x} ELSE @ \ {x}]
      BY <2>1 DEF Deliver
    <2>3. cache'.stage \in [Items -> Stage] /\ cache'.held \subseteq Items
      BY <1>2, <2>2 DEF TypeOK, Objects
    <2>4. cache' \in Objects
      BY <2>2, <2>3 DEF TypeOK, Objects
    <2> QED
      BY <2>4 DEF Deliver, TypeOK
  <1> QED
    BY <1>1, <1>2

LEMMA TypeHandle == ASSUME TypeOK, NEW x \in Items \cup {Cluster}, Handle(x) PROVE TypeOK'
  <1> USE ItemsTyped
  <1>1. Woken(x) \subseteq Items
    BY DEF Woken, MachinesOfInfra, Items
  <1> QED
    BY <1>1 DEF Handle, TypeOK

LEMMA TypeDeliverOwner == ASSUME TypeOK, NEW x \in Machines, DeliverOwner(x) PROVE TypeOK'
  BY ItemsTyped DEF DeliverOwner, TypeOK

LEMMA TypeFire == ASSUME TypeOK, NEW x \in Items, Fire(x) PROVE TypeOK'
  BY ItemsTyped DEF Fire, TypeOK

LEMMA TypeTake == ASSUME TypeOK, NEW x \in Items, Take(x) PROVE TypeOK'
  <1> USE ItemsTyped
  <1> DEFINE c == Controller(x)
             v == [NoView EXCEPT !.at = "cluster", !.stage = cache.stage[x],
                                 !.held = x \in cache.held,
                                 !.owner = x = Infra \/ x \in known]
  <1>1. c \in Controllers
    OBVIOUS
  <1>3. cache.stage[x] \in Stage
    BY DEF TypeOK, Objects
  <1>4. v \in View /\ v.at = "cluster" /\ v.owner = (x = Infra \/ x \in known)
    <2> DEFINE V(h, o) == [NoView EXCEPT !.at = "cluster", !.stage = cache.stage[x],
                                         !.held = h, !.owner = o]
    <2>1. NoView \in View
      BY DEF NoView, View
    <2>2. \A h, o \in BOOLEAN : /\ V(h, o) \in View
                                /\ V(h, o).at = "cluster"
                                /\ V(h, o).owner = o
      BY <1>3, <2>1 DEF View
    <2>3. /\ (x \in cache.held) \in BOOLEAN
          /\ (x = Infra \/ x \in known) \in BOOLEAN
      OBVIOUS
    <2>4. v = V(x \in cache.held, x = Infra \/ x \in known)
      OBVIOUS
    <2> HIDE DEF V
    <2> QED
      BY <2>2, <2>3, <2>4, Zenon
  <1>2. /\ view' = [view EXCEPT ![c] = v]
        /\ work' = [work EXCEPT ![c] = x]
        /\ dirty' = dirty \ {x}
        /\ UNCHANGED <<store, cache, known, events, timer, pauses, asleep, up>>
    BY DEF Take, Read
  <1> HIDE DEF v
  <1>6. /\ work' \in [Controllers -> Items \cup {None}]
        /\ view' \in [Controllers -> View]
    BY <1>1, <1>2, <1>4 DEF TypeOK
  <1>7. /\ work'[c] = x /\ view'[c].at = "cluster"
        /\ \A d \in Controllers \ {c} : work'[d] = work[d] /\ view'[d] = view[d]
    BY <1>1, <1>2, <1>4 DEF TypeOK
  <1>8. \A d \in Controllers :
           /\ work'[d] # None => Controller(work'[d]) = d
           /\ (work'[d] = None) = (view'[d].at = "idle")
    BY <1>1, <1>7 DEF TypeOK
  <1>9. view'["infra"].at # "idle" => view'["infra"].owner
    <2>1. CASE x = Infra
      <3>1. v.owner
        BY <1>4, <2>1, Zenon
      <3>2. c = "infra"
        BY <2>1 DEF Controller
      <3> QED
        BY <1>2, <3>1, <3>2 DEF TypeOK
    <2>2. CASE x # Infra
      <3>1. view'["infra"] = view["infra"]
        BY <1>7, <2>2 DEF Controller
      <3> QED
        BY <3>1 DEF TypeOK
    <2> QED
      BY <2>1, <2>2
  <1> QED
    BY <1>2, <1>6, <1>8, <1>9 DEF TypeOK

LEMMA TypeStartStop == ASSUME TypeOK, Start \/ Stop PROVE TypeOK'
  <1> USE ItemsTyped
  <1>1. NoView \in View /\ NoView.at = "idle"
    BY DEF NoView, View
  <1>2. CASE Start
    BY <1>2 DEF Start, TypeOK, Objects
  <1>3. CASE Stop
    <2>1. /\ work' = [c \in Controllers |-> None]
          /\ view' = [c \in Controllers |-> NoView]
      BY <1>3 DEF Stop
    <2>2. /\ \A c \in Controllers : work'[c] = None /\ view'[c].at = "idle"
          /\ view'["infra"].at = "idle"
      BY <1>1, <2>1
    <2>3. /\ work' \in [Controllers -> Items \cup {None}]
          /\ view' \in [Controllers -> View]
      BY <1>1, <2>1
    <2> QED
      BY <1>3, <2>2, <2>3 DEF Stop, TypeOK
  <1> QED
    BY <1>2, <1>3

\* The steps of a reconciliation that goes on.
LEMMA TypeRead ==
    ASSUME TypeOK, NEW c \in Controllers, ReadCluster(c) \/ ReadInfra(c)
    PROVE  TypeOK'
  <1>1. /\ view' \in [Controllers -> View]
        /\ \A d \in Controllers : /\ (view'[d].at = "idle") = (view[d].at = "idle")
                                  /\ view'[d].owner = view[d].owner
    <2>1. CASE ReadCluster(c)
      <3> DEFINE v == [view[c] EXCEPT !.at = IF c = "infra" THEN "act" ELSE "infra",
                                      !.cluster = cache.cluster]
      <3>1. /\ v \in View /\ v.at # "idle" /\ view[c].at # "idle"
            /\ v.owner = view[c].owner
        BY <2>1 DEF ReadCluster, TypeOK, View, Objects
      <3>2. view' = [view EXCEPT ![c] = v]
        BY <2>1 DEF ReadCluster, Read
      <3> QED
        BY <3>1, <3>2 DEF TypeOK
    <2>2. CASE ReadInfra(c)
      <3> DEFINE v == [view[c] EXCEPT !.at = "act", !.infra = cache.stage[Infra]]
      <3>0. view[c] \in View /\ cache.stage[Infra] \in Stage
        BY ItemsTyped DEF TypeOK, Objects
      <3>1. /\ v \in View /\ v.at # "idle" /\ view[c].at # "idle"
            /\ v.owner = view[c].owner
        BY <2>2, <3>0 DEF ReadInfra, View
      <3>2. view' = [view EXCEPT ![c] = v]
        BY <2>2 DEF ReadInfra, Read
      <3> QED
        BY <3>1, <3>2 DEF TypeOK
    <2> QED
      BY <2>1, <2>2
  <1>2. UNCHANGED <<store, cache, known, events, dirty, timer, work, pauses, asleep, up>>
    BY DEF ReadCluster, ReadInfra
  <1> QED
    BY <1>1, <1>2 DEF TypeOK

\* What every end of a reconciliation has in common: the item is put back, its
\* stage does not go down, and nothing else changes but who is left asleep.
Returns(c, again) ==
    /\ view[c].at = "act"
    /\ Return(c, again)
    /\ store' \in Objects
    /\ \A i \in Items : store.stage[i] <= store'.stage[i]
    /\ store'.cluster = store.cluster
    /\ asleep \ {work[c]} \subseteq asleep'
    /\ asleep' \subseteq Machines

\* A worker whose reconciliation has come to its end has an item of its own.
LEMMA WorkerHasItem ==
    ASSUME TypeOK, NEW c \in Controllers, view[c].at # "idle"
    PROVE  /\ work[c] \in Items
           /\ Controller(work[c]) = c
  BY DEF TypeOK

LEMMA TypeReturn ==
    ASSUME TypeOK, NEW c \in Controllers, NEW again \in BOOLEAN, Returns(c, again)
    PROVE  TypeOK'
  <1>1. work[c] \in Items /\ view[c].at # "idle"
    BY DEF Returns, TypeOK
  <1>2. /\ timer' \subseteq Items
        /\ work' = [work EXCEPT ![c] = None]
        /\ view' = [view EXCEPT ![c] = NoView]
        /\ store' \in Objects
        /\ asleep' \subseteq Machines
        /\ UNCHANGED <<cache, known, events, dirty, pauses, up>>
    BY <1>1 DEF Returns, Return, Read, TypeOK
  <1>3. NoView \in View /\ NoView.at = "idle"
    BY DEF NoView, View
  <1>4. /\ work' \in [Controllers -> Items \cup {None}]
        /\ view' \in [Controllers -> View]
        /\ work'[c] = None /\ view'[c].at = "idle"
        /\ \A d \in Controllers \ {c} : work'[d] = work[d] /\ view'[d] = view[d]
    BY <1>2, <1>3 DEF TypeOK
  <1>5. \A d \in Controllers : /\ work'[d] # None => Controller(work'[d]) = d
                               /\ (work'[d] = None) = (view'[d].at = "idle")
    BY <1>4 DEF TypeOK
  <1>6. view'["infra"].at # "idle" => view'["infra"].owner
    BY <1>4 DEF TypeOK
  <1> QED
    BY <1>2, <1>4, <1>5, <1>6 DEF TypeOK

\* A machine alone is ever left asleep.
LEMMA SleepersAreMachines ==
    ASSUME TypeOK, NEW c \in Controllers, Sleep(c)
    PROVE  asleep' \subseteq Machines /\ asleep \ {work[c]} \subseteq asleep'
  <1>1. work[c] \in Items /\ Controller(work[c]) = c
    BY DEF Sleep, TypeOK
  <1>2. CASE c = "machine"
    <2>1. work[c] \in Machines
      BY <1>1, <1>2 DEF Controller, Items
    <2> QED
      BY <2>1 DEF Sleep, TypeOK
  <1>3. CASE c = "infra"
    <2>1. view[c].owner
      BY <1>3 DEF Sleep, TypeOK
    <2>2. ~(Unowned(c) /\ view[c].stage > New)
      BY <1>3, <2>1 DEF Unowned, TypeOK, View
    <2>3. asleep' = asleep \ {work[c]}
      BY <1>3, <2>2 DEF Sleep
    <2> QED
      BY <2>3 DEF TypeOK
  <1> QED
    BY <1>2, <1>3

LEMMA SleepReturns ==
    ASSUME TypeOK, NEW c \in Controllers, Sleep(c)
    PROVE  Returns(c, FALSE)
  <1>1. asleep' \subseteq Machines /\ asleep \ {work[c]} \subseteq asleep'
    BY SleepersAreMachines
  <1>2. view[c].at = "act" /\ Return(c, FALSE) /\ store' = store
    BY DEF Sleep, Return
  <1> QED
    BY <1>1, <1>2 DEF Returns, Return, TypeOK, Objects

LEMMA FailReturns ==
    ASSUME TypeOK, NEW c \in Controllers, Fail(c)
    PROVE  Returns(c, TRUE)
  BY DEF Fail, Returns, Return, TypeOK, Objects

LEMMA AddFinalizerReturns ==
    ASSUME TypeOK, NEW c \in Controllers, AddFinalizer(c)
    PROVE  Returns(c, FALSE) /\ Guarded <= store'.stage[work[c]]
  <1>1. work[c] \in Items /\ view[c].at = "act"
    BY DEF AddFinalizer, Proceeds, TypeOK
  <1> QED
    BY <1>1, SaveTyped DEF AddFinalizer, Returns, Return, TypeOK

LEMMA PollReturns ==
    ASSUME TypeOK, NEW c \in Controllers, Poll(c)
    PROVE  Returns(c, TRUE)
  <1>1. work[c] \in Items /\ view[c].at = "act"
    BY DEF Poll, Proceeds, TypeOK
  <1>2. CASE c = "machine"
    BY <1>1, <1>2, SaveTyped DEF Poll, Returns, Return, TypeOK
  <1>3. CASE c # "machine"
    BY <1>1, <1>3 DEF Poll, Returns, Return, TypeOK, Objects
  <1> QED
    BY <1>2, <1>3

LEMMA CompleteReturns ==
    ASSUME TypeOK, NEW c \in Controllers, Complete(c)
    PROVE  /\ Returns(c, work[c] \in ControlPlane)
           /\ Ready <= store'.stage[work[c]]
  <1>1. work[c] \in Items /\ view[c].at = "act"
    BY DEF Complete, Proceeds, TypeOK
  <1> QED
    BY <1>1, SaveTyped DEF Complete, Returns, TypeOK

LEMMA TypeWork ==
    ASSUME TypeOK, NEW c \in Controllers, Work(c)
    PROVE  TypeOK'
  <1>1. CASE ReadCluster(c) \/ ReadInfra(c)
    BY <1>1, TypeRead
  <1>2. CASE Sleep(c) \/ Fail(c) \/ AddFinalizer(c) \/ Poll(c)
    <2>1. Returns(c, TRUE) \/ Returns(c, FALSE)
      BY <1>2, SleepReturns, FailReturns, AddFinalizerReturns, PollReturns
    <2> QED
      BY <2>1, TypeReturn
  <1>3. CASE Complete(c)
    <2>1. (work[c] \in ControlPlane) \in BOOLEAN
      OBVIOUS
    <2> QED
      BY <1>3, <2>1, CompleteReturns, TypeReturn, Zenon
  <1> QED
    BY <1>1, <1>2, <1>3 DEF Work

LEMMA TypeStep == TypeOK /\ [Next]_vars => TypeOK'
  <1> SUFFICES ASSUME TypeOK, [Next]_vars PROVE TypeOK'
    OBVIOUS
  <1>1. CASE Environment
    BY <1>1, TypeEnvironment
  <1>2. CASE ManagerWorks
    <2>1. ASSUME NEW c \in Controllers, Work(c) PROVE TypeOK'
      BY <2>1, TypeWork
    <2>2. ASSUME NEW x \in Items \cup {Cluster}, Deliver(x) \/ Handle(x)
          PROVE  TypeOK'
      BY <2>2, TypeDeliver, TypeHandle
    <2>3. ASSUME NEW m \in Machines, DeliverOwner(m) PROVE TypeOK'
      BY <2>3, TypeDeliverOwner
    <2>4. ASSUME NEW i \in Items, Fire(i) \/ Take(i) PROVE TypeOK'
      BY <2>4, TypeFire, TypeTake
    <2> QED
      BY <1>2, <2>1, <2>2, <2>3, <2>4 DEF ManagerWorks
  <1>3. CASE Start \/ Stop
    BY <1>3, TypeStartStop
  <1>4. CASE UNCHANGED vars
    BY <1>4 DEF vars, TypeOK
  <1> QED
    BY <1>1, <1>2, <1>3, <1>4 DEF Next

\* Every reachable state of the caches, queues and workers is type-correct: a worker
\* reads only for an item of its own kind (the two controllers of main.go).
THEOREM TypeCorrect == Spec => []TypeOK
  <1>1. Init => TypeOK
    BY TypeInit
  <1>2. TypeOK /\ [Next]_vars => TypeOK'
    BY TypeStep
  <1> QED
    BY <1>1, <1>2, PTL DEF Spec

-----------------------------------------------------------------------------
(***************************************************************************)
(* No wake-up is lost.                                                     *)
(***************************************************************************)

LEMMA WakeImplies ==
    ASSUME TypeOK, WakeInv
    PROVE  NoLostWakeup
  <1> SUFFICES ASSUME NEW i \in Items, HasWork(i), Quiet(i), i \notin asleep
               PROVE  FALSE
    BY DEF NoLostWakeup
  <1>1. Rests(i)
    BY DEF WakeInv, RestInv, Quiet
  <1>2. i # Cluster /\ Infra # Cluster /\ Infra \in Items
    BY ItemsTyped
  <1>3. ~Expected(i) /\ ~Expected(Infra)
    BY <1>2 DEF Quiet, Settled, HasWork, Expected
  <1>4. /\ cache.stage[i] = store.stage[i]
        /\ cache.stage[Infra] = store.stage[Infra]
        /\ store.stage[i] \in Stage /\ store.stage[Infra] \in Stage
    BY <1>2 DEF Quiet, Settled, TypeOK, Objects
  <1>5. i = Infra => cache.cluster = "active" /\ Cluster \notin events
    BY <1>2 DEF Quiet, Settled, HasWork
  <1> QED
    BY <1>1, <1>3, <1>4, <1>5 DEF Rests, HasWork

LEMMA WakeInit == Init => WakeInv
  <1> SUFFICES ASSUME Init PROVE WakeInv
    OBVIOUS
  <1>1. /\ \A i \in Items : cache.stage[i] = 0 /\ store.stage[i] = 0
        /\ cache.cluster = "absent"
    BY DEF Init, NoObjects
  <1>2. /\ \A c \in Controllers : work[c] = None
        /\ view["infra"].at = "idle"
        /\ ~up
    BY DEF Init, NoView
  <1> QED
    BY <1>1, <1>2 DEF WakeInv, OrderInv, ReadInv, RestInv

\* What is written at the API server alone takes nothing from the caches and queues.
LEMMA StoreGrows ==
    ASSUME TypeOK, TypeOK', WakeInv, UNCHANGED manager,
           \A i \in Items : store.stage[i] <= store'.stage[i],
           store.cluster # "absent" => store'.cluster # "absent"
    PROVE  WakeInv'
  <1> USE DEF manager
  <1>1. \A i \in Items : /\ cache.stage[i] \in Nat
                         /\ store.stage[i] \in Nat /\ store'.stage[i] \in Nat
    BY DEF TypeOK, Objects
  <1>2. OrderInv'
    BY <1>1 DEF WakeInv, OrderInv
  <1>3. ASSUME NEW c \in Controllers PROVE ReadInv(c)'
    BY DEF WakeInv, ReadInv, Expected
  <1>4. ASSUME NEW i \in Items PROVE RestInv(i)'
    <2>1. Rests(i) => Rests(i)'
      BY <1>1 DEF Rests, Expected
    <2> QED
      BY <2>1 DEF WakeInv, RestInv
  <1> QED
    BY <1>2, <1>3, <1>4 DEF WakeInv

LEMMA WakeEnvironment ==
    ASSUME TypeOK, TypeOK', WakeInv, Environment
    PROVE  WakeInv'
  <1>1. UNCHANGED manager
    BY DEF Environment, CreateCluster, Pause, Unpause, Create, Adopt, Hold, Release
  <1>2. /\ \A i \in Items : store.stage[i] <= store'.stage[i]
        /\ store.cluster # "absent" => store'.cluster # "absent"
    <2>1. CASE CreateCluster \/ Unpause \/ Pause
      BY <2>1 DEF CreateCluster, Unpause, Pause, TypeOK, Objects
    <2>2. ASSUME NEW j \in Items, Create(j) \/ Adopt(j)
          PROVE  /\ \A i \in Items : store.stage[i] <= store'.stage[i]
                 /\ store'.cluster = store.cluster
      BY <2>2 DEF Create, Adopt, TypeOK, Objects
    <2>3. ASSUME NEW j \in Items, Hold(j) \/ Release(j)
          PROVE  /\ \A i \in Items : store.stage[i] <= store'.stage[i]
                 /\ store'.cluster = store.cluster
      BY <2>3 DEF Hold, Release, TypeOK, Objects
    <2> QED
      BY <2>1, <2>2, <2>3 DEF Environment
  <1> QED
    BY <1>1, <1>2, StoreGrows

LEMMA WakeDeliver ==
    ASSUME TypeOK, WakeInv, NEW x \in Items \cup {Cluster}, Deliver(x)
    PROVE  WakeInv'
  <1>1. /\ events' = events \cup {x}
        /\ UNCHANGED <<store, known, dirty, timer, work, view, pauses, asleep, up>>
    BY DEF Deliver
  <1>2. /\ \A i \in Items \ {x} : /\ cache'.stage[i] = cache.stage[i]
                                  /\ (i \in cache'.held) <=> (i \in cache.held)
        /\ x # Cluster => cache'.cluster = cache.cluster /\ cache'.stage[x] = store.stage[x]
        /\ x = Cluster => cache'.cluster = store.cluster
    <2>1. CASE x = Cluster
      BY <2>1, ItemsTyped DEF Deliver, TypeOK, Objects
    <2>2. CASE x # Cluster
      <3>1. cache' = [cache EXCEPT !.stage[x] = store.stage[x],
                        !.held = IF x \in store.held THEN @ \cup {x} ELSE @ \ {x}]
        BY <2>2 DEF Deliver
      <3>2. /\ cache'.stage = [cache.stage EXCEPT ![x] = store.stage[x]]
            /\ \A i \in Items \ {x} : (i \in cache'.held) <=> (i \in cache.held)
            /\ cache'.cluster = cache.cluster
        BY <3>1 DEF TypeOK, Objects
      <3>3. \A i \in Items \ {x} : cache'.stage[i] = cache.stage[i]
        BY <3>2 DEF TypeOK, Objects
      <3>4. cache'.stage[x] = store.stage[x]
        BY <2>2, <3>2 DEF TypeOK, Objects
      <3> QED
        BY <2>2, <3>2, <3>3, <3>4
    <2> QED
      BY <2>1, <2>2
  <1>3. \A i \in Items : Expected(i) => Expected(i)'
    BY <1>1, <1>2 DEF Expected
  <1>4. x \in Items => Expected(x)'
    BY <1>1 DEF Expected
  <1>5. cache.cluster # "absent" => cache'.cluster # "absent"
    BY <1>2 DEF WakeInv, OrderInv
  <1>6. OrderInv'
    <2>1. \A i \in Items : cache'.stage[i] <= store.stage[i]
      BY <1>2, ItemsTyped DEF WakeInv, OrderInv, TypeOK, Objects
    <2> QED
      BY <1>1, <1>2, <2>1 DEF WakeInv, OrderInv
  <1>7. ASSUME NEW c \in Controllers PROVE ReadInv(c)'
    <2> SUFFICES ASSUME work[c] # None, work[c] \notin dirty, ~Expected(work[c])'
                 PROVE  ReadInv(c)'
      BY <1>1 DEF ReadInv, Expected
    <2>1. work[c] \in Items /\ work[c] # x /\ Infra \in Items
      BY <1>1, <1>4, ItemsTyped DEF TypeOK
    <2>2. ~Expected(work[c]) /\ cache'.stage[work[c]] = cache.stage[work[c]]
      BY <1>1, <1>2, <1>3, <2>1
    <2>3. ReadInv(c)
      BY DEF WakeInv
    <2>4. x = Infra \/ cache'.stage[Infra] = cache.stage[Infra]
      BY <1>2, <2>1
    <2>5. c = "infra" => work[c] = Infra
      BY <2>1 DEF TypeOK, Controller
    <2>6. x = Cluster \/ cache'.cluster = cache.cluster
      BY <1>2
    <2>7. x = Cluster => Cluster \in events'
      BY <1>1
    <2> QED
      BY <1>1, <1>3, <1>4, <1>5, <2>1, <2>2, <2>3, <2>4, <2>5, <2>6, <2>7 DEF ReadInv
  <1>8. ASSUME NEW i \in Items PROVE RestInv(i)'
    <2>1. Rests(i) => Rests(i)'
      <3>1. CASE x = i
        BY <1>4, <3>1 DEF Rests
      <3>2. CASE x # i
        <4>1. cache'.stage[i] = cache.stage[i] /\ Infra \in Items
          BY <1>2, <3>2, ItemsTyped
        <4>2. x = Infra \/ cache'.stage[Infra] = cache.stage[Infra]
          BY <1>2, <4>1
        <4>3. x = Cluster \/ cache'.cluster = cache.cluster
          BY <1>2
        <4>4. x = Cluster => Cluster \in events'
          BY <1>1
        <4>5. Cluster \in events => Cluster \in events'
          BY <1>1
        <4> QED
          BY <1>1, <1>3, <1>4, <1>5, <3>2, <4>1, <4>2, <4>3, <4>4, <4>5 DEF Rests
      <3> QED
        BY <3>1, <3>2
    <2> QED
      BY <1>1, <2>1 DEF WakeInv, RestInv
  <1> QED
    BY <1>6, <1>7, <1>8 DEF WakeInv

LEMMA WakeHandle ==
    ASSUME TypeOK, WakeInv, NEW x \in Items \cup {Cluster}, Handle(x)
    PROVE  WakeInv'
  <1>1. /\ events' = events \ {x}
        /\ dirty' = dirty \cup Woken(x)
        /\ UNCHANGED <<store, cache, known, timer, work, view, pauses, asleep, up>>
    BY DEF Handle
  <1>2. Infra \in Items /\ Cluster \notin Items
    BY ItemsTyped
  <1>3. \A i \in Items : Expected(i) => Expected(i)' \/ i \in dirty'
    BY <1>1, <1>2 DEF Expected, Woken
  <1>4. Expected(Infra) /\ ~Expected(Infra)' =>
           \A m \in Machines : \/ m \in dirty'
                               \/ cache.stage[m] = Absent
                               \/ cache.stage[Infra] < Owned
                               \/ cache.cluster = "absent"
    <2> SUFFICES ASSUME Expected(Infra), ~Expected(Infra)',
                        NEW m \in Machines,
                        cache.stage[m] # Absent, ~(cache.stage[Infra] < Owned),
                        cache.cluster # "absent"
                 PROVE  m \in dirty'
      OBVIOUS
    <2>1. x = Infra /\ Infra \notin cache.held
      BY <1>1 DEF Expected
    <2>2. cache.stage[Infra] >= Owned
      BY <1>2 DEF TypeOK, Objects
    <2>3. m \in MachinesOfInfra
      BY <2>2 DEF MachinesOfInfra
    <2>4. m \in Woken(x)
      BY <1>2, <2>1, <2>3 DEF Woken
    <2> QED
      BY <1>1, <2>4
  <1>5. Cluster \in events => \/ Cluster \in events'
                              \/ Infra \in dirty'
                              \/ cache.stage[Infra] = Absent
    <2>1. Cluster \notin cache.held
      BY <1>2 DEF TypeOK, Objects
    <2> QED
      BY <1>1, <1>2, <2>1 DEF Woken
  <1>6. OrderInv'
    BY <1>1 DEF WakeInv, OrderInv
  <1>7. ASSUME NEW c \in Controllers PROVE ReadInv(c)'
    <2> SUFFICES ASSUME work[c] # None, work[c] \notin dirty', ~Expected(work[c])'
                 PROVE  ReadInv(c)'
      BY <1>1 DEF ReadInv, Expected
    <2>1. work[c] \in Items
      BY DEF TypeOK
    <2>2. work[c] \notin dirty /\ ~Expected(work[c])
      BY <1>1, <1>3, <2>1
    <2>3. ReadInv(c)
      BY DEF WakeInv
    <2>4. c = "infra" => work[c] = Infra
      BY <2>1 DEF TypeOK, Controller
    <2>5. c = "machine" => work[c] \in Machines
      BY <2>1 DEF TypeOK, Controller, Items
    <2> QED
      BY <1>1, <1>4, <1>5, <2>2, <2>3, <2>4, <2>5 DEF ReadInv
  <1>8. ASSUME NEW i \in Items PROVE RestInv(i)'
    <2>1. Rests(i) => Rests(i)' \/ i \in dirty'
      <3>1. i # Infra => i \in Machines
        BY DEF Items
      <3> QED
        BY <1>1, <1>3, <1>4, <1>5, <3>1 DEF Rests
    <2> QED
      BY <1>1, <2>1 DEF WakeInv, RestInv
  <1> QED
    BY <1>6, <1>7, <1>8 DEF WakeInv

LEMMA WakeTake ==
    ASSUME TypeOK, WakeInv, NEW i \in Items, Take(i)
    PROVE  WakeInv'
  <1> DEFINE c == Controller(i)
             v == [NoView EXCEPT !.at = "cluster", !.stage = cache.stage[i],
                                 !.held = i \in cache.held,
                                 !.owner = i = Infra \/ i \in known]
  <1>0. c \in Controllers
    BY ItemsTyped
  <1>1. /\ work[c] = None
        /\ up
        /\ dirty' = dirty \ {i}
        /\ work' = [work EXCEPT ![c] = i]
        /\ view' = [view EXCEPT ![c] = v]
        /\ UNCHANGED <<store, cache, known, events, timer, pauses, asleep, up>>
    BY DEF Take, Read
  <1>2. v.at = "cluster" /\ v.stage = cache.stage[i] /\ v.held = (i \in cache.held)
    BY DEF NoView
  <1> HIDE DEF v
  <1>3. /\ work'[c] = i /\ view'[c] = v
        /\ \A d \in Controllers \ {c} : work'[d] = work[d] /\ view'[d] = view[d]
    BY <1>0, <1>1 DEF TypeOK
  <1>4. OrderInv'
    BY <1>1, <1>2, <1>3 DEF WakeInv, OrderInv
  <1>5. ASSUME NEW d \in Controllers PROVE ReadInv(d)'
    <2>1. CASE d = c
      <3>1. ~Expected(i) => ~v.held
        BY <1>2, Zenon DEF Expected
      <3>2. Expected(i)' <=> Expected(i)
        BY <1>1 DEF Expected
      <3> QED
        BY <1>1, <1>2, <1>3, <2>1, <3>1, <3>2 DEF ReadInv
    <2>2. CASE d # c
      <3>1. work'[d] = work[d] /\ view'[d] = view[d]
        BY <1>3, <2>2
      <3>2. work[d] # None => work[d] # i
        BY <2>2 DEF TypeOK
      <3> QED
        BY <1>1, <3>1, <3>2 DEF WakeInv, ReadInv, Expected
    <2> QED
      BY <2>1, <2>2
  <1>6. ASSUME NEW j \in Items PROVE RestInv(j)'
    <2>1. Rests(j)' <=> Rests(j)
      BY <1>1 DEF Rests, Expected
    <2>2. CASE j = i
      BY <1>3, <2>2 DEF RestInv
    <2>3. CASE j # i
      <3>1. work'[Controller(j)] # j => work[Controller(j)] # j
        BY <1>1, <1>3, ItemsTyped
      <3> QED
        BY <1>1, <2>1, <2>3, <3>1 DEF WakeInv, RestInv
    <2> QED
      BY <2>2, <2>3
  <1> QED
    BY <1>4, <1>5, <1>6 DEF WakeInv

LEMMA WakeFire ==
    ASSUME TypeOK, WakeInv, NEW i \in Items, Fire(i)
    PROVE  WakeInv'
  <1>1. /\ timer' = timer \ {i}
        /\ dirty' = dirty \cup {i}
        /\ UNCHANGED <<store, cache, known, events, work, view, pauses, asleep, up>>
    BY DEF Fire
  <1>2. ASSUME NEW c \in Controllers PROVE ReadInv(c)'
    BY <1>1 DEF WakeInv, ReadInv, Expected
  <1>3. ASSUME NEW j \in Items PROVE RestInv(j)'
    BY <1>1 DEF WakeInv, RestInv, Rests, Expected
  <1> QED
    BY <1>1, <1>2, <1>3 DEF WakeInv, OrderInv

LEMMA WakeDeliverOwner ==
    ASSUME WakeInv, NEW m \in Machines, DeliverOwner(m)
    PROVE  WakeInv'
  BY DEF DeliverOwner, WakeInv, OrderInv, ReadInv, RestInv, Rests, Expected

LEMMA WakeStart ==
    ASSUME TypeOK, TypeOK', WakeInv, Start
    PROVE  WakeInv'
  <1>1. /\ cache' = store /\ store' = store
        /\ \A i \in Items : store.stage[i] # Absent => i \in events'
        /\ view' = view /\ work' = work
        /\ \A c \in Controllers : work[c] = None
    BY DEF Start, WakeInv, OrderInv
  <1>2. OrderInv'
    BY <1>1 DEF WakeInv, OrderInv, TypeOK, Objects
  <1>3. ASSUME NEW c \in Controllers PROVE ReadInv(c)'
    BY <1>1 DEF ReadInv
  <1>4. ASSUME NEW i \in Items PROVE RestInv(i)'
    BY <1>1 DEF RestInv, Rests, Expected
  <1> QED
    BY <1>2, <1>3, <1>4 DEF WakeInv

LEMMA WakeStop ==
    ASSUME TypeOK, WakeInv, Stop
    PROVE  WakeInv'
  <1>1. /\ \A c \in Controllers : work'[c] = None
        /\ view'["infra"].at = "idle"
        /\ ~up' /\ cache' = cache /\ store' = store
    BY DEF Stop, NoView
  <1>2. OrderInv'
    BY <1>1 DEF WakeInv, OrderInv
  <1> QED
    BY <1>1, <1>2 DEF WakeInv, ReadInv, RestInv

LEMMA WakeRead ==
    ASSUME TypeOK, WakeInv, NEW c \in Controllers, ReadCluster(c) \/ ReadInfra(c)
    PROVE  WakeInv'
  <1>1. UNCHANGED <<store, cache, known, events, dirty, timer, work, pauses, asleep, up>>
    BY DEF ReadCluster, ReadInfra
  <1>2. \A d \in Controllers \ {c} : view'[d] = view[d]
    BY DEF ReadCluster, ReadInfra, Read, TypeOK
  <1>3. ReadInv(c)' /\ view'["infra"].at # "infra"
    <2>1. CASE ReadCluster(c)
      <3>1. /\ view'[c].at = IF c = "infra" THEN "act" ELSE "infra"
            /\ view'[c].cluster = cache.cluster
            /\ view'[c].stage = view[c].stage
            /\ view'[c].held = view[c].held
        BY <2>1 DEF ReadCluster, Read, TypeOK, View
      <3> QED
        BY <1>1, <1>2, <3>1 DEF WakeInv, OrderInv, ReadInv, Expected
    <2>2. CASE ReadInfra(c)
      <3>1. /\ view'[c].at = "act" /\ view[c].at = "infra"
            /\ view'[c].cluster = view[c].cluster
            /\ view'[c].infra = cache.stage[Infra]
            /\ view'[c].stage = view[c].stage
            /\ view'[c].held = view[c].held
        BY <2>2 DEF ReadInfra, Read, TypeOK, View
      <3>2. c = "machine"
        BY <3>1 DEF WakeInv, OrderInv
      <3> QED
        BY <1>1, <1>2, <3>1, <3>2 DEF WakeInv, OrderInv, ReadInv, Expected
    <2> QED
      BY <2>1, <2>2
  <1>4. ASSUME NEW d \in Controllers PROVE ReadInv(d)'
    BY <1>1, <1>2, <1>3 DEF WakeInv, ReadInv, Expected
  <1>5. ASSUME NEW i \in Items PROVE RestInv(i)'
    BY <1>1 DEF WakeInv, RestInv, Rests, Expected
  <1>6. OrderInv'
    BY <1>1, <1>3 DEF WakeInv, OrderInv
  <1> QED
    BY <1>4, <1>5, <1>6 DEF WakeInv

\* A reconciliation may end when its item is to come back after a delay, is left
\* asleep, is queued already, or rests.
LEMMA WakeReturn ==
    ASSUME TypeOK, TypeOK', WakeInv, NEW c \in Controllers, NEW again \in BOOLEAN,
           Returns(c, again),
           NEW i, i = work[c],
           again \/ i \in dirty \/ i \in asleep' \/ Rests(i)'
    PROVE  WakeInv'
  <1>1. /\ timer' = IF again THEN timer \cup {i} ELSE timer
        /\ work' = [work EXCEPT ![c] = None]
        /\ view' = [view EXCEPT ![c] = NoView]
        /\ UNCHANGED <<cache, known, events, dirty, pauses, up>>
        /\ \A j \in Items : store.stage[j] <= store'.stage[j]
        /\ store'.cluster = store.cluster
        /\ asleep \ {i} \subseteq asleep'
    BY DEF Returns, Return, Read
  <1>2. /\ work'[c] = None /\ view'[c].at = "idle"
        /\ \A d \in Controllers \ {c} : work'[d] = work[d] /\ view'[d] = view[d]
    BY <1>1 DEF TypeOK, NoView
  <1>3. \A j \in Items : /\ cache.stage[j] \in Nat
                         /\ store.stage[j] \in Nat /\ store'.stage[j] \in Nat
    BY DEF TypeOK, Objects
  <1>4. OrderInv'
    BY <1>1, <1>2, <1>3 DEF WakeInv, OrderInv
  <1>5. ASSUME NEW d \in Controllers PROVE ReadInv(d)'
    <2>1. CASE d = c
      BY <1>2, <2>1 DEF ReadInv
    <2>2. CASE d # c
      BY <1>1, <1>2, <2>2 DEF WakeInv, ReadInv, Expected
    <2> QED
      BY <2>1, <2>2
  <1>6. ASSUME NEW j \in Items PROVE RestInv(j)'
    <2>1. Rests(j) => Rests(j)'
      BY <1>1, <1>3 DEF Rests, Expected
    <2>2. CASE j = i
      BY <1>1, <2>2 DEF RestInv
    <2>3. CASE j # i
      <3>1. work'[Controller(j)] # j => work[Controller(j)] # j
        BY <1>2, <2>3, ItemsTyped
      <3> QED
        BY <1>1, <2>1, <2>3, <3>1 DEF WakeInv, RestInv
    <2> QED
      BY <2>2, <2>3
  <1> QED
    BY <1>4, <1>5, <1>6 DEF WakeInv

\* An item that is put to rest by Sleep rests, or is left asleep.
LEMMA SleepRests ==
    ASSUME TypeOK, WakeInv, NEW c \in Controllers, Sleep(c),
           NEW i, i = work[c], i \notin dirty, i \notin asleep'
    PROVE  Rests(i)
  <1> SUFFICES ASSUME ~Expected(i) PROVE Rests(i)
    BY DEF Rests
  <1>1. /\ i \in Items /\ Controller(i) = c /\ i # None
        /\ view[c].at = "act"
        /\ view[c] \in View
    BY DEF Sleep, TypeOK
  <1>2. /\ cache.stage[i] = view[c].stage
        /\ ~view[c].held
        /\ view[c].cluster # "absent" => cache.cluster # "absent"
        /\ c = "infra" => \/ view[c].cluster = cache.cluster
                          \/ Cluster \in events
                          \/ cache.stage[Infra] = Absent
        /\ c = "machine" /\ view[c].cluster # "absent" =>
              \/ view[c].infra = cache.stage[Infra]
              \/ Expected(Infra)
              \/ cache.stage[Infra] < Owned
              \/ cache.stage[i] = Absent
    BY <1>1 DEF WakeInv, ReadInv
  <1>3. c = "infra" <=> i = Infra
    BY <1>1 DEF Controller
  <1>4. CASE Unowned(c)
    <2>1. view[c].stage <= New
      <3>1. CASE c = "infra"
        BY <1>1, <1>4, <3>1 DEF Unowned, TypeOK
      <3>2. CASE c = "machine"
        <4>1. ~(Unowned(c) /\ view[c].stage > New)
          BY <3>2 DEF Sleep
        <4> QED
          BY <1>1, <1>4, <4>1 DEF View
      <3> QED
        BY <3>1, <3>2
    <2> QED
      BY <1>2, <2>1 DEF Rests
  <1>5. CASE view[c].cluster # "absent" /\ NoInfra(c)
    BY <1>2, <1>3, <1>5 DEF NoInfra, Rests
  <1>6. CASE view[c].cluster # "absent" /\ Paused(c) /\ ~NoInfra(c)
    <2>1. view[c].cluster = "paused"
      BY <1>2, <1>6 DEF Paused
    <2>2. c = "infra"
      BY <1>6, <2>1 DEF Sleep
    <2> QED
      BY <1>2, <1>3, <2>1, <2>2 DEF Rests
  <1>7. CASE Proceeds(c) /\ view[c].stage > Owned /\ Blocked(c)
    BY <1>2, <1>3, <1>7 DEF Proceeds, Blocked, Rests
  <1>8. CASE Proceeds(c) /\ view[c].stage = Ready /\ i \notin ControlPlane
    BY <1>2, <1>8 DEF Rests
  <1> QED
    BY <1>4, <1>5, <1>6, <1>7, <1>8 DEF Sleep

\* An item whose stage was brought beyond what the cache shows rests: an event will come.
LEMMA SavedRests ==
    ASSUME TypeOK, WakeInv, NEW c \in Controllers, view[c].at = "act",
           UNCHANGED <<cache, events>>,
           NEW i, i = work[c], i \notin dirty, view[c].stage < store'.stage[i]
    PROVE  Rests(i)'
  <1>2. CASE Expected(i)
    BY <1>2 DEF Rests, Expected
  <1>3. CASE ~Expected(i)
    <2>1. i # None
      BY DEF TypeOK
    <2>2. cache.stage[i] = view[c].stage
      BY <1>3, <2>1 DEF WakeInv, ReadInv
    <2> QED
      BY <2>2 DEF Rests
  <1> QED
    BY <1>2, <1>3

LEMMA WakeWork ==
    ASSUME TypeOK, TypeOK', WakeInv, NEW c \in Controllers, Work(c)
    PROVE  WakeInv'
  <1>0. PICK i : i = work[c]
    OBVIOUS
  <1>1. CASE ReadCluster(c) \/ ReadInfra(c)
    BY <1>1, WakeRead
  <1>2. CASE Sleep(c)
    <2>1. Returns(c, FALSE)
      BY <1>2, SleepReturns
    <2>2. i \in dirty \/ i \in asleep' \/ Rests(i)
      BY <1>0, <1>2, SleepRests
    <2>3. UNCHANGED <<store, cache, events>>
      BY <1>2 DEF Sleep, Return
    <2>4. Rests(i) => Rests(i)'
      BY <2>3 DEF Rests, Expected
    <2> QED
      BY <1>0, <2>1, <2>2, <2>4, WakeReturn
  <1>3. CASE Fail(c) \/ Poll(c)
    <2>1. Returns(c, TRUE)
      BY <1>3, FailReturns, PollReturns
    <2> QED
      BY <1>0, <2>1, WakeReturn
  <1>4. CASE AddFinalizer(c)
    <2>1. Returns(c, FALSE) /\ Guarded <= store'.stage[i]
      BY <1>0, <1>4, AddFinalizerReturns
    <2>2. view[c].at = "act" /\ UNCHANGED <<cache, events>>
      BY <2>1 DEF Returns, Return
    <2>3. i \in Items
      BY <1>0, <2>2 DEF TypeOK
    <2>4. view[c].stage < store'.stage[i]
      <3>1. view[c].stage = Owned
        BY <1>4 DEF AddFinalizer
      <3>2. store'.stage[i] \in Nat
        BY <2>3 DEF TypeOK, Objects
      <3> QED
        BY <2>1, <3>1, <3>2
    <2>5. i \in dirty \/ Rests(i)'
      BY <1>0, <2>2, <2>4, SavedRests
    <2> QED
      BY <1>0, <2>1, <2>5, WakeReturn
  <1>5. CASE Complete(c)
    <2>1. /\ Returns(c, i \in ControlPlane)
          /\ Ready <= store'.stage[i]
      BY <1>0, <1>5, CompleteReturns
    <2>2. CASE i \in ControlPlane
      <3>1. Returns(c, TRUE)
        BY <2>1, <2>2 DEF Returns, Return
      <3> QED
        BY <1>0, <3>1, WakeReturn
    <2>3. CASE i \notin ControlPlane
      <3>1. Returns(c, FALSE)
        BY <2>1, <2>3 DEF Returns, Return
      <3>2. view[c].at = "act" /\ UNCHANGED <<cache, events>>
        BY <3>1 DEF Returns, Return
      <3>3. i \in Items
        BY <1>0, <3>2 DEF TypeOK
      <3>4. view[c].stage < store'.stage[i]
        <4>1. view[c].stage \in {Started, Guarded}
          BY <1>5 DEF Complete
        <4>2. store'.stage[i] \in Nat
          BY <3>3 DEF TypeOK, Objects
        <4> QED
          BY <2>1, <4>1, <4>2
      <3>5. i \in dirty \/ Rests(i)'
        BY <1>0, <3>2, <3>4, SavedRests
      <3> QED
        BY <1>0, <3>1, <3>5, WakeReturn
    <2> QED
      BY <2>2, <2>3
  <1> QED
    BY <1>1, <1>2, <1>3, <1>4, <1>5 DEF Work

LEMMA WakeStep == TypeOK /\ TypeOK' /\ WakeInv /\ [Next]_vars => WakeInv'
  <1> SUFFICES ASSUME TypeOK, TypeOK', WakeInv, [Next]_vars PROVE WakeInv'
    OBVIOUS
  <1>1. CASE Environment
    BY <1>1, WakeEnvironment
  <1>2. CASE ManagerWorks
    <2>1. ASSUME NEW c \in Controllers, Work(c) PROVE WakeInv'
      BY <2>1, WakeWork
    <2>2. ASSUME NEW x \in Items \cup {Cluster}, Deliver(x) \/ Handle(x)
          PROVE  WakeInv'
      BY <2>2, WakeDeliver, WakeHandle
    <2>3. ASSUME NEW m \in Machines, DeliverOwner(m) PROVE WakeInv'
      BY <2>3, WakeDeliverOwner
    <2>4. ASSUME NEW i \in Items, Fire(i) \/ Take(i) PROVE WakeInv'
      BY <2>4, WakeFire, WakeTake
    <2> QED
      BY <1>2, <2>1, <2>2, <2>3, <2>4 DEF ManagerWorks
  <1>3. CASE Start \/ Stop
    BY <1>3, WakeStart, WakeStop
  <1>4. CASE UNCHANGED vars
    BY <1>4, StoreGrows DEF vars, manager, TypeOK, Objects
  <1> QED
    BY <1>1, <1>2, <1>3, <1>4 DEF Next

\* For any number of machines and in whatever order the caches catch up: an item for
\* which there is work is queued, in work, or waits for a timer or an event, unless it
\* was left asleep in one of the two ways that Sleep names (the early returns of
\* Reconcile and the watches of SetupWithManager).
THEOREM NoWakeupIsLost == Spec => []NoLostWakeup
  <1>1. Init => WakeInv
    BY WakeInit
  <1>2. TypeOK /\ TypeOK' /\ WakeInv /\ [Next]_vars => WakeInv'
    BY WakeStep
  <1>3. TypeOK /\ WakeInv => NoLostWakeup
    BY WakeImplies
  <1> QED
    BY <1>1, <1>2, <1>3, TypeCorrect, PTL DEF Spec

=============================================================================
