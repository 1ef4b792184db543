--------------------------- MODULE ClusterContract ---------------------------
(***************************************************************************)
(* What the E2ECluster controller promises to the machines of its cluster  *)
(* about the API server load balancer, and what the machines may do to it. *)
(* It is the interface between the two controllers: E2ECluster implements  *)
(* it, and the environment of E2EMachine is made of its actions.           *)
(*                                                                         *)
(* The promise: a load balancer is recorded only after it was created, it  *)
(* is replaced or forgotten only once it is gone, and a cluster that was   *)
(* ready stays so.  A recorded load balancer may well be gone already.     *)
(***************************************************************************)
CONSTANTS
    LbId,       \* IDs the cloud can give to load balancers
    Backend,    \* servers that can be registered with a load balancer
    None        \* an unset ID

VARIABLES
    cluster,    \* the E2ECluster: does it exist, Status.Ready, LoadBalancerID
    lbs,        \* load balancers of the cloud: absent, up or gone
    servers     \* the first TCP backend group of each load balancer

contractVars == <<cluster, lbs, servers>>

Init ==
    /\ cluster = [exists |-> TRUE, ready |-> FALSE, lb |-> None]
    /\ lbs = [l \in LbId |-> "absent"]
    /\ servers = [l \in LbId |-> {}]

LBCreated(l) ==
    /\ lbs[l] = "absent"
    /\ lbs' = [lbs EXCEPT ![l] = "up"]
    /\ UNCHANGED <<cluster, servers>>

\* Deleted by the controller or behind its back.
LBVanishes(l) ==
    /\ lbs[l] = "up"
    /\ lbs' = [lbs EXCEPT ![l] = "gone"]
    /\ servers' = [servers EXCEPT ![l] = {}]
    /\ UNCHANGED cluster

\* The first one, or one in place of another that is gone.
LBRecorded(l) ==
    /\ cluster.exists
    /\ lbs[l] # "absent"
    /\ cluster.lb # None => lbs[cluster.lb] = "gone"
    /\ \E r \in {cluster.ready, TRUE} :
          cluster' = [cluster EXCEPT !.lb = l, !.ready = r]
    /\ UNCHANGED <<lbs, servers>>

LBForgotten ==
    /\ cluster.exists
    /\ cluster.lb # None
    /\ lbs[cluster.lb] = "gone"
    /\ cluster' = [cluster EXCEPT !.lb = None]
    /\ UNCHANGED <<lbs, servers>>

ClusterReady ==
    /\ cluster.exists
    /\ cluster.lb # None
    /\ cluster' = [cluster EXCEPT !.ready = TRUE]
    /\ UNCHANGED <<lbs, servers>>

ClusterRemoved ==
    /\ cluster.exists
    /\ cluster' = [cluster EXCEPT !.exists = FALSE]
    /\ UNCHANGED <<lbs, servers>>

\* All servers are removed before the load balancer is deleted.
BackendsCleared(l) ==
    /\ lbs[l] = "up"
    /\ servers' = [servers EXCEPT ![l] = {}]
    /\ UNCHANGED <<cluster, lbs>>

\* Done by the machines, which register and deregister control plane nodes.
BackendsWritten(l) ==
    /\ lbs[l] = "up"
    /\ \E s \in SUBSET Backend : servers' = [servers EXCEPT ![l] = s]
    /\ UNCHANGED <<cluster, lbs>>

ControllerStep ==
    \/ \E l \in LbId : LBCreated(l) \/ LBVanishes(l) \/ LBRecorded(l) \/ BackendsCleared(l)
    \/ LBForgotten
    \/ ClusterReady
    \/ ClusterRemoved

MachineStep == \E l \in LbId : BackendsWritten(l)

Next == ControllerStep \/ MachineStep

Spec == Init /\ [][Next]_contractVars
=============================================================================
