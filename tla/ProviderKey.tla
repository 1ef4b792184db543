---------------------------- MODULE ProviderKey ----------------------------
(***************************************************************************)
(* The start of a manager: the provider's SSH key pair is read from its    *)
(* Secret or made, before the manager waits to become the leader.          *)
(*                                                                         *)
(* The public key goes to every node the manager creates and is all that   *)
(* lets a manager log in later: a node made with another key can never be  *)
(* bootstrapped.  Managers start at any time, also two at once (a rollout  *)
(* starts the new one before it stops the old one), and end at any step.   *)
(***************************************************************************)
CONSTANTS
    Managers,       \* the processes that may run
    Nodes,          \* the compute nodes
    Keys,           \* the key pairs that may be generated
    NoKey,
    Faults          \* what may go wrong at the API server

FaultKind ==
    { "lostReply" }     \* the Secret is created, but the answer is lost

ASSUME KeyAssumption ==
    /\ NoKey \notin Keys
    /\ Faults \subseteq FaultKind

VARIABLES
    secret,     \* the key pair in the Secret
    phase,      \* what each manager is doing
    key,        \* the key pair each manager holds
    authorized  \* the key that opens each node; NoKey if there is no node

vars == <<secret, phase, key, authorized>>

Phase == {"down", "get", "create", "ready", "lead"}

Init ==
    /\ secret = NoKey
    /\ phase = [p \in Managers |-> "down"]
    /\ key = [p \in Managers |-> NoKey]
    /\ authorized = [n \in Nodes |-> NoKey]

Become(p, ph, k) ==
    /\ phase' = [phase EXCEPT ![p] = ph]
    /\ key' = [key EXCEPT ![p] = k]

\* A key pair that nobody has any more is as good as a new one.
Fresh == {k \in Keys : /\ k # secret
                       /\ \A p \in Managers : k # key[p]
                       /\ \A n \in Nodes : k # authorized[n]}

Start(p) ==
    /\ phase[p] = "down"
    /\ Become(p, "get", NoKey)
    /\ UNCHANGED <<secret, authorized>>

\* A Secret that is there is used.
GetSecret(p) ==
    /\ phase[p] = "get"
    /\ secret # NoKey
    /\ Become(p, "ready", secret)
    /\ UNCHANGED <<secret, authorized>>

\* Mutant of GenerateKey: no look at the Secret before.
GenerateAlways(p) ==
    /\ phase[p] = "get"
    /\ \E k \in Fresh : Become(p, "create", k)
    /\ UNCHANGED <<secret, authorized>>

\* Only if it is not found is a key pair generated.
GenerateKey(p) ==
    /\ phase[p] = "get"
    /\ secret = NoKey
    /\ \E k \in Fresh : Become(p, "create", k)
    /\ UNCHANGED <<secret, authorized>>

\* Mutant of CreateSecret: a Secret that has appeared meanwhile is no error.
CreateIfAbsent(p) ==
    /\ phase[p] = "create"
    /\ secret' = IF secret = NoKey THEN key[p] ELSE secret
    /\ Become(p, "ready", key[p])
    /\ UNCHANGED authorized

CreateSecret(p) ==
    /\ phase[p] = "create"
    /\ secret = NoKey
    /\ secret' = key[p]
    /\ \/ Become(p, "ready", key[p])
       \/ "lostReply" \in Faults /\ Become(p, "down", NoKey)
    /\ UNCHANGED authorized

\* Another manager was faster.  The process exits and is started again.
SecretExists(p) ==
    /\ phase[p] = "create"
    /\ secret # NoKey
    /\ Become(p, "down", NoKey)
    /\ UNCHANGED <<secret, authorized>>

\* Leader election (client-go): one manager at a time.
Lead(p) ==
    /\ phase[p] = "ready"
    /\ \A q \in Managers : phase[q] # "lead"
    /\ Become(p, "lead", key[p])
    /\ UNCHANGED <<secret, authorized>>

\* A manager is stopped, dies or loses its lease.
Exit(p) ==
    /\ phase[p] # "down"
    /\ Become(p, "down", NoKey)
    /\ UNCHANGED <<secret, authorized>>

\* The public key of the leader is among those the node is created with.
CreateNode(p, n) ==
    /\ phase[p] = "lead"
    /\ authorized[n] = NoKey
    /\ authorized' = [authorized EXCEPT ![n] = key[p]]
    /\ UNCHANGED <<secret, phase, key>>

DeleteNode(p, n) ==
    /\ phase[p] = "lead"
    /\ authorized[n] # NoKey
    /\ authorized' = [authorized EXCEPT ![n] = NoKey]
    /\ UNCHANGED <<secret, phase, key>>

StartUp(p) ==
    \/ Start(p)
    \/ GetSecret(p)
    \/ GenerateKey(p)
    \/ CreateSecret(p)
    \/ SecretExists(p)

Next ==
    \E p \in Managers :
       \/ StartUp(p)
       \/ Lead(p)
       \/ Exit(p)
       \/ \E n \in Nodes : CreateNode(p, n) \/ DeleteNode(p, n)

Spec == Init /\ [][Next]_vars

(***************************************************************************)
(* Fairness.  The Deployment starts a manager that is down, and it goes on *)
(* with its start; a lease that nobody renews is taken.  From some time on *)
(* no manager ends but one that another was faster than.                   *)
(***************************************************************************)
Fairness ==
    /\ \A p \in Managers : WF_vars(StartUp(p))
    /\ WF_vars(\E p \in Managers : Lead(p))
    /\ <>[][\A p \in Managers : Exit(p) => SecretExists(p)]_vars

FairSpec == Spec /\ Fairness

-----------------------------------------------------------------------------
(***************************************************************************)
(* Properties.                                                             *)
(***************************************************************************)

\* Every variable has its type.
TypeOK ==
    /\ secret \in Keys \cup {NoKey}
    /\ phase \in [Managers -> Phase]
    /\ key \in [Managers -> Keys \cup {NoKey}]
    /\ authorized \in [Nodes -> Keys \cup {NoKey}]

\* Whichever manager leads, it can log in to every node, also to those that
\* another manager made or that it made in an earlier life: managers that start
\* at once, or fail between the steps of their start, never end with two keys.
NodesReachable ==
    \A p \in Managers, n \in Nodes :
       phase[p] = "lead" /\ authorized[n] # NoKey => authorized[n] = key[p]

\* Managers that start at once do not hinder each other for ever: in the end one
\* leads and keeps leading.
OneLeads == <>[](\E p \in Managers : phase[p] = "lead")

-----------------------------------------------------------------------------
\* What makes NodesReachable inductive: who got past its start has the key that
\* is in the Secret, and so has every node.
KeyInv ==
    /\ \A p \in Managers :
          /\ phase[p] \in {"ready", "lead"} => key[p] = secret /\ secret # NoKey
          /\ phase[p] = "create" => key[p] # NoKey
    /\ \A n \in Nodes : authorized[n] # NoKey => authorized[n] = secret

=============================================================================
