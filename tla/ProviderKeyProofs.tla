------------------------- MODULE ProviderKeyProofs -------------------------
(***************************************************************************)
(* Proofs about the provider's key pair, for any number of managers, nodes *)
(* and keys.                                                               *)
(***************************************************************************)
EXTENDS ProviderKey, TLAPS

LEMMA BecomeFacts ==
    ASSUME TypeOK, NEW p \in Managers, NEW ph \in Phase,
           NEW k \in Keys \cup {NoKey}, Become(p, ph, k)
    PROVE  /\ phase' \in [Managers -> Phase]
           /\ key' \in [Managers -> Keys \cup {NoKey}]
           /\ phase'[p] = ph /\ key'[p] = k
           /\ \A q \in Managers : q # p => phase'[q] = phase[q] /\ key'[q] = key[q]
  BY DEF TypeOK, Become

\* A step of manager p towards its leadership, or to its end.
LEMMA PhaseStep ==
    ASSUME TypeOK, KeyInv, NEW p \in Managers, NEW ph \in Phase,
           NEW k \in Keys \cup {NoKey}, Become(p, ph, k),
           authorized' = authorized,
           \/ secret' = secret
           \/ secret = NoKey /\ secret' \in Keys,
           ph \in {"ready", "lead"} => k = secret' /\ k # NoKey,
           ph = "create" => k # NoKey
    PROVE  TypeOK' /\ KeyInv'
<1>1. /\ phase' \in [Managers -> Phase]
      /\ key' \in [Managers -> Keys \cup {NoKey}]
      /\ phase'[p] = ph /\ key'[p] = k
      /\ \A q \in Managers : q # p => phase'[q] = phase[q] /\ key'[q] = key[q]
  BY BecomeFacts
<1>2. TypeOK'
  BY <1>1 DEF TypeOK
<1>3. ASSUME NEW q \in Managers
      PROVE  /\ phase'[q] \in {"ready", "lead"} => key'[q] = secret' /\ secret' # NoKey
             /\ phase'[q] = "create" => key'[q] # NoKey
  <2>1. CASE q = p
    BY <1>1, <2>1
  <2>2. CASE q # p
    BY <1>1, <2>2 DEF KeyInv
  <2> QED
    BY <2>1, <2>2
<1>4. \A n \in Nodes : authorized'[n] # NoKey => authorized'[n] = secret'
  BY KeyAssumption DEF KeyInv, TypeOK
<1> QED
  BY <1>2, <1>3, <1>4 DEF KeyInv

LEMMA KeyStep ==
    ASSUME TypeOK, KeyInv, [Next]_vars
    PROVE  TypeOK' /\ KeyInv'
<1>0. /\ secret \in Keys \cup {NoKey}
      /\ \A p \in Managers : key[p] \in Keys \cup {NoKey}
      /\ Fresh \subseteq Keys /\ NoKey \notin Keys
      /\ Phase = {"down", "get", "create", "ready", "lead"}
  BY KeyAssumption DEF TypeOK, Fresh, Phase
<1>1. ASSUME NEW p \in Managers, Start(p) \/ Exit(p) \/ SecretExists(p)
      PROVE  TypeOK' /\ KeyInv'
  <2>1. PICK ph \in {"down", "get"} : Become(p, ph, NoKey)
    BY <1>1 DEF Start, Exit, SecretExists
  <2>2. secret' = secret /\ authorized' = authorized
    BY <1>1 DEF Start, Exit, SecretExists
  <2> QED
    BY <1>0, <2>1, <2>2, PhaseStep
<1>2. ASSUME NEW p \in Managers, GetSecret(p) PROVE TypeOK' /\ KeyInv'
  BY <1>0, <1>2, PhaseStep DEF GetSecret
<1>3. ASSUME NEW p \in Managers, GenerateKey(p) PROVE TypeOK' /\ KeyInv'
  <2>1. PICK k \in Fresh : Become(p, "create", k)
    BY <1>3 DEF GenerateKey
  <2>2. secret' = secret /\ authorized' = authorized
    BY <1>3 DEF GenerateKey
  <2> QED
    BY <1>0, <2>1, <2>2, PhaseStep
<1>4. ASSUME NEW p \in Managers, CreateSecret(p) PROVE TypeOK' /\ KeyInv'
  <2>1. /\ secret = NoKey /\ secret' = key[p] /\ key[p] \in Keys
        /\ authorized' = authorized
    BY <1>0, <1>4 DEF CreateSecret, KeyInv
  <2>2. CASE Become(p, "ready", key[p])
    BY <1>0, <2>1, <2>2, PhaseStep
  <2>3. CASE Become(p, "down", NoKey)
    BY <1>0, <2>1, <2>3, PhaseStep
  <2> QED
    BY <1>4, <2>2, <2>3 DEF CreateSecret
<1>5. ASSUME NEW p \in Managers, Lead(p) PROVE TypeOK' /\ KeyInv'
  <2>1. /\ key[p] = secret /\ secret # NoKey /\ secret' = secret
        /\ authorized' = authorized /\ Become(p, "lead", key[p])
    BY <1>5 DEF Lead, KeyInv
  <2> QED
    BY <1>0, <2>1, PhaseStep
<1>6. ASSUME NEW p \in Managers, NEW n \in Nodes, CreateNode(p, n) \/ DeleteNode(p, n)
      PROVE  TypeOK' /\ KeyInv'
  <2>1. /\ secret' = secret /\ phase' = phase /\ key' = key
        /\ key[p] = secret
        /\ authorized' \in {[authorized EXCEPT ![n] = key[p]],
                            [authorized EXCEPT ![n] = NoKey]}
    BY <1>6 DEF CreateNode, DeleteNode, KeyInv
  <2>2. TypeOK'
    BY <1>0, <2>1 DEF TypeOK
  <2>3. \A j \in Nodes : authorized'[j] # NoKey => authorized'[j] = secret
    BY <2>1 DEF KeyInv, TypeOK
  <2> QED
    BY <2>1, <2>2, <2>3 DEF KeyInv
<1>7. CASE UNCHANGED vars
  BY <1>7 DEF vars, TypeOK, KeyInv
<1> QED
  BY <1>1, <1>2, <1>3, <1>4, <1>5, <1>6, <1>7 DEF Next, StartUp

\* A manager that leads can log in to every node, whoever made it and however
\* many managers started at once, exited or lost a reply.
THEOREM KeysAgree == Spec => []NodesReachable
<1>1. Init => TypeOK /\ KeyInv
  BY DEF Init, TypeOK, KeyInv, Phase
<1>2. TypeOK /\ KeyInv /\ [Next]_vars => (TypeOK /\ KeyInv)'
  BY KeyStep
<1>3. KeyInv => NodesReachable
  BY DEF KeyInv, NodesReachable
<1> QED
  BY <1>1, <1>2, <1>3, PTL DEF Spec

=============================================================================
