---------------------------- MODULE MCBootstrap ----------------------------
(***************************************************************************)
(* Instances of Bootstrap for TLC: one payload of each kind the bootstrap  *)
(* providers make.                                                         *)
(***************************************************************************)
EXTENDS Bootstrap

\* kubeadm's configuration under /run, a certificate, a policy of the user for
\* the API server, a credential file of the kubelet, k0smotron's join token.
Config  == [kube |-> FALSE, wiped |-> FALSE, encoded |-> FALSE]
Cert    == [kube |-> TRUE, wiped |-> TRUE, encoded |-> FALSE]
Policy  == [kube |-> TRUE, wiped |-> FALSE, encoded |-> TRUE]
Kubelet == [kube |-> FALSE, wiped |-> TRUE, encoded |-> FALSE]
Token   == [kube |-> FALSE, wiped |-> FALSE, encoded |-> TRUE]

Line(does, touch) == [does |-> does, touch |-> touch]

Data(cp, fs, cs) == [controlPlane |-> cp, files |-> fs, cmds |-> cs]

\* The first control plane node, with a command of the user before and after.
FirstControlPlane ==
    Data(TRUE, <<Cert, Config>>,
         <<Line("plain", FALSE), Line("init", TRUE), Line("plain", FALSE)>>)

\* A further control plane node, with files of the user.
OtherControlPlane == Data(TRUE, <<Policy, Kubelet>>, <<Line("join", TRUE)>>)

\* A worker with a command of the user after kubeadm's.
KubeadmWorker ==
    Data(FALSE, <<Config>>, <<Line("join", TRUE), Line("plain", FALSE)>>)

\* k0smotron writes the sentinel in a command of its own, the last one.
K0sNode(cp) ==
    Data(cp, <<Token>>, <<Line("k0s", FALSE), Line("plain", TRUE)>>)

AllPayloads == {FirstControlPlane, OtherControlPlane, KubeadmWorker,
                K0sNode(TRUE), K0sNode(FALSE)}

PlainPayloads == {Data(TRUE, <<Cert>>, <<Line("init", TRUE)>>)}
=============================================================================
