----------------------------- MODULE Bootstrap -----------------------------
(***************************************************************************)
(* The bootstrap of one compute node: the controller translates the cloud- *)
(* init data of the machine to a bash script, runs it as root over SSH and *)
(* runs all of it again, every 30 s, until one run ends without an error.  *)
(*                                                                         *)
(* A script is a process of the node.  It can fail at every step, it can   *)
(* be cut when its connection is lost, and it can outlive the connection,  *)
(* beside the script that the controller starts next.  What the scripts    *)
(* share is the state of the node: the packages, the files, kubeadm's      *)
(* state, and the sentinel file that says "bootstrap completed".           *)
(*                                                                         *)
(* In E2EMachine all this is one step, BootstrapRuns or BootstrapWaits.    *)
(***************************************************************************)
EXTENDS Naturals, Sequences

CONSTANTS
    Payloads,       \* the bootstrap data a machine may be given
    Runs,           \* bounds how many scripts are alive on the node at once
    None,           \* no open SSH session
    Faults          \* the adverse behaviours the environment may show

FaultKind ==
    { "survive",        \* a script goes on when its connection is lost
      "reboot",         \* the node restarts
      "resetFails",     \* kubeadm reset fails, before or after it removed files
      "lostReply" }     \* a run that ended well is not recorded

\* A file of write_files.  A file without a path or without content is skipped
\* and is no file here.  kubeadm reset wipes the certificates and kubeconfigs, and
\* all of /var/lib/kubelet and /var/lib/etcd.
File == [kube    : BOOLEAN,     \* its path is under /etc/kubernetes/
         wiped   : BOOLEAN,     \* kubeadm reset removes it
         encoded : BOOLEAN]     \* its content is given in base64

\* A command of runcmd.  "init" and "join" are kubeadm's, "k0s" is the
\* installation of k0s.
Command == [does  : {"plain", "init", "join", "k0s"},
            touch : BOOLEAN]    \* the line goes on with && <write the sentinel>

\* Cloud-init data.  The bootstrap provider writes the sentinel when the node is
\* set up, in the line of the command that does it or later, and only once.
IsPayload(d) ==
    /\ d \in [controlPlane : BOOLEAN, files : Seq(File), cmds : Seq(Command)]
    /\ \E k \in 1 .. Len(d.cmds) :
          /\ d.cmds[k].does # "plain"
          /\ d.cmds[k].does = "init" => d.controlPlane
          /\ \A i \in 1 .. Len(d.cmds) :
                /\ i # k => d.cmds[i].does = "plain"
                /\ d.cmds[i].touch => /\ k <= i
                                      /\ i # k => ~d.cmds[k].touch

ASSUME ConstantAssumption ==
    /\ \A d \in Payloads : IsPayload(d)
    /\ None \notin Runs
    /\ Faults \subseteq FaultKind

VARIABLES
    payload,    \* the cloud-init data of the machine
    packages,   \* what dpkg has installed of containerd, kubelet and kubeadm
    files,      \* what the node holds of each file of it
    kube,       \* what kubeadm or k0s has set up: "partial" is what they refuse
    manifest,   \* /etc/kubernetes/manifests/kube-apiserver.yaml exists
    sentinel,   \* /run/cluster-api/bootstrap-success.complete exists
    done,       \* commands whose effect is on the node
    uploaded,   \* kubeadm's configuration is stored in the cluster
    script,     \* the scripts on the node
    session,    \* the script whose result the controller waits for
    reported,   \* Status.Bootstrapped
    tainted     \* what has happened that the script does not guard against

vars == <<payload, packages, files, kube, manifest, sentinel, done, uploaded,
          script, session, reported, tainted>>

-----------------------------------------------------------------------------

Pc == {"off", "prepare", "install", "dpkg", "write", "reset", "resetting",
       "rewrite", "run", "kubeadm", "touch", "upload", "exit"}

Script == [pc  : Pc,
           i   : Nat,           \* the next file or command
           ok  : BOOLEAN,       \* exit status of the last command
           bad : BOOLEAN]       \* a command failed that did not stop the script

Off == [pc |-> "off", i |-> 1, ok |-> TRUE, bad |-> FALSE]

Alive(p) == script[p].pc # "off"

NFiles == Len(payload.files)
NCmds  == Len(payload.cmds)

\* isK0sBootstrap: such a node gets no kubeadm.
IsK0s == \E i \in 1 .. NCmds : payload.cmds[i].does = "k0s"

\* kubeadm runs the API server, from its manifest, on a control plane node only.
ServesApi == payload.controlPlane /\ ~IsK0s

\* What the command that sets the node up needs: k0s comes with all of it.
Installed == IsK0s \/ packages = "ready"

\* The command that script p is at.
Cmd(p) == payload.cmds[script[p].i]

Init ==
    /\ payload \in Payloads
    /\ packages \in {"none", "ready"}
    /\ files = [i \in 1 .. NFiles |-> "absent"]
    /\ kube = "none"
    /\ manifest = FALSE
    /\ sentinel = FALSE
    /\ done = {}
    /\ uploaded = FALSE
    /\ script = [p \in Runs |-> Off]
    /\ session = None
    /\ reported = FALSE
    /\ tainted = {}

Step(p, new) == script' = [script EXCEPT ![p] = new]

Goto(p, pc) == Step(p, [script[p] EXCEPT !.pc = pc, !.i = 1])

\* A command that is not part of a && list and fails ends the script (set -e).
Abort(p) == Step(p, [script[p] EXCEPT !.pc = "exit", !.ok = FALSE])

controller == <<payload, session, reported, tainted>>
node       == <<packages, files, kube, manifest, sentinel, done, uploaded>>

-----------------------------------------------------------------------------
(***************************************************************************)
(* The controller.                                                         *)
(***************************************************************************)

\* A reconciliation that finds the machine not bootstrapped runs the script.
Connect ==
    /\ session = None
    /\ ~reported
    /\ \E p \in Runs :
          /\ ~Alive(p)
          /\ Goto(p, "prepare")
          /\ session' = p
    /\ tainted' = IF \E q \in Runs : Alive(q) THEN tainted \cup {"overlap"}
                                             ELSE tainted
    /\ UNCHANGED <<node, payload, reported>>

\* Exit status 0 is all that counts.
RunSucceeds ==
    /\ session # None
    /\ script[session].pc = "exit"
    /\ script[session].ok
    /\ \/ reported' = TRUE
       \/ "lostReply" \in Faults /\ UNCHANGED reported
    /\ tainted' = IF script[session].bad THEN tainted \cup {"masked"} ELSE tainted
    /\ Step(session, Off)
    /\ session' = None
    /\ UNCHANGED <<node, payload>>

RunFails ==
    /\ session # None
    /\ script[session].pc = "exit"
    /\ ~script[session].ok
    /\ Step(session, Off)
    /\ session' = None
    /\ UNCHANGED <<node, payload, reported, tainted>>

\* The connection is lost, or the manager that held it died.
Cut ==
    /\ session # None
    /\ \/ Step(session, Off)
       \/ "survive" \in Faults /\ UNCHANGED script
    /\ session' = None
    /\ UNCHANGED <<node, payload, reported, tainted>>

-----------------------------------------------------------------------------
(***************************************************************************)
(* The script.                                                             *)
(***************************************************************************)

\* Where kubeadm is found nothing is installed; k0s needs no package, and what apt
\* does before it may fail (|| true).
Prepare(p) ==
    /\ script[p].pc = "prepare"
    /\ Goto(p, IF IsK0s \/ packages \in {"half", "ready"} THEN "write"
                                                         ELSE "install")
    /\ UNCHANGED <<controller, node>>

\* The script waits for dpkg's lock.  apt refuses to go on where dpkg was cut off;
\* otherwise packages are half-installed from here until all of them are there.
Install(p) ==
    /\ script[p].pc = "install"
    /\ \A q \in Runs : script[q].pc # "dpkg"
    /\ \/ /\ packages = "none"
          /\ packages' = "broken"
          /\ Goto(p, "dpkg")
       \/ /\ packages = "ready"
          /\ Goto(p, "write")
          /\ UNCHANGED packages
       \/ /\ packages \in {"broken", "half"}
          /\ Abort(p)
          /\ UNCHANGED packages
    /\ UNCHANGED <<controller, files, kube, manifest, sentinel, done, uploaded>>

\* kubeadm is on the node, before dpkg is done with it and with kubelet.
UnpackKubeadm(p) ==
    /\ script[p].pc = "dpkg"
    /\ packages = "broken"
    /\ packages' = "half"
    /\ UNCHANGED <<controller, script, files, kube, manifest, sentinel, done,
                   uploaded>>

InstallEnds(p) ==
    /\ script[p].pc = "dpkg"
    /\ packages = "half"
    /\ packages' = "ready"
    /\ Goto(p, "write")
    /\ UNCHANGED <<controller, files, kube, manifest, sentinel, done, uploaded>>

WriteFile(p) ==
    /\ script[p].pc = "write"
    /\ script[p].i <= NFiles
    /\ files' = [files EXCEPT ![script[p].i] = "good"]
    /\ Step(p, [script[p] EXCEPT !.i = @ + 1])
    /\ UNCHANGED <<controller, packages, kube, manifest, sentinel, done, uploaded>>

\* Mutant of CheckDone: the sentinel is not looked at.
CheckManifest(p) ==
    /\ script[p].pc = "write"
    /\ script[p].i > NFiles
    /\ Goto(p, IF manifest THEN "reset" ELSE "run")
    /\ UNCHANGED <<controller, node>>

\* Mutant of CheckDone: a partial control plane counts as a finished one.
CheckAnything(p) ==
    /\ script[p].pc = "write"
    /\ script[p].i > NFiles
    /\ Goto(p, IF sentinel \/ manifest THEN "exit" ELSE "run")
    /\ UNCHANGED <<controller, node>>

\* Mutant of CheckDone: a partial control plane is not reset.
NeverReset(p) ==
    /\ script[p].pc = "write"
    /\ script[p].i > NFiles
    /\ Goto(p, IF sentinel THEN "exit" ELSE "run")
    /\ UNCHANGED <<controller, node>>

\* Nothing more to do under the sentinel; a set-up that got as far as the manifest
\* of the API server is reset.
CheckDone(p) ==
    /\ script[p].pc = "write"
    /\ script[p].i > NFiles
    /\ Goto(p, IF sentinel THEN "exit" ELSE IF manifest THEN "reset" ELSE "run")
    /\ UNCHANGED <<controller, node>>

\* kubeadm reset first removes what it wipes, the manifests included.
Reset(p) ==
    /\ script[p].pc = "reset"
    /\ kube' = "partial"
    /\ manifest' = FALSE
    /\ files' = [i \in 1 .. NFiles |-> IF payload.files[i].wiped THEN "absent"
                                                                 ELSE files[i]]
    /\ done' = {i \in done : payload.cmds[i].does = "plain"}
    /\ uploaded' = FALSE
    /\ Goto(p, "resetting")
    /\ UNCHANGED <<controller, packages, sentinel>>

\* The kubelet, the containers and etcd's data are gone too.
ResetEnds(p) ==
    /\ script[p].pc = "resetting"
    /\ kube' = "none"
    /\ Goto(p, "rewrite")
    /\ UNCHANGED <<controller, packages, files, manifest, sentinel, done, uploaded>>

\* kubeadm reset fails, at its start or with the manifests gone, and the script
\* goes on (|| true); etcd's data are removed all the same, so nothing serves.
ResetFails(p) ==
    /\ "resetFails" \in Faults
    /\ script[p].pc \in {"reset", "resetting"}
    /\ kube' = "partial"
    /\ done' = {i \in done : payload.cmds[i].does = "plain"}
    /\ uploaded' = FALSE
    /\ Goto(p, "rewrite")
    /\ UNCHANGED <<controller, packages, files, manifest, sentinel>>

\* Mutant of RewriteFile: what the reset removed is not written again.
RewriteNothing(p) ==
    /\ script[p].pc = "rewrite"
    /\ script[p].i <= NFiles
    /\ Step(p, [script[p] EXCEPT !.i = @ + 1])
    /\ UNCHANGED <<controller, node>>

\* Files under /etc/kubernetes/ are written again, but not decoded.
RewriteFile(p) ==
    /\ script[p].pc = "rewrite"
    /\ script[p].i <= NFiles
    /\ LET f == payload.files[script[p].i]
       IN  files' = [files EXCEPT ![script[p].i] =
                        IF ~f.kube THEN @ ELSE IF f.encoded THEN "raw" ELSE "good"]
    /\ Step(p, [script[p] EXCEPT !.i = @ + 1])
    /\ UNCHANGED <<controller, packages, kube, manifest, sentinel, done, uploaded>>

Rewritten(p) ==
    /\ script[p].pc = "rewrite"
    /\ script[p].i > NFiles
    /\ Goto(p, "run")
    /\ UNCHANGED <<controller, node>>

\* Mutant of After: the upload follows every kubeadm command, as if the generator
\* had looked for "kubeadm" alone.
AfterAnyKubeadm(p, ok, bad) ==
    Step(p, IF Cmd(p).does \in {"init", "join"}
            THEN [script[p] EXCEPT !.pc = "upload", !.ok = ok, !.bad = bad]
            ELSE [script[p] EXCEPT !.pc = "run", !.i = @ + 1, !.ok = ok, !.bad = bad])

\* Where the script goes after the line of a command, with this exit status:
\* "kubeadm init" is followed by the upload of the configuration, the last
\* command by the end of the script.
After(p, ok, bad) ==
    Step(p, IF Cmd(p).does = "init"
            THEN [script[p] EXCEPT !.pc = "upload", !.ok = ok, !.bad = bad]
            ELSE [script[p] EXCEPT !.pc = "run", !.i = @ + 1, !.ok = ok, !.bad = bad])

RunPlain(p) ==
    /\ script[p].pc = "run"
    /\ script[p].i <= NCmds
    /\ Cmd(p).does = "plain"
    /\ done' = done \cup {script[p].i}
    /\ sentinel' = (sentinel \/ Cmd(p).touch)
    /\ After(p, TRUE, script[p].bad)
    /\ UNCHANGED <<controller, packages, files, kube, manifest, uploaded>>

\* kubeadm and k0s refuse to work on a node that was set up before, kubeadm also
\* on one where not all packages are installed.
StartKube(p) ==
    /\ script[p].pc = "run"
    /\ script[p].i <= NCmds
    /\ Cmd(p).does # "plain"
    /\ kube = "none"
    /\ Installed
    /\ kube' = "partial"
    /\ Step(p, [script[p] EXCEPT !.pc = "kubeadm"])
    /\ UNCHANGED <<controller, packages, files, manifest, sentinel, done, uploaded>>

\* Certificates, kubeconfigs and other manifests come before the API server's.
WriteManifest(p) ==
    /\ script[p].pc = "kubeadm"
    /\ ServesApi
    /\ kube # "none"
    /\ ~manifest
    /\ manifest' = TRUE
    /\ UNCHANGED <<controller, script, packages, files, kube, sentinel, done,
                   uploaded>>

FinishKube(p) ==
    /\ script[p].pc = "kubeadm"
    /\ kube # "none"
    /\ ServesApi => manifest
    /\ kube' = "up"
    /\ done' = done \cup {script[p].i}
    /\ IF Cmd(p).touch THEN Step(p, [script[p] EXCEPT !.pc = "touch"])
                       ELSE After(p, TRUE, script[p].bad)
    /\ UNCHANGED <<controller, packages, files, manifest, sentinel, uploaded>>

Touch(p) ==
    /\ script[p].pc = "touch"
    /\ sentinel' = TRUE
    /\ After(p, TRUE, script[p].bad)
    /\ UNCHANGED <<controller, packages, files, kube, manifest, done, uploaded>>

\* Mutant of KubeFails: no command that fails ends the script.
KubeFailureIgnored(p) ==
    /\ \/ script[p].pc = "kubeadm"
       \/ script[p].pc = "run" /\ script[p].i <= NCmds /\ Cmd(p).does # "plain"
    /\ After(p, TRUE, FALSE)
    /\ UNCHANGED <<controller, node>>

\* In the list "kubeadm ... && <write the sentinel>" a failure of the first
\* command does not end the script: only its exit status is kept.
KubeFails(p) ==
    /\ \/ script[p].pc = "kubeadm"
       \/ script[p].pc = "run" /\ script[p].i <= NCmds /\ Cmd(p).does # "plain"
    /\ IF Cmd(p).touch THEN After(p, FALSE, TRUE) ELSE Abort(p)
    /\ UNCHANGED <<controller, node>>

\* The API server answers even if kubeadm init failed after it was started.
Upload(p) ==
    /\ script[p].pc = "upload"
    /\ manifest
    /\ uploaded' = TRUE
    /\ Step(p, [script[p] EXCEPT !.pc = "run", !.i = @ + 1, !.ok = TRUE])
    /\ UNCHANGED <<controller, packages, files, kube, manifest, sentinel, done>>

\* No API server, or the load balancer does not forward to it yet.
UploadFails(p) ==
    /\ script[p].pc = "upload"
    /\ Abort(p)
    /\ UNCHANGED <<controller, node>>

\* The status of the last command is that of the script.
Finish(p) ==
    /\ script[p].pc = "run"
    /\ script[p].i > NCmds
    /\ Step(p, [script[p] EXCEPT !.pc = "exit"])
    /\ UNCHANGED <<controller, node>>

\* A package cannot be fetched or unpacked, the disk is full, a command of the
\* user fails.
StepFails(p) ==
    /\ \/ script[p].pc \in {"prepare", "dpkg"}
       \/ script[p].pc = "install" /\ packages \in {"none", "ready"}
       \/ script[p].pc \in {"write", "rewrite"} /\ script[p].i <= NFiles
       \/ script[p].pc = "run" /\ script[p].i <= NCmds /\ Cmd(p).does = "plain"
    /\ Abort(p)
    /\ UNCHANGED <<controller, node>>

\* A script without a connection ends, or dies when it writes its output.
SurvivorEnds(p) ==
    /\ Alive(p)
    /\ p # session
    /\ Step(p, Off)
    /\ UNCHANGED <<controller, node>>

\* /run does not survive a restart of the node, what kubeadm set up does.
Reboot ==
    /\ "reboot" \in Faults
    /\ script' = [p \in Runs |-> Off]
    /\ session' = None
    /\ sentinel' = FALSE
    /\ UNCHANGED <<payload, packages, files, kube, manifest, done, uploaded,
                   reported, tainted>>

Progress(p) ==
    \/ Prepare(p)
    \/ Install(p)
    \/ UnpackKubeadm(p)
    \/ InstallEnds(p)
    \/ WriteFile(p)
    \/ CheckDone(p)
    \/ Reset(p)
    \/ ResetEnds(p)
    \/ RewriteFile(p)
    \/ Rewritten(p)
    \/ RunPlain(p)
    \/ StartKube(p)
    \/ WriteManifest(p)
    \/ FinishKube(p)
    \/ Touch(p)
    \/ Upload(p)
    \/ Finish(p)

Next ==
    \/ Connect
    \/ RunSucceeds
    \/ RunFails
    \/ Cut
    \/ Reboot
    \/ \E p \in Runs : \/ Progress(p)
                       \/ KubeFails(p)
                       \/ UploadFails(p)
                       \/ StepFails(p)
                       \/ ResetFails(p)
                       \/ SurvivorEnds(p)

Spec == Init /\ [][Next]_vars

\* What may happen again and again, but not for ever.  A step that a script's end
\* explains as well is none of these.
Failure ==
    \/ (Cut \/ Reboot) /\ ~RunFails /\ \A p \in Runs : ~SurvivorEnds(p)
    \/ RunSucceeds /\ ~reported'
    \/ \E p \in Runs :
          \/ StepFails(p)
          \/ KubeFails(p) /\ (script[p].pc = "kubeadm" \/ (kube = "none" /\ Installed))
          \/ UploadFails(p) /\ manifest
          \/ ResetFails(p)

(***************************************************************************)
(* Fairness.  A machine that is not bootstrapped is requeued every 15 or   *)
(* 30 s, so that the controller connects again.  A script that it waits    *)
(* for goes on, one that it does not wait for ends.  From some time on no  *)
(* step fails but those that the node's own state makes fail.              *)
(***************************************************************************)
Fairness ==
    /\ WF_vars(Connect)
    /\ WF_vars(RunSucceeds \/ RunFails)
    /\ \A p \in Runs :
          /\ WF_vars(SurvivorEnds(p))
          /\ WF_vars(session = p /\ (Progress(p) \/ KubeFails(p) \/ UploadFails(p)))
    /\ <>[][~Failure]_vars

FairSpec == Spec /\ Fairness

-----------------------------------------------------------------------------
(***************************************************************************)
(* Properties.                                                             *)
(***************************************************************************)

\* Every variable has its type, a script is only ever at a file or at a command
\* that the payload has, and only "kubeadm init" is followed by an upload.
TypeOK ==
    /\ payload \in Payloads
    /\ packages \in {"none", "broken", "half", "ready"}
    /\ files \in [1 .. NFiles -> {"absent", "good", "raw"}]
    /\ kube \in {"none", "partial", "up"}
    /\ manifest \in BOOLEAN
    /\ sentinel \in BOOLEAN
    /\ done \subseteq 1 .. NCmds
    /\ uploaded \in BOOLEAN
    /\ script \in [Runs -> Script]
    /\ session \in Runs \cup {None}
    /\ reported \in BOOLEAN
    /\ tainted \subseteq {"overlap", "masked"}
    /\ \A p \in Runs :
          /\ script[p].i >= 1
          /\ script[p].pc \in {"kubeadm", "touch", "upload"}
                => script[p].i <= NCmds /\ Cmd(p).does # "plain"
          /\ script[p].pc = "touch" => Cmd(p).touch
          /\ script[p].pc = "upload" => Cmd(p).does = "init"

\* No two scripts have ever run on the node at the same time.
Alone == "overlap" \notin tainted

\* A machine is reported as bootstrapped only when kubeadm or k0s has set up its
\* node, and the node stays so: runs that failed half-way, were cut, lost their
\* reply or came after a restart, and resets of a partial control plane
\* included.  The two exceptions: scripts that ran at the same time, and a
\* failure that the script did not notice (KubeFails).
ReportedServes ==
    reported /\ tainted = {} => kube = "up"

\* The controller takes the end of a script for success only if every command of
\* runcmd took effect on the node ("Executes all commands from runcmd").
AllCommandsRun ==
    reported => /\ done = 1 .. NCmds
                /\ (\E i \in 1 .. NCmds : payload.cmds[i].does = "init") => uploaded

\* The node holds file i, or the reset has cost it: written again undecoded, or
\* wiped and not written again.
InPlace(i) ==
    LET f == payload.files[i]
    IN  \/ files[i] = "good"
        \/ files[i] = "raw" /\ f.kube /\ f.encoded
        \/ files[i] = "absent" /\ f.wiped /\ ~f.kube

\* Every command finds every file in place, again after a reset of the node, but
\* for the two kinds of files that the reset costs (InPlace).
FilesInPlace ==
    Alone =>
       \A p \in Runs :
          script[p].pc \in {"run", "kubeadm", "touch", "upload"} =>
             \A i \in 1 .. NFiles : InPlace(i)

\* A node that was set up and has its sentinel is never reset, though the
\* sentinel is looked at long before the reset.
SentinelProtects ==
    [][sentinel /\ kube = "up" /\ Alone => kube' = "up"]_vars

\* What no later run gets past: packages that dpkg was cut off at, and a set-up
\* that the script does not notice, since there is no manifest of an API server.
Stuck ==
    /\ ~sentinel
    /\ \/ packages \in {"broken", "half"}
       \/ kube # "none" /\ ~manifest

\* The node is reported as bootstrapped in the end, whatever was left half-done by
\* runs that failed, were cut or came after a restart, unless it ends up stuck for
\* good: a set-up that left its manifest is noticed and done again.
Completes == <>(reported \/ ~Alone) \/ <>[]Stuck

-----------------------------------------------------------------------------
(***************************************************************************)
(* Inductive strengthenings of the invariants that are proved.             *)
(***************************************************************************)

\* While scripts never ran at the same time there is one at most, and it is the
\* one the controller waits for, if it waits.
AloneInv ==
    /\ session # None => Alive(session)
    /\ Alone => \A p, q \in Runs : Alive(p) /\ Alive(q) => p = q

\* Script p is past the command that sets the node up.
PastSetUp(p) ==
    \E k \in 1 .. NCmds :
       /\ payload.cmds[k].does # "plain"
       /\ \/ script[p].pc = "run" /\ k < script[p].i
          \/ script[p].pc = "upload"

\* What makes ReportedServes and SentinelProtects inductive: who writes the
\* sentinel or ends well saw the node set up, unless a command failed unnoticed,
\* and then there is no sentinel to write after it; and nobody resets a node that
\* has a sentinel.
SetUpInv ==
    Alone =>
       /\ sentinel => kube = "up"
       /\ \A p \in Runs :
             /\ script[p].pc = "touch" => kube = "up"
             /\ PastSetUp(p) /\ ~script[p].bad => kube = "up"
             /\ script[p].pc = "exit" /\ script[p].ok /\ ~script[p].bad
                   => kube = "up"
             /\ script[p].bad => \E k \in 1 .. NCmds : /\ payload.cmds[k].does # "plain"
                                                      /\ payload.cmds[k].touch
             /\ script[p].pc \in {"reset", "resetting"} => ~sentinel
             /\ reported => ~Alive(p)
       /\ reported /\ tainted = {} => kube = "up"

\* What makes FilesInPlace inductive.
FilesInv ==
    Alone =>
       \A p \in Runs, i \in 1 .. NFiles :
          /\ script[p].pc = "write" /\ i < script[p].i => files[i] = "good"
          /\ script[p].pc = "reset" => files[i] = "good"
          /\ script[p].pc = "resetting" /\ ~payload.files[i].kube => InPlace(i)
          /\ script[p].pc = "rewrite" /\ (i < script[p].i \/ ~payload.files[i].kube)
                => InPlace(i)
          /\ script[p].pc \in {"run", "kubeadm", "touch", "upload"} => InPlace(i)

=============================================================================
