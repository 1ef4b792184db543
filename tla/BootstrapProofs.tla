-------------------------- MODULE BootstrapProofs --------------------------
(***************************************************************************)
(* Proofs about the bootstrap of a node, for any set of payloads of the    *)
(* form the bootstrap providers make, any number of scripts, and every     *)
(* choice of faults.                                                       *)
(***************************************************************************)
EXTENDS Bootstrap, TLAPS

-----------------------------------------------------------------------------
(***************************************************************************)
(* Types.                                                                  *)
(***************************************************************************)

LEMMA PayloadFacts ==
    ASSUME payload \in Payloads
    PROVE  /\ NCmds \in Nat /\ NFiles \in Nat
           /\ payload.controlPlane \in BOOLEAN
           /\ \A i \in 1 .. NCmds : payload.cmds[i] \in Command
           /\ \A i \in 1 .. NFiles : payload.files[i] \in File
           /\ \E k \in 1 .. NCmds :
                 /\ payload.cmds[k].does # "plain"
                 /\ \A i \in 1 .. NCmds :
                       /\ i # k => payload.cmds[i].does = "plain"
                       /\ payload.cmds[i].touch => /\ k <= i
                                                   /\ i # k => ~payload.cmds[k].touch
<1>1. IsPayload(payload)
  BY ConstantAssumption
<1>2. payload.files \in Seq(File) /\ payload.cmds \in Seq(Command)
      /\ payload.controlPlane \in BOOLEAN
  BY <1>1 DEF IsPayload
<1>3. /\ NCmds \in Nat /\ NFiles \in Nat
      /\ \A i \in 1 .. NCmds : payload.cmds[i] \in Command
      /\ \A i \in 1 .. NFiles : payload.files[i] \in File
  <2> HIDE DEF Command, File
  <2> QED
    BY <1>2 DEF NCmds, NFiles
<1> QED
  BY <1>1, <1>2, <1>3 DEF IsPayload, NCmds

\* Every script goes on to a state of its type.
LEMMA StepType ==
    ASSUME TypeOK, NEW p \in Runs, NEW new \in Script, Step(p, new)
    PROVE  /\ script' \in [Runs -> Script]
           /\ script'[p] = new
           /\ \A q \in Runs : q # p => script'[q] = script[q]
  BY DEF TypeOK, Step

LEMMA GotoType ==
    ASSUME TypeOK, NEW p \in Runs, NEW pc \in Pc, Goto(p, pc)
    PROVE  /\ script' \in [Runs -> Script]
           /\ script'[p].pc = pc /\ script'[p].i = 1
           /\ script'[p].ok = script[p].ok /\ script'[p].bad = script[p].bad
           /\ \A q \in Runs : q # p => script'[q] = script[q]
<1> DEFINE new == [script[p] EXCEPT !.pc = pc, !.i = 1]
<1>1. /\ new \in Script
      /\ new.pc = pc /\ new.i = 1 /\ new.ok = script[p].ok /\ new.bad = script[p].bad
  BY DEF TypeOK, Script
<1>2. Step(p, new)
  BY DEF Goto
<1> HIDE DEF new
<1> QED
  BY <1>1, <1>2, StepType

LEMMA AbortType ==
    ASSUME TypeOK, NEW p \in Runs, Abort(p)
    PROVE  /\ script' \in [Runs -> Script]
           /\ script'[p].pc = "exit" /\ script'[p].i = script[p].i
           /\ ~script'[p].ok /\ script'[p].bad = script[p].bad
           /\ \A q \in Runs : q # p => script'[q] = script[q]
<1> DEFINE new == [script[p] EXCEPT !.pc = "exit", !.ok = FALSE]
<1>1. /\ new \in Script
      /\ new.pc = "exit" /\ new.i = script[p].i /\ ~new.ok /\ new.bad = script[p].bad
  BY DEF TypeOK, Script, Pc
<1>2. Step(p, new)
  BY DEF Abort
<1> HIDE DEF new
<1> QED
  BY <1>1, <1>2, StepType

LEMMA AfterType ==
    ASSUME TypeOK, NEW p \in Runs, NEW ok \in BOOLEAN, NEW bad \in BOOLEAN,
           After(p, ok, bad)
    PROVE  /\ script' \in [Runs -> Script]
           /\ script'[p].ok = ok /\ script'[p].bad = bad
           /\ Cmd(p).does = "init"
                => script'[p].pc = "upload" /\ script'[p].i = script[p].i
           /\ Cmd(p).does # "init"
                => script'[p].pc = "run" /\ script'[p].i = script[p].i + 1
           /\ \A q \in Runs : q # p => script'[q] = script[q]
<1> DEFINE one == [script[p] EXCEPT !.pc = "upload", !.ok = ok, !.bad = bad]
           two == [script[p] EXCEPT !.pc = "run", !.i = @ + 1, !.ok = ok, !.bad = bad]
           new == IF Cmd(p).does = "init" THEN one ELSE two
<1>0. script[p] \in Script /\ script[p].i \in Nat /\ script[p].i + 1 \in Nat
  BY DEF TypeOK, Script
<1>1. /\ one \in Script /\ one.pc = "upload" /\ one.i = script[p].i
      /\ one.ok = ok /\ one.bad = bad
  BY <1>0 DEF Script, Pc
<1>2. /\ two \in Script /\ two.pc = "run" /\ two.i = script[p].i + 1
      /\ two.ok = ok /\ two.bad = bad
  BY <1>0 DEF Script, Pc
<1>3. Step(p, new)
  BY DEF After
<1> HIDE DEF one, two
<1> QED
  BY <1>1, <1>2, <1>3, StepType

LEMMA PcType ==
    ASSUME TypeOK, NEW p \in Runs, NEW pc \in Pc,
           Step(p, [script[p] EXCEPT !.pc = pc])
    PROVE  /\ script' \in [Runs -> Script]
           /\ script'[p].pc = pc /\ script'[p].i = script[p].i
           /\ script'[p].ok = script[p].ok /\ script'[p].bad = script[p].bad
           /\ \A q \in Runs : q # p => script'[q] = script[q]
<1> DEFINE new == [script[p] EXCEPT !.pc = pc]
<1>1. /\ new \in Script /\ new.pc = pc /\ new.i = script[p].i
      /\ new.ok = script[p].ok /\ new.bad = script[p].bad
  BY DEF TypeOK, Script
<1>2. Step(p, new)
  OBVIOUS
<1> HIDE DEF new
<1> QED
  BY <1>1, <1>2, StepType

LEMMA FileType ==
    ASSUME TypeOK, NEW p \in Runs, WriteFile(p) \/ RewriteFile(p)
    PROVE  /\ script' \in [Runs -> Script]
           /\ script'[p].pc = script[p].pc /\ script'[p].i = script[p].i + 1
           /\ script'[p].ok = script[p].ok /\ script'[p].bad = script[p].bad
           /\ \A q \in Runs : q # p => script'[q] = script[q]
<1> DEFINE new == [script[p] EXCEPT !.i = @ + 1]
<1>0. script[p] \in Script /\ script[p].i + 1 \in Nat
  BY DEF TypeOK, Script
<1>1. /\ new \in Script /\ new.pc = script[p].pc /\ new.i = script[p].i + 1
      /\ new.ok = script[p].ok /\ new.bad = script[p].bad
  BY <1>0 DEF Script
<1>2. Step(p, new)
  BY DEF WriteFile, RewriteFile
<1> HIDE DEF new
<1> QED
  BY <1>1, <1>2, StepType

LEMMA UploadedType ==
    ASSUME TypeOK, NEW p \in Runs, Upload(p)
    PROVE  /\ script' \in [Runs -> Script]
           /\ script'[p].pc = "run" /\ script'[p].i = script[p].i + 1
           /\ script'[p].bad = script[p].bad
           /\ \A q \in Runs : q # p => script'[q] = script[q]
<1> DEFINE new == [script[p] EXCEPT !.pc = "run", !.i = @ + 1, !.ok = TRUE]
<1>0. script[p] \in Script /\ script[p].i + 1 \in Nat
  BY DEF TypeOK, Script
<1>1. /\ new \in Script /\ new.pc = "run" /\ new.i = script[p].i + 1
      /\ new.bad = script[p].bad
  BY <1>0 DEF Script, Pc
<1>2. Step(p, new)
  BY DEF Upload
<1> HIDE DEF new
<1> QED
  BY <1>1, <1>2, StepType

\* A step of script p that keeps to these bounds keeps the types.
LEMMA TypeFrame ==
    ASSUME TypeOK, NEW p \in Runs,
           UNCHANGED controller,
           script' \in [Runs -> Script],
           \A q \in Runs : q # p => script'[q] = script[q],
           script'[p].i >= 1,
           script'[p].pc \in {"kubeadm", "touch", "upload"}
             => /\ script'[p].i <= NCmds
                /\ payload.cmds[script'[p].i].does # "plain",
           script'[p].pc = "touch" => payload.cmds[script'[p].i].touch,
           script'[p].pc = "upload" => payload.cmds[script'[p].i].does = "init",
           packages' \in {"none", "broken", "half", "ready"},
           files' \in [1 .. NFiles -> {"absent", "good", "raw"}],
           kube' \in {"none", "partial", "up"},
           manifest' \in BOOLEAN,
           sentinel' \in BOOLEAN,
           done' \subseteq 1 .. NCmds,
           uploaded' \in BOOLEAN
    PROVE  TypeOK'
  BY DEF TypeOK, controller, NFiles, NCmds, Cmd

LEMMA InitType == Init => TypeOK
<1> SUFFICES ASSUME Init PROVE TypeOK
  OBVIOUS
<1>1. payload \in Payloads
  BY DEF Init
<1>2. NCmds \in Nat /\ NFiles \in Nat
  BY <1>1, PayloadFacts
<1>3. files \in [1 .. NFiles -> {"absent", "good", "raw"}]
  BY DEF Init
<1>4. Off \in Script /\ Off.pc = "off" /\ Off.i = 1
  BY DEF Off, Script, Pc
<1>5. /\ script \in [Runs -> Script]
      /\ \A p \in Runs : script[p].i >= 1 /\ script[p].pc = "off"
  <2> HIDE DEF Off
  <2> QED
    BY <1>4 DEF Init
<1>6. /\ packages \in {"none", "broken", "half", "ready"}
      /\ kube \in {"none", "partial", "up"} /\ manifest \in BOOLEAN
      /\ sentinel \in BOOLEAN
      /\ done \subseteq 1 .. NCmds /\ uploaded \in BOOLEAN
      /\ session \in Runs \cup {None} /\ reported \in BOOLEAN
      /\ tainted \subseteq {"overlap", "masked"}
  BY DEF Init
<1> QED
  BY <1>1, <1>3, <1>5, <1>6 DEF TypeOK

\* What TypeFrame asks of the variables that an action leaves alone.
LEMMA TypeKept ==
    ASSUME TypeOK
    PROVE  /\ packages \in {"none", "broken", "half", "ready"}
           /\ files \in [1 .. NFiles -> {"absent", "good", "raw"}]
           /\ kube \in {"none", "partial", "up"}
           /\ manifest \in BOOLEAN
           /\ sentinel \in BOOLEAN
           /\ done \subseteq 1 .. NCmds
           /\ uploaded \in BOOLEAN
           /\ NCmds \in Nat /\ NFiles \in Nat
           /\ \A i \in 1 .. NCmds : payload.cmds[i] \in Command
           /\ \A p \in Runs : /\ script[p] \in Script
                              /\ script[p].i \in Nat /\ script[p].i >= 1
                              /\ script[p].ok \in BOOLEAN
                              /\ script[p].bad \in BOOLEAN
                              /\ script[p].pc \in {"kubeadm", "touch", "upload"}
                                    => script[p].i <= NCmds /\ Cmd(p).does # "plain"
                              /\ script[p].pc = "touch" => Cmd(p).touch
                              /\ script[p].pc = "upload" => Cmd(p).does = "init"
  BY PayloadFacts DEF TypeOK, Script

LEMMA PrepareType ==
    ASSUME TypeOK, NEW p \in Runs, Prepare(p) \/ CheckDone(p) \/ Rewritten(p)
    PROVE  TypeOK'
<1>1. PICK pc \in {"install", "write", "exit", "reset", "run"} : Goto(p, pc)
  BY DEF Prepare, CheckDone, Rewritten
<1>2. /\ script' \in [Runs -> Script]
      /\ script'[p].pc \notin {"kubeadm", "touch", "upload"} /\ script'[p].i = 1
      /\ \A q \in Runs : q # p => script'[q] = script[q]
  BY <1>1, GotoType DEF Pc
<1>3. /\ UNCHANGED controller
      /\ packages' = packages /\ files' = files /\ kube' = kube
      /\ manifest' = manifest /\ sentinel' = sentinel
      /\ done' = done /\ uploaded' = uploaded
  BY DEF Prepare, CheckDone, Rewritten, node
<1> QED
  BY <1>2, <1>3, TypeKept, TypeFrame

\* The steps of the installation change the packages and where the script is.
LEMMA InstallFacts ==
    ASSUME TypeOK, NEW p \in Runs, Install(p) \/ UnpackKubeadm(p) \/ InstallEnds(p)
    PROVE  /\ script' \in [Runs -> Script]
           /\ script'[p].pc \in {"dpkg", "write", "exit"}
           /\ script'[p].pc = "write" => script'[p].i = 1
           /\ script'[p].pc = "exit" => ~script'[p].ok
           /\ script'[p].i >= 1 /\ script'[p].bad = script[p].bad
           /\ \A q \in Runs : q # p => script'[q] = script[q]
           /\ UNCHANGED controller
           /\ packages' \in {"none", "broken", "half", "ready"}
           /\ files' = files /\ kube' = kube /\ manifest' = manifest
           /\ sentinel' = sentinel /\ done' = done /\ uploaded' = uploaded
<1>1. \/ \E pc \in {"dpkg", "write"} : Goto(p, pc)
      \/ Abort(p)
      \/ script' = script /\ script[p].pc = "dpkg"
  BY DEF Install, UnpackKubeadm, InstallEnds
<1>2. /\ script' \in [Runs -> Script]
      /\ script'[p].pc \in {"dpkg", "write", "exit"}
      /\ script'[p].pc = "write" => script'[p].i = 1
      /\ script'[p].pc = "exit" => ~script'[p].ok
      /\ script'[p].i >= 1 /\ script'[p].bad = script[p].bad
      /\ \A q \in Runs : q # p => script'[q] = script[q]
  <2>1. ASSUME NEW pc \in {"dpkg", "write"}, Goto(p, pc) PROVE <1>2!:
    BY <2>1, GotoType DEF Pc
  <2>2. CASE Abort(p)
    BY <2>2, AbortType, TypeKept
  <2>3. CASE script' = script /\ script[p].pc = "dpkg"
    BY <2>3, TypeKept DEF TypeOK
  <2> QED
    BY <1>1, <2>1, <2>2, <2>3
<1>3. /\ UNCHANGED controller
      /\ packages' \in {"none", "broken", "half", "ready"}
      /\ files' = files /\ kube' = kube /\ manifest' = manifest
      /\ sentinel' = sentinel /\ done' = done /\ uploaded' = uploaded
  BY TypeKept DEF Install, UnpackKubeadm, InstallEnds
<1> QED
  BY <1>2, <1>3

LEMMA InstallType ==
    ASSUME TypeOK, NEW p \in Runs, Install(p) \/ UnpackKubeadm(p) \/ InstallEnds(p)
    PROVE  TypeOK'
<1>1. script'[p].pc \notin {"kubeadm", "touch", "upload"}
  BY InstallFacts
<1> QED
  BY <1>1, InstallFacts, TypeKept, TypeFrame

LEMMA WriteType ==
    ASSUME TypeOK, NEW p \in Runs, WriteFile(p) \/ RewriteFile(p)
    PROVE  TypeOK'
<1>1. /\ script' \in [Runs -> Script]
      /\ script'[p].pc \notin {"kubeadm", "touch", "upload"} /\ script'[p].i >= 1
      /\ \A q \in Runs : q # p => script'[q] = script[q]
  <2>1. script[p].pc \in {"write", "rewrite"}
    BY DEF WriteFile, RewriteFile
  <2> QED
    BY <2>1, FileType, TypeKept
<1>2. /\ UNCHANGED controller
      /\ packages' = packages /\ kube' = kube /\ manifest' = manifest
      /\ sentinel' = sentinel /\ done' = done /\ uploaded' = uploaded
  BY DEF WriteFile, RewriteFile
<1>3. files' \in [1 .. NFiles -> {"absent", "good", "raw"}]
  BY TypeKept DEF WriteFile, RewriteFile
<1> QED
  BY <1>1, <1>2, <1>3, TypeKept, TypeFrame

LEMMA ResetFacts ==
    ASSUME TypeOK, NEW p \in Runs, Reset(p) \/ ResetEnds(p) \/ ResetFails(p)
    PROVE  /\ script[p].pc \in {"reset", "resetting"}
           /\ script' \in [Runs -> Script]
           /\ script'[p].pc \in {"resetting", "rewrite"} /\ script'[p].i = 1
           /\ script'[p].bad = script[p].bad
           /\ \A q \in Runs : q # p => script'[q] = script[q]
           /\ UNCHANGED controller /\ packages' = packages
           /\ sentinel' = sentinel
<1>1. PICK pc \in {"resetting", "rewrite"} : Goto(p, pc)
  BY DEF Reset, ResetEnds, ResetFails
<1>2. /\ script' \in [Runs -> Script]
      /\ script'[p].pc \in {"resetting", "rewrite"} /\ script'[p].i = 1
      /\ script'[p].bad = script[p].bad
      /\ \A q \in Runs : q # p => script'[q] = script[q]
  BY <1>1, GotoType DEF Pc
<1>3. /\ script[p].pc \in {"reset", "resetting"}
      /\ UNCHANGED controller /\ packages' = packages /\ sentinel' = sentinel
  BY DEF Reset, ResetEnds, ResetFails
<1> QED
  BY <1>2, <1>3

LEMMA ResetType ==
    ASSUME TypeOK, NEW p \in Runs, Reset(p) \/ ResetEnds(p) \/ ResetFails(p)
    PROVE  TypeOK'
<1>1. done' \subseteq done /\ uploaded' \in BOOLEAN
  BY TypeKept DEF Reset, ResetEnds, ResetFails
<1>2. files' \in [1 .. NFiles -> {"absent", "good", "raw"}]
  BY TypeKept DEF Reset, ResetEnds, ResetFails
<1>3. kube' \in {"none", "partial", "up"} /\ manifest' \in BOOLEAN
  BY TypeKept DEF Reset, ResetEnds, ResetFails
<1>4. script'[p].pc \notin {"kubeadm", "touch", "upload"} /\ script'[p].i >= 1
  BY ResetFacts
<1> QED
  BY <1>1, <1>2, <1>3, <1>4, ResetFacts, TypeKept, TypeFrame

LEMMA CommandType ==
    ASSUME TypeOK, NEW p \in Runs, NEW ok \in BOOLEAN, NEW bad \in BOOLEAN,
           script[p].i <= NCmds, After(p, ok, bad),
           UNCHANGED controller, packages' = packages, files' = files,
           kube' \in {kube, "up"}, manifest' = manifest, sentinel' \in BOOLEAN,
           done' \subseteq done \cup {script[p].i}, uploaded' = uploaded
    PROVE  TypeOK'
<1>1. script[p].i \in 1 .. NCmds
  BY TypeKept
<1>2. /\ script' \in [Runs -> Script]
      /\ \A q \in Runs : q # p => script'[q] = script[q]
      /\ script'[p].i >= 1
      /\ script'[p].pc \in {"upload", "run"}
      /\ script'[p].pc = "upload"
            => script'[p].i = script[p].i /\ Cmd(p).does = "init"
  BY TypeKept, AfterType
<1>3. script'[p].pc \in {"kubeadm", "touch", "upload"}
         => /\ script'[p].i <= NCmds
            /\ payload.cmds[script'[p].i].does # "plain"
  BY <1>1, <1>2 DEF Cmd
<1>4. done' \subseteq 1 .. NCmds /\ kube' \in {"none", "partial", "up"}
  BY <1>1, TypeKept
<1>5. /\ script'[p].pc # "touch"
      /\ script'[p].pc = "upload" => payload.cmds[script'[p].i].does = "init"
  BY <1>2 DEF Cmd
<1> QED
  BY <1>2, <1>3, <1>4, <1>5, TypeKept, TypeFrame

LEMMA KubeType ==
    ASSUME TypeOK, NEW p \in Runs, NEW pc \in {"kubeadm", "touch"},
           Step(p, [script[p] EXCEPT !.pc = pc]),
           script[p].i <= NCmds, Cmd(p).does # "plain",
           pc = "touch" => Cmd(p).touch,
           UNCHANGED controller, packages' = packages, files' = files,
           kube' \in {"partial", "up"}, manifest' = manifest, sentinel' = sentinel,
           done' \subseteq done \cup {script[p].i}, uploaded' = uploaded
    PROVE  TypeOK'
<1>3. /\ script' \in [Runs -> Script]
      /\ script'[p].pc = pc /\ script'[p].i = script[p].i
      /\ \A q \in Runs : q # p => script'[q] = script[q]
  BY PcType DEF Pc
<1>4. script[p].i \in 1 .. NCmds
  BY TypeKept
<1>5. /\ script'[p].i >= 1 /\ script'[p].i <= NCmds
      /\ payload.cmds[script'[p].i].does # "plain"
      /\ pc = "touch" => payload.cmds[script'[p].i].touch
  BY <1>3, <1>4 DEF Cmd
<1>6. done' \subseteq 1 .. NCmds /\ kube' \in {"none", "partial", "up"}
  BY <1>4, TypeKept
<1> QED
  BY <1>3, <1>5, <1>6, TypeKept, TypeFrame

LEMMA FinishKubeType ==
    ASSUME TypeOK, NEW p \in Runs, FinishKube(p)
    PROVE  TypeOK'
<1>1. /\ UNCHANGED controller /\ packages' = packages /\ files' = files
      /\ kube' = "up" /\ manifest' = manifest
      /\ sentinel' = sentinel /\ done' = done \cup {script[p].i}
      /\ uploaded' = uploaded
      /\ script[p].pc = "kubeadm"
  BY DEF FinishKube
<1>2. script[p].i <= NCmds /\ Cmd(p).does # "plain"
  BY <1>1, TypeKept
<1>3. CASE Cmd(p).touch
  <2>1. Step(p, [script[p] EXCEPT !.pc = "touch"])
    BY <1>3 DEF FinishKube
  <2> QED
    BY <1>1, <1>2, <1>3, <2>1, KubeType
<1>4. CASE ~Cmd(p).touch
  <2>1. After(p, TRUE, script[p].bad)
    BY <1>4 DEF FinishKube
  <2>2. script[p].bad \in BOOLEAN /\ sentinel' \in BOOLEAN
    BY <1>1, TypeKept
  <2> QED
    BY <1>1, <1>2, <2>1, <2>2, CommandType
<1> QED
  BY <1>3, <1>4

LEMMA UploadType ==
    ASSUME TypeOK, NEW p \in Runs, Upload(p) \/ Finish(p)
    PROVE  TypeOK'
<1>1. /\ script' \in [Runs -> Script]
      /\ script'[p].pc \in {"run", "exit"} /\ script'[p].i >= 1
      /\ \A q \in Runs : q # p => script'[q] = script[q]
  <2>1. CASE Upload(p)
    BY <2>1, UploadedType, TypeKept
  <2>2. CASE Finish(p)
    <3>1. Step(p, [script[p] EXCEPT !.pc = "exit"])
      BY <2>2 DEF Finish
    <3> QED
      BY <3>1, PcType, TypeKept DEF Pc
  <2> QED
    BY <2>1, <2>2
<1>2. /\ UNCHANGED controller
      /\ packages' = packages /\ files' = files /\ kube' = kube
      /\ manifest' = manifest /\ sentinel' = sentinel /\ done' = done
      /\ uploaded' \in {uploaded, TRUE}
  BY DEF Upload, Finish, node
<1>3. uploaded' \in BOOLEAN
  BY <1>2, TypeKept
<1>4. script'[p].pc \notin {"kubeadm", "touch", "upload"}
  BY <1>1
<1> QED
  BY <1>1, <1>2, <1>3, <1>4, TypeKept, TypeFrame

LEMMA ProgressType ==
    ASSUME TypeOK, NEW p \in Runs, Progress(p)
    PROVE  TypeOK'
<1>1. CASE Prepare(p) \/ CheckDone(p) \/ Rewritten(p)
  BY <1>1, PrepareType
<1>2. CASE WriteFile(p) \/ RewriteFile(p)
  BY <1>2, WriteType
<1>3. CASE Reset(p) \/ ResetEnds(p)
  BY <1>3, ResetType
<1>4. CASE RunPlain(p)
  <2>1. /\ script[p].i <= NCmds /\ After(p, TRUE, script[p].bad)
        /\ UNCHANGED controller /\ packages' = packages /\ files' = files
        /\ kube' = kube /\ manifest' = manifest
        /\ done' = done \cup {script[p].i} /\ uploaded' = uploaded
        /\ sentinel' = (sentinel \/ Cmd(p).touch)
    BY <1>4 DEF RunPlain
  <2>2. sentinel' \in BOOLEAN /\ script[p].bad \in BOOLEAN
    BY <2>1, TypeKept
  <2> QED
    BY <2>1, <2>2, CommandType
<1>5. CASE StartKube(p)
  BY <1>5, KubeType DEF StartKube
<1>6. CASE FinishKube(p)
  BY <1>6, FinishKubeType
<1>7. CASE Touch(p)
  <2>1. /\ script[p].pc = "touch" /\ After(p, TRUE, script[p].bad)
        /\ UNCHANGED controller /\ packages' = packages /\ files' = files
        /\ kube' = kube /\ manifest' = manifest
        /\ sentinel' \in BOOLEAN /\ done' = done /\ uploaded' = uploaded
    BY <1>7 DEF Touch
  <2>2. script[p].i <= NCmds /\ script[p].bad \in BOOLEAN
    BY <2>1, TypeKept
  <2> QED
    BY <2>1, <2>2, CommandType
<1>8. CASE Upload(p) \/ Finish(p)
  BY <1>8, UploadType
<1>9. CASE Install(p) \/ UnpackKubeadm(p) \/ InstallEnds(p)
  BY <1>9, InstallType
<1>10. CASE WriteManifest(p)
  BY <1>10, TypeKept DEF WriteManifest, TypeOK, controller, NFiles, NCmds, Cmd
<1> QED
  BY <1>1, <1>2, <1>3, <1>4, <1>5, <1>6, <1>7, <1>8, <1>9, <1>10 DEF Progress

LEMMA FailureType ==
    ASSUME TypeOK, NEW p \in Runs, KubeFails(p) \/ UploadFails(p) \/ StepFails(p)
    PROVE  TypeOK'
<1>1. /\ UNCHANGED controller
      /\ packages' = packages /\ files' = files /\ kube' = kube
      /\ manifest' = manifest /\ sentinel' = sentinel
      /\ done' = done /\ uploaded' = uploaded
  BY DEF KubeFails, UploadFails, StepFails, node
<1>2. CASE Abort(p)
  <2>1. /\ script' \in [Runs -> Script]
        /\ script'[p].pc \notin {"kubeadm", "touch", "upload"} /\ script'[p].i >= 1
        /\ \A q \in Runs : q # p => script'[q] = script[q]
    BY <1>2, AbortType, TypeKept
  <2> QED
    BY <1>1, <2>1, TypeKept, TypeFrame
<1>3. CASE ~Abort(p)
  <2>1. /\ After(p, FALSE, TRUE)
        /\ script[p].i <= NCmds
    BY <1>3, TypeKept DEF KubeFails, UploadFails, StepFails
  <2> QED
    BY <1>1, <2>1, TypeKept, CommandType
<1> QED
  BY <1>2, <1>3

\* Steps of the controller and of the node.
LEMMA ControllerType ==
    ASSUME TypeOK,
           payload' = payload, packages' = packages, files' = files,
           kube' = kube, manifest' = manifest,
           sentinel' \in BOOLEAN, done' = done, uploaded' = uploaded,
           session' \in Runs \cup {None}, reported' \in BOOLEAN,
           tainted' \subseteq {"overlap", "masked"},
           script' \in [Runs -> Script],
           \A p \in Runs : \/ script'[p] = script[p]
                           \/ script'[p].i = 1 /\ script'[p].pc \in {"off", "prepare"}
    PROVE  TypeOK'
  BY DEF TypeOK, NFiles, NCmds, Cmd

LEMMA OffType == /\ Off \in Script
                 /\ Off.pc = "off" /\ Off.i = 1 /\ Off.ok = TRUE /\ Off.bad = FALSE
  BY DEF Off, Script, Pc

LEMMA NextType ==
    ASSUME TypeOK, [Next]_vars
    PROVE  TypeOK'
<1>0. /\ payload \in Payloads /\ session \in Runs \cup {None} /\ reported \in BOOLEAN
      /\ tainted \subseteq {"overlap", "masked"} /\ script \in [Runs -> Script]
      /\ sentinel \in BOOLEAN
  BY DEF TypeOK
<1>1. CASE Connect
  <2>1. PICK p \in Runs : Goto(p, "prepare") /\ session' = p
    BY <1>1 DEF Connect
  <2>2. /\ script' \in [Runs -> Script]
        /\ script'[p].i = 1 /\ script'[p].pc = "prepare"
        /\ \A q \in Runs : q # p => script'[q] = script[q]
    BY <2>1, GotoType DEF Pc
  <2>3. /\ payload' = payload /\ packages' = packages /\ files' = files
        /\ kube' = kube /\ manifest' = manifest
        /\ sentinel' = sentinel /\ done' = done /\ uploaded' = uploaded
        /\ reported' = reported
        /\ tainted' \subseteq tainted \cup {"overlap"}
    BY <1>1 DEF Connect, node
  <2> QED
    BY <1>0, <2>1, <2>2, <2>3, ControllerType
<1>2. CASE RunSucceeds \/ RunFails
  <2>1. /\ payload' = payload /\ packages' = packages /\ files' = files
        /\ kube' = kube /\ manifest' = manifest
        /\ sentinel' = sentinel /\ done' = done /\ uploaded' = uploaded
        /\ reported' \in {reported, TRUE} /\ session' = None
        /\ tainted' \subseteq tainted \cup {"masked"}
        /\ session \in Runs /\ Step(session, Off)
    BY <1>0, <1>2 DEF RunSucceeds, RunFails, node
  <2>2. /\ script' \in [Runs -> Script]
        /\ \A q \in Runs : script'[q] = script[q] \/ script'[q] = Off
    BY <2>1, OffType, StepType
  <2> QED
    BY <1>0, <2>1, <2>2, OffType, ControllerType
<1>3. CASE Cut
  <2>1. /\ payload' = payload /\ packages' = packages /\ files' = files
        /\ kube' = kube /\ manifest' = manifest
        /\ sentinel' = sentinel /\ done' = done /\ uploaded' = uploaded
        /\ reported' = reported /\ session' = None /\ tainted' = tainted
        /\ session \in Runs /\ (Step(session, Off) \/ script' = script)
    BY <1>0, <1>3 DEF Cut, node
  <2>2. /\ script' \in [Runs -> Script]
        /\ \A q \in Runs : script'[q] = script[q] \/ script'[q] = Off
    BY <1>0, <2>1, OffType, StepType
  <2> QED
    BY <1>0, <2>1, <2>2, OffType, ControllerType
<1>4. CASE Reboot
  <2>1. /\ payload' = payload /\ packages' = packages /\ files' = files
        /\ kube' = kube /\ manifest' = manifest
        /\ sentinel' = FALSE /\ done' = done /\ uploaded' = uploaded
        /\ reported' = reported /\ session' = None /\ tainted' = tainted
        /\ script' = [p \in Runs |-> Off]
    BY <1>4 DEF Reboot
  <2>2. /\ script' \in [Runs -> Script]
        /\ \A q \in Runs : script'[q] = Off
    BY <2>1, OffType
  <2> QED
    BY <1>0, <2>1, <2>2, OffType, ControllerType
<1>5. ASSUME NEW p \in Runs, Progress(p) PROVE TypeOK'
  BY <1>5, ProgressType
<1>6. ASSUME NEW p \in Runs, KubeFails(p) \/ UploadFails(p) \/ StepFails(p)
      PROVE  TypeOK'
  BY <1>6, FailureType
<1>7. ASSUME NEW p \in Runs, SurvivorEnds(p) PROVE TypeOK'
  <2>1. /\ payload' = payload /\ packages' = packages /\ files' = files
        /\ kube' = kube /\ manifest' = manifest
        /\ sentinel' = sentinel /\ done' = done /\ uploaded' = uploaded
        /\ reported' = reported /\ session' = session /\ tainted' = tainted
        /\ Step(p, Off)
    BY <1>7 DEF SurvivorEnds, controller, node
  <2>2. /\ script' \in [Runs -> Script]
        /\ \A q \in Runs : script'[q] = script[q] \/ script'[q] = Off
    BY <2>1, OffType, StepType
  <2> QED
    BY <1>0, <2>1, <2>2, OffType, ControllerType
<1>8. ASSUME NEW p \in Runs, ResetFails(p) PROVE TypeOK'
  BY <1>8, ResetType
<1>9. CASE UNCHANGED vars
  BY <1>9 DEF vars, TypeOK, NFiles, NCmds, Cmd
<1> QED
  BY <1>1, <1>2, <1>3, <1>4, <1>5, <1>6, <1>7, <1>8, <1>9 DEF Next

\* Every variable of the bootstrap keeps its type, and a script never runs past
\* the files and the commands of its payload.
THEOREM TypeCorrect == Spec => []TypeOK
<1>1. TypeOK /\ [Next]_vars => TypeOK'
  BY NextType
<1> QED
  BY InitType, <1>1, PTL DEF Spec

-----------------------------------------------------------------------------
(***************************************************************************)
(* One script at a time, unless a script survived its connection.          *)
(***************************************************************************)

Acts(p) == \/ Progress(p)
           \/ KubeFails(p)
           \/ UploadFails(p)
           \/ StepFails(p)
           \/ ResetFails(p)

\* A script that acts is alive and stays so, and the others do not notice.
LEMMA ActsFacts ==
    ASSUME TypeOK, NEW p \in Runs, Acts(p)
    PROVE  /\ Alive(p) /\ Alive(p)'
           /\ UNCHANGED controller
           /\ \A q \in Runs : q # p => script'[q] = script[q]
<1> DEFINE Moved == /\ Alive(p)'
                    /\ \A q \in Runs : q # p => script'[q] = script[q]
<1>1. Alive(p) /\ UNCHANGED controller
  BY DEF Acts, Progress, Prepare, Install, UnpackKubeadm, InstallEnds, WriteFile,
         CheckDone, Reset, ResetEnds, ResetFails, RewriteFile, Rewritten, RunPlain,
         StartKube, WriteManifest, FinishKube, Touch, Upload, Finish, KubeFails,
         UploadFails, StepFails, Alive
<1>2. ASSUME NEW pc \in Pc \ {"off"}, Goto(p, pc) PROVE Moved
  BY <1>2, GotoType DEF Alive
<1>3. ASSUME NEW pc \in Pc \ {"off"}, Step(p, [script[p] EXCEPT !.pc = pc])
      PROVE  Moved
  BY <1>3, PcType DEF Alive
<1>4. ASSUME NEW ok \in BOOLEAN, NEW bad \in BOOLEAN, After(p, ok, bad)
      PROVE  Moved
  BY <1>4, AfterType DEF Alive
<1>5. CASE Abort(p)
  BY <1>1, <1>5, AbortType DEF Alive
<1>6. CASE Prepare(p) \/ CheckDone(p) \/ Rewritten(p)
  <2>1. PICK pc \in {"install", "write", "exit", "reset", "run"} : Goto(p, pc)
    BY <1>6 DEF Prepare, CheckDone, Rewritten
  <2>2. pc \in Pc \ {"off"}
    BY DEF Pc
  <2> QED
    BY <1>1, <1>2, <2>1, <2>2
<1>7. CASE WriteFile(p) \/ RewriteFile(p)
  BY <1>1, <1>7, FileType DEF Alive
<1>8. CASE StartKube(p) \/ Finish(p)
  <2>1. PICK pc \in {"kubeadm", "exit"} : Step(p, [script[p] EXCEPT !.pc = pc])
    BY <1>8 DEF StartKube, Finish
  <2>2. pc \in Pc \ {"off"}
    BY DEF Pc
  <2> QED
    BY <1>1, <1>3, <2>1, <2>2
<1>9. CASE FinishKube(p)
  <2>1. CASE Cmd(p).touch
    <3>1. Step(p, [script[p] EXCEPT !.pc = "touch"]) /\ "touch" \in Pc \ {"off"}
      BY <1>9, <2>1 DEF FinishKube, Pc
    <3> QED
      BY <1>1, <1>3, <3>1
  <2>2. CASE ~Cmd(p).touch
    <3>1. After(p, TRUE, script[p].bad) /\ script[p].bad \in BOOLEAN
      BY <1>9, <2>2, TypeKept DEF FinishKube
    <3> QED
      BY <1>1, <1>4, <3>1
  <2> QED
    BY <2>1, <2>2
<1>10. CASE RunPlain(p) \/ Touch(p)
  <2>1. After(p, TRUE, script[p].bad) /\ script[p].bad \in BOOLEAN
    BY <1>10, TypeKept DEF RunPlain, Touch
  <2> QED
    BY <1>1, <1>4, <2>1
<1>11. CASE Upload(p)
  BY <1>1, <1>11, UploadedType DEF Alive
<1>12. CASE KubeFails(p) /\ ~Abort(p)
  <2>1. After(p, FALSE, TRUE)
    BY <1>12 DEF KubeFails
  <2> QED
    BY <1>1, <1>4, <2>1
<1>13. CASE UploadFails(p) \/ StepFails(p)
  BY <1>5, <1>13 DEF UploadFails, StepFails
<1>14. CASE Install(p) \/ UnpackKubeadm(p) \/ InstallEnds(p)
  BY <1>1, <1>14, InstallFacts DEF Alive
<1>15. CASE Reset(p) \/ ResetEnds(p) \/ ResetFails(p)
  BY <1>1, <1>15, ResetFacts DEF Alive
<1>16. CASE WriteManifest(p)
  BY <1>1, <1>16 DEF WriteManifest, Alive
<1> QED
  BY <1>5, <1>6, <1>7, <1>8, <1>9, <1>10, <1>11, <1>12, <1>13, <1>14, <1>15, <1>16
     DEF Acts, Progress

\* The steps that are not a script's own.
Ends == \/ RunSucceeds
        \/ RunFails
        \/ Cut
        \/ Reboot
        \/ \E p \in Runs : SurvivorEnds(p)

\* A step that ends scripts and starts none: what is left is as it was.
LEMMA EndsFacts ==
    ASSUME TypeOK, Ends
    PROVE  /\ payload' = payload /\ files' = files /\ kube' = kube
           /\ done' = done /\ uploaded' = uploaded
           /\ sentinel' => sentinel
           /\ tainted \subseteq tainted'
           /\ "overlap" \in tainted' => "overlap" \in tainted
           /\ session' \in {session, None}
           /\ reported' => reported \/ RunSucceeds
           /\ \A q \in Runs : script'[q] = Off \/ script'[q] = script[q]
           /\ session' # None => script'[session] = script[session]
<1>0. session \in Runs \cup {None} /\ script \in [Runs -> Script]
  BY DEF TypeOK
<1>1. /\ payload' = payload /\ files' = files /\ kube' = kube
      /\ done' = done /\ uploaded' = uploaded
      /\ sentinel' => sentinel
      /\ tainted \subseteq tainted'
      /\ "overlap" \in tainted' => "overlap" \in tainted
      /\ session' \in {session, None}
      /\ reported' => reported \/ RunSucceeds
  BY DEF Ends, RunSucceeds, RunFails, Cut, Reboot, SurvivorEnds, controller, node
<1>2. ASSUME NEW p \in Runs, Step(p, Off)
      PROVE  \A q \in Runs : \/ q # p /\ script'[q] = script[q]
                             \/ q = p /\ script'[q] = Off
  BY <1>2, OffType, StepType
<1>3. CASE RunSucceeds \/ RunFails \/ Cut
  <2>1. session \in Runs /\ session' = None
        /\ (Step(session, Off) \/ script' = script)
    BY <1>0, <1>3 DEF RunSucceeds, RunFails, Cut
  <2> QED
    BY <1>1, <1>2, <2>1
<1>4. CASE Reboot
  <2>1. session' = None /\ \A q \in Runs : script'[q] = Off
    BY <1>4 DEF Reboot
  <2> QED
    BY <1>1, <2>1
<1>5. ASSUME NEW p \in Runs, SurvivorEnds(p)
      PROVE  /\ \A q \in Runs : script'[q] = Off \/ script'[q] = script[q]
             /\ session' # None => script'[session] = script[session]
  <2>1. session' = session /\ p # session /\ Step(p, Off)
    BY <1>5 DEF SurvivorEnds, controller
  <2> QED
    BY <1>0, <1>2, <2>1
<1> QED
  BY <1>1, <1>3, <1>4, <1>5 DEF Ends

LEMMA NextCases ==
    ASSUME [Next]_vars
    PROVE  \/ Connect
           \/ Ends
           \/ \E p \in Runs : Acts(p)
           \/ UNCHANGED vars
  BY DEF Next, Ends, Acts

LEMMA ConnectFacts ==
    ASSUME TypeOK, Connect
    PROVE  \E p \in Runs :
              /\ session' = p
              /\ script'[p].pc = "prepare" /\ script'[p].bad = script[p].bad
              /\ \A q \in Runs : q # p => script'[q] = script[q]
              /\ Alone' => Alone /\ \A q \in Runs : ~Alive(q)
              /\ payload' = payload /\ files' = files /\ kube' = kube
              /\ sentinel' = sentinel /\ done' = done /\ uploaded' = uploaded
              /\ ~reported /\ reported' = reported
<1>1. PICK p \in Runs : Goto(p, "prepare") /\ session' = p
  BY DEF Connect
<1>2. /\ script'[p].pc = "prepare" /\ script'[p].bad = script[p].bad
      /\ \A q \in Runs : q # p => script'[q] = script[q]
  BY <1>1, GotoType DEF Pc
<1>3. Alone' => Alone /\ \A q \in Runs : ~Alive(q)
  BY DEF Connect, Alone
<1> QED
  BY <1>1, <1>2, <1>3 DEF Connect, node

LEMMA AloneStep ==
    ASSUME TypeOK, AloneInv, [Next]_vars
    PROVE  AloneInv'
<1>0. session \in Runs \cup {None} /\ None \notin Runs
  BY ConstantAssumption DEF TypeOK
<1>1. CASE Connect
  BY <1>1, <1>0, ConnectFacts DEF AloneInv, Alive
<1>2. CASE Ends
  BY <1>2, <1>0, EndsFacts, OffType DEF AloneInv, Alive, Alone
<1>3. ASSUME NEW p \in Runs, Acts(p) PROVE AloneInv'
  <2>1. /\ \A q \in Runs : Alive(q)' = Alive(q)
        /\ session' = session /\ Alone' = Alone
    BY <1>3, ActsFacts DEF Alive, Alone, controller
  <2> QED
    BY <1>0, <2>1 DEF AloneInv
<1>4. CASE UNCHANGED vars
  BY <1>4 DEF vars, AloneInv, Alive, Alone
<1> QED
  BY <1>1, <1>2, <1>3, <1>4, NextCases

\* Until a script survives the loss of its connection no two scripts run at the
\* same time, and the controller only waits for a script that is alive.
LEMMA OneScript == Spec => []AloneInv
<1>1. Init => AloneInv
  BY OffType DEF Init, AloneInv, Alive
<1>2. TypeOK /\ AloneInv /\ [Next]_vars => AloneInv'
  BY AloneStep
<1> QED
  BY <1>1, <1>2, TypeCorrect, PTL DEF Spec

-----------------------------------------------------------------------------
(***************************************************************************)
(* A machine that is reported serves.                                      *)
(***************************************************************************)

\* The command that sets the node up is also the one that writes the sentinel.
SetUpTouches == \E k \in 1 .. NCmds : /\ payload.cmds[k].does # "plain"
                                      /\ payload.cmds[k].touch

\* What SetUpInv says of the script that runs.
SetUpOf(p) ==
    /\ script[p].pc = "touch" => kube = "up"
    /\ PastSetUp(p) /\ ~script[p].bad => kube = "up"
    /\ script[p].pc = "exit" /\ script[p].ok /\ ~script[p].bad => kube = "up"
    /\ script[p].bad => SetUpTouches
    /\ script[p].pc \in {"reset", "resetting"} => ~sentinel

LEMMA SetUpOfRuns ==
    ASSUME SetUpInv, Alone
    PROVE  /\ sentinel => kube = "up"
           /\ \A p \in Runs : SetUpOf(p) /\ (reported => ~Alive(p))
  BY DEF SetUpInv, SetUpOf, SetUpTouches

\* A later command writes the sentinel only if the one that sets the node up
\* does not.
LEMMA LaterTouch ==
    ASSUME TypeOK, NEW i \in 1 .. NCmds, payload.cmds[i].does = "plain",
           payload.cmds[i].touch
    PROVE  /\ ~SetUpTouches
           /\ \E k \in 1 .. NCmds : k < i /\ payload.cmds[k].does # "plain"
<1>1. PICK k \in 1 .. NCmds :
         /\ payload.cmds[k].does # "plain"
         /\ \A j \in 1 .. NCmds :
               /\ j # k => payload.cmds[j].does = "plain"
               /\ payload.cmds[j].touch => /\ k <= j
                                           /\ j # k => ~payload.cmds[k].touch
  BY PayloadFacts DEF TypeOK
<1>2. i # k /\ k <= i /\ ~payload.cmds[k].touch
  BY <1>1
<1> QED
  BY <1>1, <1>2, TypeKept DEF SetUpTouches

\* It is enough to look at the script that acts.
LEMMA SetUpFrame ==
    ASSUME TypeOK, AloneInv, SetUpInv, NEW p \in Runs, Acts(p),
           Alone => /\ sentinel' => kube' = "up"
                    /\ SetUpOf(p)'
    PROVE  SetUpInv'
<1>1. /\ Alive(p)
      /\ UNCHANGED controller
      /\ \A q \in Runs : q # p => script'[q] = script[q]
  BY ActsFacts
<1>2. Alone' = Alone /\ NCmds' = NCmds /\ SetUpTouches' = SetUpTouches
  BY <1>1 DEF controller, Alone, NCmds, SetUpTouches
<1>3. CASE ~Alone
  BY <1>1, <1>2, <1>3 DEF SetUpInv, Alone, controller
<1>4. CASE Alone
  <2>1. ~reported /\ ~reported'
    BY <1>1, <1>4, SetUpOfRuns DEF controller
  <2>2. ASSUME NEW q \in Runs, q # p PROVE SetUpOf(q)'
    <3>1. script'[q] = script[q] /\ script[q].pc = "off" /\ SetUpOf(q)
      BY <1>1, <1>4, <2>2, SetUpOfRuns DEF AloneInv, Alive
    <3> QED
      BY <1>2, <3>1 DEF SetUpOf, PastSetUp
  <2>3. \A q \in Runs : SetUpOf(q)'
    BY <1>4, <2>2
  <2> QED
    BY <1>2, <1>4, <2>1, <2>3 DEF SetUpInv, SetUpOf, SetUpTouches
<1> QED
  BY <1>3, <1>4

\* After a command the script is past the set-up if that command was it or if
\* it was past it before.
LEMMA AfterSetUp ==
    ASSUME TypeOK, NEW p \in Runs, NEW ok \in BOOLEAN, NEW bad \in BOOLEAN,
           After(p, ok, bad), payload' = payload,
           kube' # "up" /\ ~bad => /\ Cmd(p).does = "plain"
                                   /\ ~PastSetUp(p) /\ script[p].pc = "run",
           bad => SetUpTouches
    PROVE  SetUpOf(p)'
<1>1. /\ script'[p].bad = bad
      /\ script'[p].pc \in {"upload", "run"}
      /\ Cmd(p).does # "init"
           => script'[p].pc = "run" /\ script'[p].i = script[p].i + 1
  BY AfterType
<1>2. NCmds' = NCmds /\ SetUpTouches' = SetUpTouches
  BY DEF NCmds, SetUpTouches
<1>3. ASSUME kube' # "up", ~bad PROVE ~PastSetUp(p)'
  <2>1. /\ Cmd(p).does = "plain" /\ script[p].pc = "run"
        /\ script'[p].pc = "run" /\ script'[p].i = script[p].i + 1
    BY <1>1, <1>3
  <2>2. ASSUME NEW k \in 1 .. NCmds, payload.cmds[k].does # "plain"
        PROVE  ~(k < script'[p].i)
    <3>1. ~(k < script[p].i) /\ k # script[p].i
      BY <1>3, <2>1, <2>2 DEF PastSetUp, Cmd
    <3> QED
      BY <2>1, <3>1, TypeKept
  <2> QED
    BY <1>2, <2>1, <2>2 DEF PastSetUp
<1> QED
  BY <1>1, <1>2, <1>3 DEF SetUpOf

\* A script that leaves its commands, or is not at them yet.
LEMMA ElsewhereSetUp ==
    ASSUME TypeOK, NEW p \in Runs, payload' = payload, SetUpOf(p),
           script'[p].bad = script[p].bad,
           script'[p].pc \in {"install", "dpkg", "write", "reset", "resetting",
                              "rewrite", "run", "kubeadm", "exit"},
           script'[p].pc = "run" => script'[p].i = 1,
           script'[p].pc = "exit" /\ script'[p].ok /\ ~script[p].bad => kube' = "up",
           script'[p].pc \in {"reset", "resetting"} => ~sentinel'
    PROVE  SetUpOf(p)'
<1>1. NCmds' = NCmds /\ SetUpTouches' = SetUpTouches
  BY DEF NCmds, SetUpTouches
<1>2. ~PastSetUp(p)'
  <2>1. ASSUME NEW k \in 1 .. NCmds PROVE ~(k < 1)
    BY TypeKept
  <2> QED
    BY <1>1, <2>1 DEF PastSetUp
<1> QED
  BY <1>1, <1>2 DEF SetUpOf

LEMMA SetUpActs ==
    ASSUME TypeOK, AloneInv, SetUpInv, NEW p \in Runs, Acts(p), Alone
    PROVE  (sentinel' => kube' = "up") /\ SetUpOf(p)'
<1>0. /\ sentinel => kube = "up"
      /\ SetUpOf(p)
      /\ payload' = payload
      /\ script[p].bad => SetUpTouches
      /\ script[p].ok \in BOOLEAN /\ script[p].bad \in BOOLEAN
  BY SetUpOfRuns, ActsFacts, TypeKept DEF controller, SetUpOf
<1>1. CASE Prepare(p) \/ CheckDone(p) \/ Rewritten(p)
  <2>1. PICK pc \in {"install", "write", "exit", "reset", "run"} :
          Goto(p, pc) /\ (pc = "exit" => sentinel) /\ (pc = "reset" => ~sentinel)
    BY <1>1 DEF Prepare, CheckDone, Rewritten
  <2>2. /\ script'[p].pc = pc /\ script'[p].i = 1
        /\ script'[p].bad = script[p].bad
    BY <2>1, GotoType DEF Pc
  <2>3. sentinel' = sentinel /\ kube' = kube
    BY <1>1 DEF Prepare, CheckDone, Rewritten, node
  <2> QED
    BY <1>0, <2>1, <2>2, <2>3, ElsewhereSetUp
<1>2. CASE WriteFile(p) \/ RewriteFile(p)
  <2>1. /\ script'[p].pc \in {"write", "rewrite"} /\ script'[p].bad = script[p].bad
        /\ sentinel' = sentinel /\ kube' = kube
    BY <1>2, FileType DEF WriteFile, RewriteFile
  <2> QED
    BY <1>0, <2>1, ElsewhereSetUp
<1>3. CASE Reset(p) \/ ResetEnds(p) \/ ResetFails(p)
  <2>1. ~sentinel /\ ~sentinel'
    BY <1>0, <1>3, ResetFacts DEF SetUpOf
  <2>2. script'[p].pc \in {"resetting", "rewrite"} /\ script'[p].bad = script[p].bad
    BY <1>3, ResetFacts
  <2> QED
    BY <1>0, <2>1, <2>2, ElsewhereSetUp
<1>4. CASE RunPlain(p)
  <2>1. /\ After(p, TRUE, script[p].bad)
        /\ script[p].pc = "run" /\ Cmd(p).does = "plain"
        /\ script[p].i <= NCmds
        /\ kube' = kube /\ (sentinel' => sentinel \/ Cmd(p).touch)
    BY <1>4 DEF RunPlain
  <2>2. PastSetUp(p) /\ ~script[p].bad => kube = "up"
    BY <1>0 DEF SetUpOf
  <2>3. Cmd(p).touch => ~script[p].bad /\ PastSetUp(p)
    <3>1. script[p].i \in 1 .. NCmds
      BY <2>1, TypeKept
    <3> QED
      BY <1>0, <2>1, <3>1, LaterTouch DEF Cmd, PastSetUp
  <2>4. SetUpOf(p)'
    BY <1>0, <2>1, <2>2, AfterSetUp
  <2> QED
    BY <1>0, <2>1, <2>2, <2>3, <2>4
<1>5. CASE StartKube(p)
  <2>1. ~sentinel /\ sentinel' = sentinel
    BY <1>0, <1>5 DEF StartKube
  <2>2. script'[p].pc = "kubeadm" /\ script'[p].bad = script[p].bad
    BY <1>5, PcType DEF StartKube, Pc
  <2> QED
    BY <1>0, <2>1, <2>2, ElsewhereSetUp
<1>6. CASE FinishKube(p)
  <2>1. kube' = "up"
    BY <1>6 DEF FinishKube
  <2>2. CASE Cmd(p).touch
    <3>1. script'[p].pc = "touch" /\ script'[p].bad = script[p].bad
      BY <1>6, <2>2, PcType DEF FinishKube, Pc
    <3>2. SetUpTouches' = SetUpTouches
      BY <1>0 DEF SetUpTouches, NCmds
    <3> QED
      BY <1>0, <2>1, <3>1, <3>2 DEF SetUpOf
  <2>3. CASE ~Cmd(p).touch
    <3>1. After(p, TRUE, script[p].bad)
      BY <1>6, <2>3 DEF FinishKube
    <3> QED
      BY <1>0, <2>1, <3>1, AfterSetUp
  <2> QED
    BY <2>2, <2>3
<1>7. CASE Touch(p)
  <2>1. kube = "up" /\ kube' = kube /\ After(p, TRUE, script[p].bad)
    BY <1>0, <1>7 DEF Touch, SetUpOf
  <2> QED
    BY <1>0, <2>1, AfterSetUp
<1>8. CASE Upload(p)
  <2>1. /\ script'[p].pc = "run" /\ script'[p].bad = script[p].bad
        /\ kube' = kube /\ sentinel' = sentinel /\ script[p].pc = "upload"
    BY <1>8, UploadedType DEF Upload
  <2>2. script[p].i \in 1 .. NCmds /\ Cmd(p).does # "plain"
    BY <2>1, TypeKept
  <2>3. PastSetUp(p)
    BY <2>1, <2>2 DEF PastSetUp, Cmd
  <2>4. SetUpTouches' = SetUpTouches
    BY <1>0 DEF SetUpTouches, NCmds
  <2> QED
    BY <1>0, <2>1, <2>3, <2>4 DEF SetUpOf
<1>9. CASE Finish(p)
  <2>1. /\ script'[p].pc = "exit" /\ script'[p].bad = script[p].bad
        /\ kube' = kube /\ sentinel' = sentinel
        /\ script[p].pc = "run" /\ script[p].i > NCmds
    BY <1>9, PcType DEF Finish, Pc, node
  <2>2. PICK k \in 1 .. NCmds : payload.cmds[k].does # "plain"
    BY PayloadFacts DEF TypeOK
  <2>3. k < script[p].i
    BY <2>1, TypeKept
  <2>4. PastSetUp(p)
    BY <2>1, <2>2, <2>3 DEF PastSetUp
  <2>5. ~script[p].bad => kube = "up"
    BY <1>0, <2>4 DEF SetUpOf
  <2> QED
    BY <1>0, <2>1, <2>5, ElsewhereSetUp
<1>10. CASE Abort(p) /\ (KubeFails(p) \/ UploadFails(p) \/ StepFails(p))
  <2>1. /\ script'[p].pc = "exit" /\ ~script'[p].ok
        /\ script'[p].bad = script[p].bad
        /\ kube' = kube /\ sentinel' = sentinel
    BY <1>10, AbortType DEF KubeFails, UploadFails, StepFails, node
  <2> QED
    BY <1>0, <2>1, ElsewhereSetUp
<1>11. CASE KubeFails(p) /\ ~Abort(p)
  <2>1. /\ After(p, FALSE, TRUE) /\ Cmd(p).touch
        /\ kube' = kube /\ sentinel' = sentinel
    BY <1>11 DEF KubeFails, node
  <2>2. script[p].i \in 1 .. NCmds /\ Cmd(p).does # "plain"
    BY <1>11, TypeKept DEF KubeFails
  <2>3. SetUpTouches
    BY <2>1, <2>2 DEF SetUpTouches, Cmd
  <2> QED
    BY <1>0, <2>1, <2>3, AfterSetUp
<1>12. CASE UploadFails(p) \/ StepFails(p)
  BY <1>10, <1>12 DEF UploadFails, StepFails
<1>13. CASE Install(p) \/ UnpackKubeadm(p) \/ InstallEnds(p)
  <2>1. /\ script'[p].pc \in {"dpkg", "write", "exit"}
        /\ script'[p].pc = "exit" => ~script'[p].ok
        /\ script'[p].bad = script[p].bad
        /\ kube' = kube /\ sentinel' = sentinel
    BY <1>13, InstallFacts
  <2> QED
    BY <1>0, <2>1, ElsewhereSetUp
<1>14. CASE WriteManifest(p)
  <2>1. /\ script' = script /\ kube' = kube /\ sentinel' = sentinel
        /\ script[p].pc = "kubeadm"
    BY <1>14 DEF WriteManifest
  <2> QED
    BY <1>0, <2>1, ElsewhereSetUp
<1> QED
  BY <1>1, <1>2, <1>3, <1>4, <1>5, <1>6, <1>7, <1>8, <1>9, <1>10, <1>11, <1>12,
     <1>13, <1>14
     DEF Acts, Progress

LEMMA SetUpStep ==
    ASSUME TypeOK, AloneInv, SetUpInv, [Next]_vars
    PROVE  SetUpInv'
<1>1. CASE Connect
  <2>1. PICK p \in Runs :
           /\ session' = p
           /\ script'[p].pc = "prepare" /\ script'[p].bad = script[p].bad
           /\ \A q \in Runs : q # p => script'[q] = script[q]
           /\ Alone' => Alone /\ \A q \in Runs : ~Alive(q)
           /\ payload' = payload /\ files' = files /\ kube' = kube
           /\ sentinel' = sentinel
           /\ ~reported /\ reported' = reported
    BY <1>1, ConnectFacts
  <2>2. NCmds' = NCmds /\ SetUpTouches' = SetUpTouches
    BY <2>1 DEF NCmds, SetUpTouches
  <2>3. ASSUME Alone', NEW q \in Runs PROVE SetUpOf(q)'
    <3>1. SetUpOf(q) /\ script'[q].pc \in {"off", "prepare"}
          /\ script'[q].bad = script[q].bad
      BY <2>1, <2>3, SetUpOfRuns DEF Alive
    <3> QED
      BY <2>2, <3>1 DEF SetUpOf, PastSetUp
  <2>4. Alone' => (sentinel' => kube' = "up")
    BY <2>1, SetUpOfRuns
  <2> QED
    BY <2>1, <2>2, <2>3, <2>4 DEF SetUpInv, SetUpOf, SetUpTouches
<1>2. CASE Ends
  <2>0. /\ payload' = payload /\ kube' = kube /\ (sentinel' => sentinel)
        /\ tainted \subseteq tainted' /\ Alone' = Alone
        /\ reported' => reported \/ RunSucceeds
        /\ \A q \in Runs : script'[q] = Off \/ script'[q] = script[q]
    BY <1>2, EndsFacts DEF Alone
  <2>1. NCmds' = NCmds /\ SetUpTouches' = SetUpTouches
    BY <2>0 DEF NCmds, SetUpTouches
  <2>2. ASSUME Alone, NEW q \in Runs PROVE SetUpOf(q)'
    <3>1. SetUpOf(q)
      BY <2>2, SetUpOfRuns
    <3> QED
      BY <2>0, <2>1, <3>1, OffType DEF SetUpOf, PastSetUp
  <2>3. ASSUME Alone, reported', NEW q \in Runs PROVE ~Alive(q)'
    <3>1. CASE reported
      BY <2>0, <2>3, <3>1, SetUpOfRuns, OffType DEF Alive
    <3>2. CASE RunSucceeds
      <4>1. session \in Runs /\ Alive(session) /\ script'[session] = Off
        BY <3>2, OffType, StepType DEF RunSucceeds, TypeOK, Alive
      <4>2. q # session => ~Alive(q)
        BY <2>3, <4>1 DEF AloneInv
      <4> QED
        BY <2>0, <4>1, <4>2, OffType DEF Alive
    <3> QED
      BY <2>0, <2>3, <3>1, <3>2
  <2>4. ASSUME reported', tainted' = {} PROVE kube' = "up"
    <3>1. tainted = {} /\ Alone
      BY <2>0, <2>4 DEF Alone
    <3>2. CASE reported
      BY <2>0, <3>1, <3>2 DEF SetUpInv
    <3>3. CASE RunSucceeds
      <4>1. /\ session \in Runs /\ ~script[session].bad
            /\ script[session].pc = "exit" /\ script[session].ok
        BY <2>4, <3>3 DEF RunSucceeds, TypeOK
      <4> QED
        BY <2>0, <3>1, <4>1, SetUpOfRuns DEF SetUpOf
    <3> QED
      BY <2>0, <2>4, <3>2, <3>3
  <2>5. Alone => (sentinel' => kube' = "up")
    BY <2>0, SetUpOfRuns
  <2> QED
    BY <2>0, <2>1, <2>2, <2>3, <2>4, <2>5 DEF SetUpInv, SetUpOf, SetUpTouches
<1>3. ASSUME NEW p \in Runs, Acts(p) PROVE SetUpInv'
  BY <1>3, SetUpActs, SetUpFrame
<1>4. CASE UNCHANGED vars
  BY <1>4 DEF vars, SetUpInv, Alone, Alive, PastSetUp, NCmds
<1> QED
  BY <1>1, <1>2, <1>3, <1>4, NextCases

LEMMA SetUpHolds == Spec => []SetUpInv
<1>1. Init => SetUpInv
  <2> SUFFICES ASSUME Init PROVE SetUpInv
    OBVIOUS
  <2>1. \A p \in Runs : script[p].pc = "off" /\ ~script[p].bad
    BY OffType DEF Init
  <2> QED
    BY <2>1 DEF Init, SetUpInv, PastSetUp
<1>2. TypeOK /\ AloneInv /\ SetUpInv /\ [Next]_vars => SetUpInv'
  BY SetUpStep
<1> QED
  BY <1>1, <1>2, TypeCorrect, OneScript, PTL DEF Spec

\* A machine that is reported as bootstrapped has a node that was set up, after
\* any number of runs that failed, were cut, lost their reply or came after a
\* restart, unless scripts overlapped or a failure went unnoticed.
THEOREM ReportIsTrue == Spec => []ReportedServes
<1>1. SetUpInv => ReportedServes
  BY DEF SetUpInv, ReportedServes, Alone
<1> QED
  BY <1>1, SetUpHolds, PTL

LEMMA ProtectsStep ==
    ASSUME TypeOK, AloneInv, SetUpInv, [Next]_vars,
           sentinel, kube = "up", Alone
    PROVE  kube' = "up"
<1>1. CASE Connect
  BY <1>1, ConnectFacts
<1>2. CASE Ends
  BY <1>2, EndsFacts
<1>3. ASSUME NEW p \in Runs, Acts(p) PROVE kube' = "up"
  <2>1. ~Reset(p) /\ ~ResetEnds(p) /\ ~ResetFails(p)
    BY ResetFacts, SetUpOfRuns DEF SetUpOf
  <2>2. CASE KubeFails(p) \/ UploadFails(p) \/ StepFails(p)
    BY <2>2 DEF KubeFails, UploadFails, StepFails, node
  <2>3. CASE Install(p) \/ UnpackKubeadm(p) \/ InstallEnds(p)
    BY <2>3, InstallFacts
  <2> QED
    BY <1>3, <2>1, <2>2, <2>3
       DEF Acts, Progress, Prepare, WriteFile, CheckDone, RewriteFile, Rewritten,
           RunPlain, StartKube, WriteManifest, FinishKube, Touch, Upload, Finish, node
<1>4. CASE UNCHANGED vars
  BY <1>4 DEF vars
<1> QED
  BY <1>1, <1>2, <1>3, <1>4, NextCases

\* No step takes a set-up away from a node that has its sentinel.
THEOREM NoResetOfDone == Spec => SentinelProtects
<1>1. TypeOK /\ AloneInv /\ SetUpInv /\ [Next]_vars
        => [sentinel /\ kube = "up" /\ Alone => kube' = "up"]_vars
  <2> SUFFICES ASSUME TypeOK, AloneInv, SetUpInv, [Next]_vars,
                      sentinel, kube = "up", Alone
               PROVE  kube' = "up"
    OBVIOUS
  <2> QED
    BY ProtectsStep
<1> QED
  BY <1>1, TypeCorrect, OneScript, SetUpHolds, PTL DEF Spec, SentinelProtects

-----------------------------------------------------------------------------
(***************************************************************************)
(* The files are in place when the commands run.                           *)
(***************************************************************************)

Placed(p, i) ==
    /\ script[p].pc = "write" /\ i < script[p].i => files[i] = "good"
    /\ script[p].pc = "reset" => files[i] = "good"
    /\ script[p].pc = "resetting" /\ ~payload.files[i].kube => InPlace(i)
    /\ script[p].pc = "rewrite" /\ (i < script[p].i \/ ~payload.files[i].kube)
          => InPlace(i)
    /\ script[p].pc \in {"run", "kubeadm", "touch", "upload"} => InPlace(i)

LEMMA FilesOfRuns ==
    ASSUME FilesInv, Alone, NEW p \in Runs, NEW i \in 1 .. NFiles
    PROVE  Placed(p, i)
  BY DEF FilesInv, Placed

LEMMA FilesFrame ==
    ASSUME TypeOK, AloneInv, FilesInv, NEW p \in Runs, Acts(p),
           Alone => \A i \in 1 .. NFiles : Placed(p, i)'
    PROVE  FilesInv'
<1>1. /\ Alive(p)
      /\ UNCHANGED controller
      /\ \A q \in Runs : q # p => script'[q] = script[q]
  BY ActsFacts
<1>2. Alone' = Alone /\ NFiles' = NFiles
  BY <1>1 DEF controller, Alone, NFiles
<1>3. ASSUME Alone, NEW q \in Runs, NEW i \in 1 .. NFiles PROVE Placed(q, i)'
  <2>1. CASE q = p
    BY <1>3, <2>1
  <2>2. CASE q # p
    BY <1>1, <1>3, <2>2 DEF AloneInv, Alive, Placed
  <2> QED
    BY <2>1, <2>2
<1> QED
  BY <1>2, <1>3 DEF FilesInv, Placed

LEMMA FilesActs ==
    ASSUME TypeOK, FilesInv, NEW p \in Runs, Acts(p), Alone,
           NEW i \in 1 .. NFiles
    PROVE  Placed(p, i)'
<1>0. /\ Placed(p, i)
      /\ payload' = payload
      /\ i \in Nat /\ i >= 1 /\ i <= NFiles
      /\ script[p].i \in Nat /\ script[p].ok \in BOOLEAN /\ script[p].bad \in BOOLEAN
      /\ files \in [1 .. NFiles -> {"absent", "good", "raw"}]
  BY FilesOfRuns, ActsFacts, TypeKept DEF controller
<1>1. CASE Prepare(p)
  <2>1. /\ script'[p].pc \in {"install", "write"}
        /\ script'[p].pc = "write" => script'[p].i = 1
    BY <1>1, GotoType DEF Prepare, Pc
  <2> QED
    BY <1>0, <2>1 DEF Placed
<1>2. CASE WriteFile(p)
  <2>1. script'[p].pc = "write" /\ script'[p].i = script[p].i + 1
    BY <1>2, FileType DEF WriteFile
  <2>2. ASSUME i < script'[p].i PROVE files'[i] = "good"
    <3>1. CASE i = script[p].i
      BY <1>0, <1>2, <3>1 DEF WriteFile
    <3>2. CASE i < script[p].i
      BY <1>0, <1>2, <3>2 DEF WriteFile, Placed
    <3> QED
      BY <1>0, <2>1, <2>2, <3>1, <3>2
  <2> QED
    BY <2>1, <2>2 DEF Placed
<1>3. CASE CheckDone(p)
  <2>1. script[p].pc = "write" /\ i < script[p].i /\ files' = files
    BY <1>0, <1>3 DEF CheckDone, TypeOK, NFiles, node
  <2>2. files'[i] = "good"
    BY <1>0, <2>1 DEF Placed
  <2>3. PICK pc \in {"exit", "reset", "run"} : Goto(p, pc)
    BY <1>3 DEF CheckDone
  <2>4. script'[p].pc \in {"exit", "reset", "run"}
    BY <2>3, GotoType DEF Pc
  <2> QED
    BY <2>2, <2>4 DEF Placed, InPlace
<1>4. CASE Reset(p) \/ ResetEnds(p) \/ ResetFails(p)
  <2>1. /\ script'[p].pc \in {"resetting", "rewrite"} /\ script'[p].i = 1
        /\ script[p].pc \in {"reset", "resetting"}
    BY <1>4, ResetFacts
  <2>2. files'[i] \in {files[i], IF payload.files[i].wiped THEN "absent" ELSE files[i]}
    BY <1>4 DEF Reset, ResetEnds, ResetFails
  <2>3. ~payload.files[i].kube => InPlace(i)
    BY <1>0, <2>1 DEF Placed, InPlace
  <2>4. ~payload.files[i].kube => InPlace(i)'
    BY <1>0, <2>2, <2>3 DEF InPlace
  <2>5. ~(i < script'[p].i)
    BY <1>0, <2>1
  <2> QED
    BY <1>0, <2>1, <2>4, <2>5 DEF Placed
<1>5. CASE RewriteFile(p)
  <2>1. script'[p].pc = "rewrite" /\ script'[p].i = script[p].i + 1
        /\ script[p].pc = "rewrite"
    BY <1>5, FileType DEF RewriteFile
  <2>2. ASSUME i < script'[p].i \/ ~payload.files[i].kube PROVE InPlace(i)'
    <3>1. CASE i = script[p].i
      <4>1. files'[i] = IF ~payload.files[i].kube THEN files[i]
                        ELSE IF payload.files[i].encoded THEN "raw" ELSE "good"
        BY <1>0, <1>5, <3>1 DEF RewriteFile
      <4>2. ~payload.files[i].kube => InPlace(i)
        BY <1>0, <2>1 DEF Placed
      <4> QED
        BY <1>0, <4>1, <4>2 DEF InPlace
    <3>2. CASE i # script[p].i
      <4>1. files'[i] = files[i]
        BY <1>0, <1>5, <3>2 DEF RewriteFile
      <4>2. i < script[p].i \/ ~payload.files[i].kube
        BY <1>0, <2>1, <2>2, <3>2
      <4> QED
        BY <1>0, <2>1, <4>1, <4>2 DEF Placed, InPlace
    <3> QED
      BY <3>1, <3>2
  <2> QED
    BY <1>0, <2>1, <2>2 DEF Placed
<1>6. CASE Rewritten(p)
  <2>1. script'[p].pc = "run" /\ files' = files /\ script[p].pc = "rewrite"
    BY <1>6, GotoType DEF Rewritten, Pc, node
  <2>2. i < script[p].i
    BY <1>0, <1>6 DEF Rewritten, TypeOK, NFiles
  <2>3. InPlace(i)
    BY <1>0, <2>1, <2>2 DEF Placed
  <2> QED
    BY <1>0, <2>1, <2>3 DEF Placed, InPlace
<1>7. CASE /\ script[p].pc \in {"run", "kubeadm", "touch", "upload"}
           /\ files' = files
           /\ script'[p].pc \notin {"write", "reset", "resetting", "rewrite"}
  BY <1>0, <1>7 DEF Placed, InPlace
<1>8. CASE Abort(p)
  <2>1. script'[p].pc = "exit"
    BY <1>8, AbortType
  <2> QED
    BY <2>1 DEF Placed
<1>9. CASE RunPlain(p) \/ StartKube(p) \/ FinishKube(p) \/ Touch(p) \/ Upload(p)
           \/ Finish(p) \/ KubeFails(p)
  <2>1. /\ script[p].pc \in {"run", "kubeadm", "touch", "upload"}
        /\ files' = files
    BY <1>9 DEF RunPlain, StartKube, FinishKube, Touch, Upload, Finish, KubeFails,
                node
  <2>2. \/ \E ok, bad \in BOOLEAN : After(p, ok, bad)
        \/ \E pc \in {"kubeadm", "touch", "exit"} :
              Step(p, [script[p] EXCEPT !.pc = pc])
        \/ Upload(p)
        \/ Abort(p)
    BY <1>0, <1>9 DEF RunPlain, StartKube, FinishKube, Touch, Finish, KubeFails
  <2>3. CASE \E ok, bad \in BOOLEAN : After(p, ok, bad)
    BY <1>7, <2>1, <2>3, AfterType
  <2>4. CASE \E pc \in {"kubeadm", "touch", "exit"} :
                Step(p, [script[p] EXCEPT !.pc = pc])
    BY <1>7, <2>1, <2>4, PcType DEF Pc
  <2>5. CASE Upload(p)
    BY <1>7, <2>1, <2>5, UploadedType
  <2> QED
    BY <1>8, <2>2, <2>3, <2>4, <2>5
<1>10. CASE UploadFails(p) \/ StepFails(p)
  BY <1>8, <1>10 DEF UploadFails, StepFails
<1>11. CASE Install(p) \/ UnpackKubeadm(p) \/ InstallEnds(p)
  <2>1. /\ script'[p].pc \in {"dpkg", "write", "exit"}
        /\ script'[p].pc = "write" => script'[p].i = 1
    BY <1>11, InstallFacts
  <2> QED
    BY <1>0, <2>1 DEF Placed
<1>12. CASE WriteManifest(p)
  BY <1>0, <1>12 DEF WriteManifest, Placed, InPlace
<1> QED
  BY <1>1, <1>2, <1>3, <1>4, <1>5, <1>6, <1>9, <1>10, <1>11, <1>12 DEF Acts, Progress

LEMMA FilesStep ==
    ASSUME TypeOK, AloneInv, FilesInv, [Next]_vars
    PROVE  FilesInv'
<1>1. CASE Connect
  <2>1. /\ Alone' => Alone
        /\ \A q \in Runs : Alone' => script'[q].pc \in {"off", "prepare"}
    BY <1>1, ConnectFacts DEF Alive
  <2> QED
    BY <2>1 DEF FilesInv
<1>2. CASE Ends
  <2>1. /\ payload' = payload /\ files' = files /\ Alone' = Alone
        /\ \A q \in Runs : script'[q].pc = "off" \/ script'[q] = script[q]
    BY <1>2, EndsFacts, OffType DEF Alone
  <2>2. NFiles' = NFiles
    BY <2>1 DEF NFiles
  <2> QED
    BY <2>1, <2>2 DEF FilesInv, InPlace
<1>3. ASSUME NEW p \in Runs, Acts(p) PROVE FilesInv'
  BY <1>3, FilesActs, FilesFrame
<1>4. CASE UNCHANGED vars
  BY <1>4 DEF vars, FilesInv, Alone, NFiles, InPlace
<1> QED
  BY <1>1, <1>2, <1>3, <1>4, NextCases

\* No command of a script runs before every file of the payload is in place,
\* after a reset of the node too.
THEOREM FilesBeforeCommands == Spec => []FilesInPlace
<1>1. Init => FilesInv
  <2> SUFFICES ASSUME Init PROVE FilesInv
    OBVIOUS
  <2>1. \A p \in Runs : script[p].pc = "off"
    BY OffType DEF Init
  <2> QED
    BY <2>1 DEF FilesInv
<1>2. TypeOK /\ AloneInv /\ FilesInv /\ [Next]_vars => FilesInv'
  BY FilesStep
<1>3. FilesInv => FilesInPlace
  BY DEF FilesInv, FilesInPlace
<1> QED
  BY <1>1, <1>2, <1>3, TypeCorrect, OneScript, PTL DEF Spec

=============================================================================
