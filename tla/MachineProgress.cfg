SPECIFICATION FairSpec
CONSTANTS
    None = None
    Machines = {c1}
    ControlPlane = {c1}
    NodeId = {n1}
    LbId = {l1, l2}
    Faults = {"lbReset", "lbError", "workloadError"}
PROPERTIES
    DeletionCompletes
    BecomesReady
    ReadyNodeIsTagged
    ServesAgain
\* The system stops when the objects are gone and nothing is left to do.
CHECK_DEADLOCK FALSE
