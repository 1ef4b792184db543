SPECIFICATION FairSpec
CONSTANTS
    None = None
    Machines = {k1}
    ControlPlane = {}
    NodeId = {n1}
    LbId = {l1}
    Faults = {}
PROPERTIES
    ReadyNodeIsTagged
\* The system stops when the objects are gone and nothing is left to do.
CHECK_DEADLOCK FALSE
