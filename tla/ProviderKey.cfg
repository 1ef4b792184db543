SPECIFICATION FairSpec
CONSTANTS
    NoKey = NoKey
    Managers = {p1, p2}
    Nodes = {n1, n2}
    Keys = {k1, k2, k3, k4}
    Faults = {"lostReply"}
INVARIANTS
    NodesReachable
PROPERTIES
    OneLeads
