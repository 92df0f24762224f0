SPECIFICATION Spec
CONSTANTS
    g1 = g1
    g2 = g2
    g3 = g3
    u1 = u1
    u2 = u2
    u3 = u3
    c1 = c1
    c2 = c2
    None = None
    Generation <- MCGeneration
    Uri <- MCUri
    Approved <- MCApproved
    Partition <- MCPartition
    Requests <- MCRequests
    Caller <- MCCaller
    NullTextAccepted = TRUE
    MaxBuilds = 3
SYMMETRY Symmetry
INVARIANTS
    ActiveManifestIsRegistered
