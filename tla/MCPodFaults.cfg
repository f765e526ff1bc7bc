\* Kills, failed local writes, lost replies, late creations, runtime.pod-id deleted
\* by hand and RUNPOD_POD_NAME changed.
SPECIFICATION Spec
CONSTANTS
    Pods = {p1, p2}
    Specs = {s1, s2}
    Addrs = {a1, a2}
    None = None
    Restarting = Restarting
    LocalFaults = TRUE
    LostReplies = TRUE
    LateCreation = TRUE
    Resets = TRUE
SYMMETRY Symmetry
VIEW ReadForTrust
INVARIANTS
    TypeOK
    DownLeavesSelectionStopped
    SshUsesBoundEndpoint
    TunnelUsesBoundEndpoint
    KeysBelongToBinding
PROPERTY ImplementsEndpointTrust
