\* runtime.pod-id deleted by hand and RUNPOD_POD_NAME changed, with a third Pod
\* whose record is not that of the Pod which is replaced.
SPECIFICATION Spec
CONSTANTS
    Pods = {p1, p2, p3}
    Specs = {s1, s2}
    Addrs = {a1}
    None = None
    Restarting = Restarting
    LocalFaults = FALSE
    LostReplies = FALSE
    LateCreation = FALSE
    Resets = TRUE
SYMMETRY Symmetry
VIEW ReadForTrust
INVARIANT SshUsesBoundEndpoint
PROPERTY ImplementsEndpointTrust
