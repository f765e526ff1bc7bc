\* Without symmetry, for liveness: any request may fail at any step, and one
\* that fails has had no effect.
SPECIFICATION FairSpec
CONSTANTS
    Pods = {p1, p2}
    Specs = {s1, s2}
    Addrs = {a1, a2}
    None = None
    Restarting = Restarting
    LocalFaults = FALSE
    LostReplies = FALSE
    LateCreation = FALSE
    Resets = FALSE
VIEW ReadForEnds
INVARIANTS
    NoUnselectedPodRuns
    EndpointFollowsSelection
    PodMatchesSettings
PROPERTIES
    OnlyMovesGoBack
    OperationEnds
