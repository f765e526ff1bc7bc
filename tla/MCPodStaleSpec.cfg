\* Expected to fail: a kill between the write of runtime.pod-id and that of
\* runtime.pod-spec.json.
SPECIFICATION Spec
CONSTANTS
    Pods = {p1, p2}
    Specs = {s1, s2}
    Addrs = {a1, a2}
    None = None
    Restarting = Restarting
    LocalFaults = TRUE
    LostReplies = FALSE
    LateCreation = FALSE
    Resets = FALSE
SYMMETRY Symmetry
INVARIANT PodMatchesSettings
