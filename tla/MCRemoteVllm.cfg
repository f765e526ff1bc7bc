\* One script at a time, to its end; servers crash and the Pod restarts.
SPECIFICATION Spec
CONSTANTS
    c1 = c1
    c2 = c2
    c3 = c3
    Scripts = {s1}
    Configs <- MCConfigs
    ServedName <- MCServedName
    Pids = {i1, i2, i3}
    None = None
SYMMETRY Symmetry
INVARIANTS
    TypeOK
    SignatureVouchesForServer
    OneServer
