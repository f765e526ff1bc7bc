\* Expected to fail: the script of a killed up overlaps with that of the next.
SPECIFICATION Spec
CONSTANTS
    c1 = c1
    c2 = c2
    c3 = c3
    Scripts = {s1, s2}
    Configs <- MCConfigs
    ServedName <- MCServedName
    Pids = {i1, i2, i3}
    None = None
SYMMETRY Symmetry
INVARIANT SignatureVouchesForServer
