\* Two commands at a time, two settings, two unit files.
SPECIFICATION Spec
CONSTANTS
    Processes = {p1, p2}
    Settings = {s1, s2}
    UnitCount = 2
    None = None
    Torn = Torn
SYMMETRY Symmetry
INVARIANTS
    TypeOK
    SettingsApplied
