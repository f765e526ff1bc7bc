\* Two installations, two names, one edit by another.
SPECIFICATION FairSpec
CONSTANTS
    i1 = i1
    i2 = i2
    a1 = a1
    a2 = a2
    v1 = v1
    v2 = v2
    good = good
    spoiled = spoiled
    alien = alien
    Installations = {i1, i2}
    Agents = {a1, a2}
    Versions = {v1, v2}
    Builds = {good, spoiled, alien}
    Pinned <- MCPinned
    Reports <- MCReports
    Foreign = Foreign
    Absent = Absent
    Broken = Broken
    Bare = Bare
    None = None
    MaxEdits = 1
INVARIANTS
    TypeOK
    LockIsGivenBack
PROPERTIES
    ImplementsRegistry
    OnlyOwnEntryChanges
    OnlyVerifiedReplaces
    CommandEnds
