\* Two contending processes, two retries before the deadline; of their steps
\* only those of the retry loop are fair.
SPECIFICATION FairSpec
CONSTANTS
    Processes = {p1, p2}
    Operations = {startup, shutdown}
    Startup = startup
    NoOne = NoOne
    Another = Another
    MaxRetries = 2
INVARIANTS
    TypeOK
    MutualExclusion
    LabelNamesRunningBody
PROPERTIES
    FailureOnlyFromHolder
    WaitRunsDown
    BoundedWait
