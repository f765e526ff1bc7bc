\* Expected to fail: the label a timeout quotes can be that of an earlier operation.
SPECIFICATION Spec
CONSTANTS
    Processes = {p1, p2, p3}
    Operations = {startup, shutdown}
    Startup = startup
    NoOne = NoOne
    Another = Another
    MaxRetries = 1
INVARIANT TimeoutNamesTheBlocker
