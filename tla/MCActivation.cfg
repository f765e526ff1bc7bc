\* One connection of OpenCode next to that of llm-up, two activations of the
\* proxy unit.
SPECIFICATION FairSpec
CONSTANTS
    Clients = {opencode}
    LlmUp = curl
    MaxInvocations = 2
VIEW ReadLater
INVARIANTS
    TypeOK
    DownStaysDown
    NothingRunsWithoutProxy
PROPERTIES
    FailureIsFresh
    IdlePodStops
