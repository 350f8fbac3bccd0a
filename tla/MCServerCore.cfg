CONSTANTS
    Scenarios <- MCScenarios
    Callers = {"c1", "c2"}
    Reloader = "signal"
    MaxStops = 2
    MaxCalls = 2
    PrefixLength = 2
    SecretLength = 2
    LegacyLength = 1
    Width = 3
    ByteSize = 2
SPECIFICATION FairSpec
CHECK_DEADLOCK FALSE
INVARIANTS DataKept IdentityKept MemoryFollowsStore ServerTextsAgree
PROPERTIES VersionsInOrder StartsAndStops
