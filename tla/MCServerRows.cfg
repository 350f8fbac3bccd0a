CONSTANTS
    Scenarios <- OldScenarios
    Callers = {"c1"}
    Reloader = "signal"
    MaxStops = 0
    PrefixLength = 2
    SecretLength = 2
    LegacyLength = 1
    Width = 3
    ByteSize = 2
    MaxCalls = 0
SPECIFICATION Spec
INVARIANT RowsAlwaysKept
CHECK_DEADLOCK FALSE
