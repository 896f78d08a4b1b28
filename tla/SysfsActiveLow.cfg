SPECIFICATION Spec
CONSTANTS
    first = first
    second = second
    Sessions = {first, second}
    NoCall = NoCall
    Accesses = {"SharedReadOnly", "Exclusive"}
    PwmRequests <- MCPwmRequests
    GpioRequests <- MCGpioRequests
INVARIANT LevelReadsBack
