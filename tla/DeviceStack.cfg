SPECIFICATION Spec
CONSTANTS
    s1 = s1
    s2 = s2
    Sessions = {s1, s2}
    CustomAccess <- MCCustomAccess
    Requests <- MCRequests
    Addresses = {1, 2}
    Controllers = {s1}
    OwnAddress = 1
    Numbers = {0, 1}
    ByteLimit = 3
    NoHolder = NoHolder
    NoCall = NoCall
    NoBook = NoBook
    RegisterCount = 3
    BlockMax = 2
    Fields <- MCFields
    ReadOrder <- MCReadOrder
    Values = {0, 1, 2}
    DefaultSpeed = 1
    DefaultSetting = 0
    MockFields <- MCMockFields
    MockLimit = 5
    FaultOperations = {"open", "configure", "write"}
    FaultLimit = 1
INVARIANTS
    TransfersAreExact
    SessionsKnowTheirDevice
    CountersAreEarned
PROPERTIES
    ImplementsBusSession
