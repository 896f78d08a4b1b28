SPECIFICATION WatchSpec
CONSTANTS
    wide = wide
    narrow = narrow
    gpio = gpio
    i2c = i2c
    d1 = d1
    d2 = d2
    Absent = Absent
    NoScope = NoScope
    Probes = {wide, narrow}
    Interfaces = {gpio, i2c}
    Devices = {d1, d2}
    InterfacesOf <- MCInterfacesOf
    Reportable <- MCReportable
    Descriptors <- MCDescriptors
    WatchEvents <- MCWatchEvents
INVARIANTS
    
    IndexSound
    NothingLost
    EventsRebuildInventory
    IncrementalStaysInScope
PROPERTY
    ImplementsProbeInventory
